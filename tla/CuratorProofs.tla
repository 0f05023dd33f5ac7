----------------------------- MODULE CuratorProofs -----------------------------
(***************************************************************************)
(* Proofs about Curator, for all candidates, durations, caps and           *)
(* cooldowns: a lineup fills its day, no main item follows itself, what    *)
(* was relaxed is reported, and the loop gets nowhere stuck or endless.    *)
(***************************************************************************)
EXTENDS Curator, FiniteSetTheorems, WellFoundedInduction, TLAPS

-----------------------------------------------------------------------------
(* The invariant.                                                          *)

\* The last main item is the previous one: it is the last item when a pass
\* begins, and the last but one behind a buffer.
Remembered ==
    /\ stage = "slot" /\ slots # <<>> =>
        /\ Main(Len(slots))
        /\ slots[Len(slots)].asset = previous
        /\ lastUsed[previous] = Len(slots) - 1
    /\ stage = "main" =>
        /\ Len(slots) > 1
        /\ ~Main(Len(slots)) /\ Main(Len(slots) - 1)
        /\ slots[Len(slots) - 1].asset = previous
        /\ lastUsed[previous] = Len(slots) - 2
    /\ stage # "idle" => shelf # {}

\* The cooldown of a main item is known, or an overflow has cleared it since.
Cooling ==
    /\ relaxed \subseteq 1 .. Len(slots)
    /\ \A k \in DOMAIN slots : Main(k) =>
        lastUsed[slots[k].asset] >= k - 1 \/ \E r \in relaxed : k < r

Uses(c) == {k \in DOMAIN slots : Main(k) /\ slots[k].asset = c}

\* The uses are counted, and without overflow nobody exceeds the cap.
Counted ==
    \A c \in Candidates :
        /\ Cardinality(Uses(c)) = usage[c]
        /\ relaxed = {} => usage[c] <= MaxRepeats

Filling == CuratorTypeOK /\ FillsTarget /\ Remembered

-----------------------------------------------------------------------------
(* Facts about the steps.                                                  *)

\* A new row is the last one; the others stay.
LEMMA AppendFacts ==
  ASSUME NEW s \in Seq(SlotRows), NEW row \in SlotRows
  PROVE  /\ Append(s, row) \in Seq(SlotRows)
         /\ Len(Append(s, row)) = Len(s) + 1
         /\ Len(s) \in Nat
         /\ Append(s, row) # <<>>
         /\ DOMAIN s = 1 .. Len(s)
         /\ DOMAIN Append(s, row) = 1 .. Len(s) + 1
         /\ \A k \in 1 .. Len(s) : Append(s, row)[k] = s[k] /\ k # Len(s) + 1
         /\ Append(s, row)[Len(s) + 1] = row
         /\ (s = <<>>) = (Len(s) = 0)
OBVIOUS

\* A buffer is appended where the day has got to.
LEMMA BufferFacts ==
  ASSUME CuratorTypeOK, NEW b \in shelf, AddBuffer(b)
  PROVE  /\ filled' = filled + SecondsOf[b] /\ filled' \in Int /\ filled < filled'
         /\ [asset |-> b, type |-> "buffer", start |-> filled, finish |-> filled'] \in SlotRows
         /\ slots' = Append(slots, [asset |-> b, type |-> "buffer", start |-> filled, finish |-> filled'])
         /\ Len(slots) > 0
<1>1. SecondsOf[b] \in Nat \ {0} /\ filled \in Int /\ b \in Candidates
  BY CuratorAssumption DEF CuratorTypeOK
<1>2. filled' = filled + SecondsOf[b]
  BY DEF AddBuffer
<1>3. filled' \in Int /\ filled < filled'
  BY <1>1, <1>2
<1> QED BY <1>1, <1>2, <1>3 DEF AddBuffer, BufferDue, Sequence, SlotRows

\* A main item is appended where the day has got to, and ends with it at the
\* latest; it lacks a length only behind a buffer.
LEMMA MainFacts ==
  ASSUME CuratorTypeOK, FillsTarget, NEW c \in shelf, AddMain(c)
  PROVE  /\ filled' \in Int /\ filled' <= Target
         /\ filled' > filled \/ (stage = "main" /\ filled' = Target)
         /\ [asset |-> c, type |-> "main", start |-> filled, finish |-> filled'] \in SlotRows
         /\ slots' = Append(slots, [asset |-> c, type |-> "main", start |-> filled, finish |-> filled'])
         /\ stage' \in {"slot", "reserve"}
         /\ stage' = "slot" => filled' < Target
         /\ stage' = "reserve" => filled' = Target
         /\ shelf' = shelf /\ previous' = c
<1>1. SecondsOf[c] \in Nat \ {0} /\ filled \in Int /\ c \in Candidates /\ Target \in Nat
  BY CuratorAssumption DEF CuratorTypeOK
<1>2. filled' = filled + Clipped(c)
  BY DEF AddMain
<1>3. Clipped(c) = IF SecondsOf[c] > Target - filled THEN Target - filled ELSE SecondsOf[c]
  BY DEF Clipped
<1>4. filled' \in Int /\ filled' <= Target /\ (filled' > filled \/ (filled' = Target /\ ~(filled < Target)))
  BY <1>1, <1>2, <1>3
<1>5. filled < Target \/ stage = "main"
  BY DEF AddMain, FillsTarget
<1>6. filled' < Target \/ filled' = Target
  BY <1>1, <1>4
<1> QED BY <1>1, <1>4, <1>5, <1>6 DEF AddMain, SlotRows

\* What the slots are when a pass has added one row.
LEMMA InitFilling == CuratorInit => Filling /\ NoMonotony /\ Cooling /\ Counted
<1> SUFFICES ASSUME CuratorInit PROVE Filling /\ NoMonotony /\ Cooling /\ Counted
  OBVIOUS
<1>1. slots = <<>> /\ slots \in Seq(SlotRows) /\ DOMAIN slots = {} /\ Len(slots) = 0
  BY DEF CuratorInit
<1>2. CuratorTypeOK
  BY <1>1, CuratorAssumption DEF CuratorInit, CuratorTypeOK, NotUsed
<1>3. Counted
  <2> SUFFICES ASSUME NEW c \in Candidates PROVE Cardinality(Uses(c)) = usage[c] /\ usage[c] <= MaxRepeats
    BY DEF Counted
  <2>1. Uses(c) = {}
    BY <1>1 DEF Uses
  <2> QED BY <2>1, FS_EmptySet, CuratorAssumption DEF CuratorInit
<1> QED BY <1>1, <1>2, <1>3 DEF CuratorInit, Filling, FillsTarget, Remembered, NoMonotony, Cooling

\* A call begins with nothing chosen, as the system does.
LEMMA BeginFilling ==
  ASSUME CuratorTypeOK, NEW eligible \in SUBSET Candidates, Begin(eligible)
  PROVE  Filling' /\ NoMonotony' /\ Cooling' /\ Counted'
<1>1. slots' = <<>> /\ slots' \in Seq(SlotRows) /\ DOMAIN slots' = {} /\ Len(slots') = 0
  BY DEF Begin
<1>2. CuratorTypeOK'
  BY <1>1, CuratorAssumption DEF Begin, CuratorTypeOK, NotUsed
<1>3. Counted'
  <2> SUFFICES ASSUME NEW c \in Candidates PROVE Cardinality(Uses(c)') = usage'[c] /\ usage'[c] <= MaxRepeats
    BY DEF Counted
  <2>1. Uses(c)' = {}
    BY <1>1 DEF Uses
  <2> QED BY <2>1, FS_EmptySet, CuratorAssumption DEF Begin
<1>4. FillsTarget'
  BY <1>1, CuratorAssumption DEF Begin, FillsTarget
<1> QED BY <1>1, <1>2, <1>3, <1>4 DEF Begin, Filling, Remembered, NoMonotony, Cooling

-----------------------------------------------------------------------------
(* The day is filled.                                                      *)

\* A buffer keeps the tiling, and remembers the item before it.
LEMMA BufferFills ==
  ASSUME Filling, NEW b \in shelf, AddBuffer(b)
  PROVE  Filling'
<1> DEFINE row == [asset |-> b, type |-> "buffer", start |-> filled, finish |-> filled']
           n == Len(slots)
<1>1. /\ filled' \in Int /\ filled < filled'
      /\ row \in SlotRows /\ slots' = Append(slots, row) /\ n > 0
      /\ slots \in Seq(SlotRows)
  BY BufferFacts DEF Filling, CuratorTypeOK
<1>2. /\ slots' \in Seq(SlotRows) /\ Len(slots') = n + 1 /\ n \in Nat /\ slots' # <<>>
      /\ DOMAIN slots = 1 .. n /\ DOMAIN slots' = 1 .. n + 1
      /\ \A k \in 1 .. n : slots'[k] = slots[k]
      /\ slots'[n + 1] = row
  BY <1>1, AppendFacts
<1>3. /\ stage = "slot" /\ stage' = "main" /\ shelf # {}
      /\ UNCHANGED <<shelf, reserve, usage, lastUsed, previous, relaxed>>
  BY DEF AddBuffer
<1>4. CuratorTypeOK'
  BY <1>1, <1>2, <1>3 DEF Filling, CuratorTypeOK
<1>5. slots # <<>> /\ filled = slots[n].finish
  BY <1>1 DEF Filling, FillsTarget
<1> HIDE DEF n, row
<1>6. FillsTarget'
  <2>1. \A k \in 1 .. n : slots'[k].start = (IF k = 1 THEN 0 ELSE slots'[k - 1].finish) /\ slots'[k].start < slots'[k].finish
    BY <1>2, <1>3 DEF Filling, FillsTarget
  <2>2. slots'[n + 1].start = slots'[n + 1 - 1].finish /\ slots'[n + 1].start < slots'[n + 1].finish /\ n + 1 # 1
    BY <1>1, <1>2, <1>5 DEF row
  <2>3. filled' = slots'[n + 1].finish
    BY <1>2 DEF row
  <2> QED BY <1>2, <1>3, <2>1, <2>2, <2>3 DEF FillsTarget
<1>7. Remembered'
  <2>1. slots[n].type = "main" /\ slots[n].asset = previous /\ lastUsed[previous] = n - 1
    BY <1>3, <1>5 DEF Filling, Remembered, Main, n
  <2>2. n + 1 - 1 = n /\ n + 1 > 1 /\ n + 1 - 2 = n - 1
    BY <1>1, <1>2
  <2>3. slots'[n + 1].type = "buffer" /\ slots'[n].type = "main" /\ slots'[n].asset = previous
    BY <1>1, <1>2, <2>1 DEF row
  <2> QED BY <1>2, <1>3, <2>1, <2>2, <2>3 DEF Remembered, Main
<1> QED BY <1>4, <1>6, <1>7 DEF Filling

\* So does a main item, and it is remembered.
LEMMA MainFills ==
  ASSUME Filling, NEW c \in shelf, AddMain(c), CuratorTypeOK', lastUsed'[c] = Sequence
  PROVE  Filling'
<1> DEFINE row == [asset |-> c, type |-> "main", start |-> filled, finish |-> filled']
           n == Len(slots)
<1>1. /\ filled' \in Int
      /\ filled' > filled \/ (stage = "main" /\ filled' = Target)
      /\ row \in SlotRows /\ slots' = Append(slots, row)
      /\ stage' \in {"slot", "reserve"}
      /\ stage' = "slot" => filled' < Target
      /\ stage' = "reserve" => filled' = Target
      /\ filled' <= Target
      /\ shelf' = shelf /\ previous' = c
      /\ slots \in Seq(SlotRows)
  BY MainFacts DEF Filling, CuratorTypeOK
<1>2. /\ slots' \in Seq(SlotRows) /\ Len(slots') = n + 1 /\ n \in Nat /\ slots' # <<>>
      /\ DOMAIN slots = 1 .. n /\ DOMAIN slots' = 1 .. n + 1
      /\ \A k \in 1 .. n : slots'[k] = slots[k]
      /\ slots'[n + 1] = row
      /\ (slots = <<>>) = (n = 0)
  BY <1>1, AppendFacts
<1>3. stage \in {"slot", "main"}
  BY DEF AddMain
<1>4. filled = IF n = 0 THEN 0 ELSE slots[n].finish
  BY <1>2 DEF Filling, FillsTarget
<1>5. stage = "main" => n > 1 /\ slots[n].type = "buffer"
  <2> SUFFICES ASSUME stage = "main" PROVE n > 1 /\ slots[n].type = "buffer"
    OBVIOUS
  <2>1. n > 1 /\ slots[n].type # "main"
    BY DEF Filling, Remembered, Main
  <2>2. slots[n] \in SlotRows
    BY <1>1, <1>2, <2>1
  <2> QED BY <2>1, <2>2 DEF SlotRows
<1> HIDE DEF n, row
<1>6. FillsTarget'
  <2>1. \A k \in 1 .. n : slots'[k].start = (IF k = 1 THEN 0 ELSE slots'[k - 1].finish) /\ slots'[k].start < slots'[k].finish
    BY <1>2, <1>3 DEF Filling, FillsTarget
  <2>2. slots'[n + 1].start = (IF n + 1 = 1 THEN 0 ELSE slots'[n + 1 - 1].finish)
    BY <1>2, <1>4 DEF row
  <2>3. \/ slots'[n + 1].start < slots'[n + 1].finish
        \/ n + 1 > 1 /\ slots'[n + 1 - 1].type = "buffer" /\ stage' = "reserve"
    <3>1. CASE filled' > filled
      BY <1>1, <1>2, <3>1 DEF row
    <3>2. CASE stage = "main" /\ filled' = Target
      <4>0. n > 1 /\ n \in Nat
        BY <1>2, <1>5, <3>2
      <4>1. n + 1 > 1 /\ n \in 1 .. n /\ n + 1 - 1 = n
        BY <4>0
      <4>3. stage' = "reserve"
        BY <1>1, <3>2
      <4>2. slots'[n].type = "buffer"
        BY <1>2, <1>5, <3>2, <4>1
      <4> QED BY <4>1, <4>2, <4>3
    <3> QED BY <1>1, <3>1, <3>2
  <2>4. filled' = slots'[n + 1].finish
    BY <1>2 DEF row
  <2> QED BY <1>1, <1>2, <2>1, <2>2, <2>3, <2>4 DEF FillsTarget
<1>7. Remembered'
  <2>1. slots'[n + 1].type = "main" /\ slots'[n + 1].asset = c /\ lastUsed'[c] = n + 1 - 1
    BY <1>2 DEF row, Sequence, n
  <2> QED BY <1>1, <1>2, <2>1 DEF Remembered, Main
<1> QED BY <1>6, <1>7 DEF Filling

\* A main item leaves the rows well typed.
LEMMA MainTyped ==
  ASSUME Filling, NEW c \in shelf, AddMain(c)
  PROVE  slots' \in Seq(SlotRows) /\ filled' \in Int /\ stage' \in {"slot", "reserve"}
<1>1. /\ [asset |-> c, type |-> "main", start |-> filled, finish |-> filled'] \in SlotRows
      /\ slots' = Append(slots, [asset |-> c, type |-> "main", start |-> filled, finish |-> filled'])
      /\ filled' \in Int /\ stage' \in {"slot", "reserve"}
  BY MainFacts DEF Filling
<1>2. slots \in Seq(SlotRows)
  BY DEF Filling, CuratorTypeOK
<1> QED BY <1>1, <1>2, AppendFacts

\* Both ways to choose a main item fill the day.
LEMMA UsableFills ==
  ASSUME Filling, NEW c \in shelf, ChooseUsable(c)
  PROVE  Filling' /\ lastUsed' = [lastUsed EXCEPT ![c] = Len(slots)] /\ lastUsed'[c] = Len(slots)
<1>1. AddMain(c) /\ lastUsed' = [lastUsed EXCEPT ![c] = Len(slots)] /\ UNCHANGED relaxed
  BY DEF ChooseUsable, Sequence
<1>2. Len(slots) \in Nat /\ lastUsed \in [Candidates -> Int] /\ c \in Candidates
  BY DEF Filling, CuratorTypeOK
<1>3. lastUsed' \in [Candidates -> Int] /\ lastUsed'[c] = Len(slots)
  BY <1>1, <1>2
<1>4. CuratorTypeOK'
  <2>1. slots' \in Seq(SlotRows) /\ filled' \in Int /\ stage' \in {"slot", "reserve"}
    BY <1>1, MainTyped
  <2> QED BY <1>1, <1>2, <1>3, <2>1 DEF Filling, CuratorTypeOK, AddMain
<1> QED BY <1>1, <1>3, <1>4, MainFills DEF Sequence

LEMMA OverflowFills ==
  ASSUME Filling, NEW c \in shelf, ChooseOverflow(c)
  PROVE  Filling' /\ lastUsed'[c] = Len(slots)
<1>1. AddMain(c) /\ lastUsed' = [NotUsed EXCEPT ![c] = Len(slots)] /\ relaxed' = relaxed \union {Len(slots) + 1}
  BY DEF ChooseOverflow, Sequence
<1>2. Len(slots) \in Nat /\ NotUsed \in [Candidates -> Int] /\ c \in Candidates
  BY CuratorAssumption DEF Filling, CuratorTypeOK, NotUsed
<1>3. lastUsed' \in [Candidates -> Int] /\ lastUsed'[c] = Len(slots)
  BY <1>1, <1>2
<1>4. CuratorTypeOK'
  <2>1. slots' \in Seq(SlotRows) /\ filled' \in Int /\ stage' \in {"slot", "reserve"}
    BY <1>1, MainTyped
  <2>2. relaxed' \in SUBSET Nat
    <3>1. relaxed \in SUBSET Nat /\ Len(slots) + 1 \in Nat
      BY <1>2 DEF Filling, CuratorTypeOK
    <3> QED BY <1>1, <3>1
  <2> QED BY <1>1, <1>2, <1>3, <2>1, <2>2 DEF Filling, CuratorTypeOK, AddMain
<1> QED BY <1>1, <1>3, <1>4, MainFills DEF Sequence

-----------------------------------------------------------------------------
(* Nobody follows himself.                                                 *)

\* The next main item is not the one before it: that one is still cooling down,
\* and an overflow excludes it.
LEMMA ChoiceDiffers ==
  ASSUME Filling, NEW c \in shelf, ChooseUsable(c) \/ ChooseOverflow(c), slots # <<>>
  PROVE  c # previous \/ shelf = {c}
<1>1. CASE ChooseOverflow(c)
  BY <1>1 DEF ChooseOverflow, NewestOther
<1>2. CASE ChooseUsable(c)
  <2> SUFFICES ASSUME c = previous PROVE FALSE
    OBVIOUS
  <2>1. Len(slots) - lastUsed[previous] >= Cooldown
    BY <1>2 DEF ChooseUsable, Usable, Sequence
  <2>2. stage \in {"slot", "main"}
    BY <1>2 DEF ChooseUsable, AddMain
  <2>3. lastUsed[previous] = Len(slots) - 1 \/ lastUsed[previous] = Len(slots) - 2
    BY <2>2 DEF Filling, Remembered
  <2>4. Len(slots) \in Nat
    BY DEF Filling, CuratorTypeOK
  <2> QED BY <2>1, <2>3, <2>4, CuratorAssumption
<1> QED BY <1>1, <1>2

\* The last main item is one of the last two.
LEMMA LastMain ==
  ASSUME Filling, stage \in {"slot", "main"}, NEW j \in DOMAIN slots, Main(j),
         \A i \in j + 1 .. Len(slots) : ~Main(i)
  PROVE  slots[j].asset = previous
<1> DEFINE n == Len(slots)
<1>1. n \in Nat /\ j \in 1 .. n /\ slots # <<>>
  BY DEF Filling, CuratorTypeOK
<1>2. CASE stage = "slot"
  <2>1. Main(n) /\ slots[n].asset = previous
    BY <1>1, <1>2 DEF Filling, Remembered
  <2>2. j = n
    BY <1>1, <2>1
  <2> QED BY <2>1, <2>2
<1>3. CASE stage = "main"
  <2>1. n > 1 /\ ~Main(n) /\ Main(n - 1) /\ slots[n - 1].asset = previous
    BY <1>3 DEF Filling, Remembered
  <2>2. j # n
    BY <2>1
  <2>3. ~(j < n - 1)
    <3> SUFFICES ASSUME j < n - 1 PROVE FALSE
      OBVIOUS
    <3>1. n - 1 \in j + 1 .. n
      BY <1>1
    <3> QED BY <2>1, <3>1
  <2>4. j = n - 1
    BY <1>1, <2>2, <2>3
  <2> QED BY <2>1, <2>4
<1> QED BY <1>2, <1>3

LEMMA MainAlternates ==
  ASSUME Filling, NoMonotony, NEW c \in shelf, ChooseUsable(c) \/ ChooseOverflow(c)
  PROVE  NoMonotony'
<1> DEFINE n == Len(slots)
<1>1. AddMain(c)
  BY DEF ChooseUsable, ChooseOverflow
<1>2. /\ slots' = Append(slots, [asset |-> c, type |-> "main", start |-> filled, finish |-> filled'])
      /\ [asset |-> c, type |-> "main", start |-> filled, finish |-> filled'] \in SlotRows
      /\ slots \in Seq(SlotRows)
      /\ shelf' = shelf
  BY <1>1, MainFacts DEF Filling, CuratorTypeOK
<1>3. /\ n \in Nat /\ DOMAIN slots = 1 .. n /\ DOMAIN slots' = 1 .. n + 1
      /\ \A k \in 1 .. n : slots'[k] = slots[k]
      /\ slots'[n + 1].asset = c
      /\ (slots = <<>>) = (n = 0)
  BY <1>2, AppendFacts
<1>4. stage \in {"slot", "main"}
  BY <1>1 DEF AddMain
<1> SUFFICES ASSUME NEW j \in 1 .. n + 1, NEW k \in 1 .. n + 1, j < k,
                    slots'[j].type = "main", slots'[k].type = "main", slots'[j].asset = slots'[k].asset,
                    \A i \in j + 1 .. k - 1 : slots'[i].type # "main"
             PROVE  shelf = {slots'[j].asset}
  BY <1>2, <1>3 DEF NoMonotony, Main
<1>5. CASE k = n + 1
  <2>1. j \in 1 .. n /\ \A i \in j + 1 .. n : i \in 1 .. n /\ i \in j + 1 .. k - 1
    BY <1>3, <1>5
  <2>2. slots[j].type = "main" /\ \A i \in j + 1 .. n : slots[i].type # "main"
    BY <1>3, <2>1
  <2>3. slots[j].asset = previous
    BY <1>3, <1>4, <2>1, <2>2, LastMain DEF Main
  <2>4. slots[j].asset = c
    BY <1>3, <1>5, <2>1
  <2>5. slots # <<>>
    BY <1>3, <2>1
  <2> QED BY <1>3, <2>1, <2>3, <2>4, <2>5, ChoiceDiffers
<1>6. CASE k # n + 1
  <2>1. j \in 1 .. n /\ k \in 1 .. n /\ \A i \in j + 1 .. k - 1 : i \in 1 .. n
    BY <1>3, <1>6
  <2> QED BY <1>3, <2>1 DEF NoMonotony, Main
<1> QED BY <1>5, <1>6

-----------------------------------------------------------------------------
(* What is relaxed is reported.                                            *)

\* A use more.
LEMMA OneUseMore ==
  ASSUME Filling, Counted, NEW c \in shelf, AddMain(c)
  PROVE  \A d \in Candidates : Cardinality(Uses(d)') = usage'[d]
<1> DEFINE n == Len(slots)
<1>1. /\ slots' = Append(slots, [asset |-> c, type |-> "main", start |-> filled, finish |-> filled'])
      /\ [asset |-> c, type |-> "main", start |-> filled, finish |-> filled'] \in SlotRows
      /\ slots \in Seq(SlotRows)
      /\ c \in Candidates
  BY MainFacts DEF Filling, CuratorTypeOK
<1>2. /\ n \in Nat /\ DOMAIN slots = 1 .. n /\ DOMAIN slots' = 1 .. n + 1
      /\ \A k \in 1 .. n : slots'[k] = slots[k] /\ k # n + 1
      /\ slots'[n + 1] = [asset |-> c, type |-> "main", start |-> filled, finish |-> filled']
  BY <1>1, AppendFacts
<1>3. usage \in [Candidates -> Nat] /\ usage' = [usage EXCEPT ![c] = @ + 1]
  BY DEF AddMain, Filling, CuratorTypeOK
<1> TAKE d \in Candidates
<1>4. CASE d = c
  <2>1. Uses(c)' = Uses(c) \union {n + 1} /\ n + 1 \notin Uses(c)
    BY <1>2 DEF Uses, Main
  <2>2. IsFiniteSet(Uses(c))
    <3>1. IsFiniteSet(1 .. n)
      BY <1>2, FS_Interval
    <3> QED BY <1>2, <3>1, FS_Subset DEF Uses
  <2>3. Cardinality(Uses(c)') = Cardinality(Uses(c)) + 1
    BY <2>1, <2>2, FS_AddElement
  <2>4. Cardinality(Uses(c)) = usage[c]
    BY <1>1 DEF Counted
  <2> QED BY <1>1, <1>3, <1>4, <2>3, <2>4
<1>5. CASE d # c
  <2>1. Uses(d)' = Uses(d)
    BY <1>2, <1>5 DEF Uses, Main
  <2> QED BY <1>3, <1>5, <2>1 DEF Counted
<1> QED BY <1>4, <1>5

\* The cap and the cooldown of the chosen one are kept, or an overflow is noted.
LEMMA UsableReports ==
  ASSUME Filling, Cooling, Counted, RelaxingIsReported, NEW c \in shelf, ChooseUsable(c)
  PROVE  Cooling' /\ Counted' /\ RelaxingIsReported'
<1> DEFINE n == Len(slots)
<1>1. AddMain(c) /\ relaxed' = relaxed /\ c \in Candidates
      /\ usage[c] < MaxRepeats /\ n - lastUsed[c] >= Cooldown
      /\ lastUsed' = [lastUsed EXCEPT ![c] = n] /\ lastUsed \in [Candidates -> Int]
      /\ usage \in [Candidates -> Nat] /\ usage' = [usage EXCEPT ![c] = @ + 1]
  BY DEF ChooseUsable, Usable, Sequence, AddMain, Filling, CuratorTypeOK
<1>2. /\ slots' = Append(slots, [asset |-> c, type |-> "main", start |-> filled, finish |-> filled'])
      /\ [asset |-> c, type |-> "main", start |-> filled, finish |-> filled'] \in SlotRows
      /\ slots \in Seq(SlotRows)
  BY <1>1, MainFacts DEF Filling, CuratorTypeOK
<1>3. /\ n \in Nat /\ DOMAIN slots = 1 .. n /\ DOMAIN slots' = 1 .. n + 1
      /\ \A k \in 1 .. n : slots'[k] = slots[k] /\ slots[k] \in SlotRows
      /\ slots'[n + 1].asset = c
  BY <1>2, AppendFacts
<1>4. Counted'
  <2>1. \A d \in Candidates : Cardinality(Uses(d)') = usage'[d]
    BY <1>1, OneUseMore
  <2>2. \A d \in Candidates : relaxed' = {} => usage'[d] <= MaxRepeats
    <3> SUFFICES ASSUME NEW d \in Candidates, relaxed = {} PROVE usage'[d] <= MaxRepeats
      BY <1>1
    <3>1. usage[d] <= MaxRepeats /\ usage[d] \in Nat /\ MaxRepeats \in Nat
      BY <1>1, CuratorAssumption DEF Counted
    <3> QED BY <1>1, <3>1
  <2> QED BY <2>1, <2>2 DEF Counted
<1>5. Cooling'
  <2>1. relaxed' \subseteq 1 .. n + 1
    BY <1>1, <1>3 DEF Cooling
  <2>2. ASSUME NEW k \in 1 .. n + 1, slots'[k].type = "main", \A r \in relaxed : ~(k < r)
        PROVE  lastUsed'[slots'[k].asset] >= k - 1
    <3>1. CASE k = n + 1
      BY <1>1, <1>3, <3>1
    <3>2. CASE k # n + 1
      <4>1. k \in 1 .. n /\ slots[k].asset \in Candidates /\ slots'[k] = slots[k]
        BY <1>3, <3>2 DEF SlotRows
      <4>2. lastUsed[slots[k].asset] >= k - 1
        BY <1>3, <2>2, <4>1 DEF Cooling, Main
      <4> QED BY <1>1, <1>3, <4>1, <4>2
    <3> QED BY <3>1, <3>2
  <2>3. \A k \in 1 .. n + 1 : slots'[k].type = "main" =>
            lastUsed'[slots'[k].asset] >= k - 1 \/ \E r \in relaxed : k < r
    BY <2>2
  <2>4. Len(slots') = n + 1
    BY <1>2, AppendFacts
  <2> QED BY <1>1, <1>3, <2>1, <2>3, <2>4 DEF Cooling, Main
<1>6. ASSUME NEW j \in 1 .. n + 1, NEW k \in 1 .. n + 1, j < k, k - j < Cooldown,
             slots'[j].type = "main", slots'[k].type = "main", slots'[j].asset = slots'[k].asset
      PROVE  \E r \in relaxed : j < r /\ r <= k
  <2>1. j \in 1 .. n /\ slots'[j] = slots[j]
    BY <1>3, <1>6
  <2>2. CASE k = n + 1
    <3>1. slots[j].asset = c
      BY <1>3, <1>6, <2>1, <2>2
    <3>2. ~(lastUsed[c] >= j - 1)
      BY <1>1, <1>3, <1>6, <2>2, CuratorAssumption
    <3>3. PICK r \in relaxed : j < r
      BY <1>3, <1>6, <2>1, <3>1, <3>2 DEF Cooling, Main
    <3>4. r <= n /\ r \in Nat
      BY <1>3, <3>3 DEF Cooling
    <3> QED BY <1>3, <2>2, <3>3, <3>4
  <2>3. CASE k # n + 1
    <3>1. k \in 1 .. n /\ slots'[k] = slots[k]
      BY <1>3, <2>3
    <3> QED BY <1>3, <1>6, <2>1, <3>1 DEF RelaxingIsReported, Main
  <2> QED BY <2>2, <2>3
<1>7. relaxed' = {} => \A d \in Candidates : Cardinality(Uses(d)') <= MaxRepeats
  BY <1>4 DEF Counted
<1> QED BY <1>1, <1>3, <1>4, <1>5, <1>6, <1>7 DEF RelaxingIsReported, Main, Uses

LEMMA OverflowReports ==
  ASSUME Filling, Cooling, Counted, RelaxingIsReported, NEW c \in shelf, ChooseOverflow(c)
  PROVE  Cooling' /\ Counted' /\ RelaxingIsReported'
<1> DEFINE n == Len(slots)
<1>1. AddMain(c) /\ relaxed' = relaxed \union {n + 1} /\ lastUsed'[c] = n
  BY OverflowFills DEF ChooseOverflow, Sequence
<1>2. /\ slots' = Append(slots, [asset |-> c, type |-> "main", start |-> filled, finish |-> filled'])
      /\ [asset |-> c, type |-> "main", start |-> filled, finish |-> filled'] \in SlotRows
      /\ slots \in Seq(SlotRows)
  BY <1>1, MainFacts DEF Filling, CuratorTypeOK
<1>3. /\ n \in Nat /\ DOMAIN slots = 1 .. n /\ DOMAIN slots' = 1 .. n + 1
      /\ \A k \in 1 .. n : slots'[k] = slots[k]
      /\ slots'[n + 1].asset = c
  BY <1>2, AppendFacts
<1>4. relaxed' # {} /\ n + 1 \in relaxed'
  BY <1>1
<1>5. Counted'
  BY <1>1, <1>4, OneUseMore DEF Counted
<1>6. Cooling'
  <2>0. relaxed \subseteq 1 .. n /\ Len(slots') = n + 1
    BY <1>2, AppendFacts DEF Cooling
  <2>1. relaxed' \subseteq 1 .. n + 1
    <3>1. \A r \in 1 .. n : r \in 1 .. n + 1
      BY <1>3
    <3>2. n + 1 \in 1 .. n + 1
      BY <1>3
    <3> HIDE DEF n
    <3> QED BY <1>1, <2>0, <3>1, <3>2
  <2> SUFFICES ASSUME NEW k \in 1 .. n + 1, slots'[k].type = "main", ~(k < n + 1)
               PROVE  lastUsed'[slots'[k].asset] >= k - 1
    BY <1>3, <1>4, <2>0, <2>1 DEF Cooling, Main
  <2>2. k = n + 1
    BY <1>3
  <2> QED BY <1>1, <1>3, <2>2
<1>7. ASSUME NEW j \in 1 .. n + 1, NEW k \in 1 .. n + 1, j < k, k - j < Cooldown,
             slots'[j].type = "main", slots'[k].type = "main", slots'[j].asset = slots'[k].asset
      PROVE  \E r \in relaxed' : j < r /\ r <= k
  <2>1. j \in 1 .. n /\ slots'[j] = slots[j]
    BY <1>3, <1>7
  <2>2. CASE k = n + 1
    BY <1>3, <1>4, <1>7, <2>2
  <2>3. CASE k # n + 1
    <3>1. k \in 1 .. n /\ slots'[k] = slots[k]
      BY <1>3, <2>3
    <3>2. \E r \in relaxed : j < r /\ r <= k
      BY <1>3, <1>7, <2>1, <3>1 DEF RelaxingIsReported, Main
    <3> QED BY <1>1, <3>2
  <2> QED BY <2>2, <2>3
<1> QED BY <1>3, <1>4, <1>5, <1>6, <1>7 DEF RelaxingIsReported, Main

-----------------------------------------------------------------------------
(* The theorems.                                                           *)

Composed == Filling /\ NoMonotony /\ Cooling /\ Counted /\ RelaxingIsReported

\* The counts make the second half of the report.
LEMMA NothingRelaxed ==
  ASSUME Counted, slots = <<>>
  PROVE  RelaxingIsReported
<1>1. DOMAIN slots = {}
  OBVIOUS
<1> QED BY <1>1 DEF RelaxingIsReported, Counted, Uses

\* A buffer is no main item.
LEMMA BufferComposes ==
  ASSUME Composed, NEW b \in shelf, AddBuffer(b)
  PROVE  Composed'
<1> DEFINE n == Len(slots)
<1>1. /\ slots' = Append(slots, [asset |-> b, type |-> "buffer", start |-> filled, finish |-> filled'])
      /\ [asset |-> b, type |-> "buffer", start |-> filled, finish |-> filled'] \in SlotRows
      /\ slots \in Seq(SlotRows)
  BY BufferFacts DEF Composed, Filling, CuratorTypeOK
<1>2. /\ n \in Nat /\ DOMAIN slots = 1 .. n /\ DOMAIN slots' = 1 .. n + 1
      /\ \A k \in 1 .. n : slots'[k] = slots[k]
      /\ slots'[n + 1].type = "buffer"
  BY <1>1, AppendFacts
<1>3. UNCHANGED <<shelf, usage, lastUsed, relaxed>>
  BY DEF AddBuffer
<1>4. Filling'
  BY BufferFills DEF Composed
<1>5. \A k \in 1 .. n + 1 : slots'[k].type = "main" => k \in 1 .. n /\ slots'[k] = slots[k]
  BY <1>2
<1>6. \A c \in Candidates : Uses(c)' = Uses(c)
  BY <1>2, <1>5 DEF Uses, Main
<1>7. Counted'
  BY <1>3, <1>6 DEF Composed, Counted
<1>8. NoMonotony'
  <2> SUFFICES ASSUME NEW j \in 1 .. n + 1, NEW k \in 1 .. n + 1, j < k,
                      slots'[j].type = "main", slots'[k].type = "main", slots'[j].asset = slots'[k].asset,
                      \A i \in j + 1 .. k - 1 : slots'[i].type # "main"
               PROVE  shelf = {slots'[j].asset}
    BY <1>2, <1>3 DEF NoMonotony, Main
  <2>1. j \in 1 .. n /\ k \in 1 .. n /\ slots'[j] = slots[j] /\ slots'[k] = slots[k]
    BY <1>5
  <2>2. \A i \in j + 1 .. k - 1 : slots[i].type # "main"
    BY <1>2, <2>1
  <2> QED BY <1>2, <2>1, <2>2 DEF Composed, NoMonotony, Main
<1>9. Cooling'
  <2>1. relaxed \subseteq 1 .. n + 1
    BY <1>2 DEF Composed, Cooling
  <2>2. \A k \in 1 .. n + 1 : slots'[k].type = "main" =>
            lastUsed[slots'[k].asset] >= k - 1 \/ \E r \in relaxed : k < r
    BY <1>2, <1>5 DEF Composed, Cooling, Main
  <2> QED BY <1>2, <1>3, <2>1, <2>2 DEF Cooling, Main
<1>10. RelaxingIsReported'
  <2>1. \A j, k \in 1 .. n + 1 :
            j < k /\ k - j < Cooldown /\ slots'[j].type = "main" /\ slots'[k].type = "main" /\ slots'[j].asset = slots'[k].asset
            => \E r \in relaxed : j < r /\ r <= k
    BY <1>2, <1>5 DEF Composed, RelaxingIsReported, Main
  <2>2. relaxed = {} => \A c \in Candidates : Cardinality(Uses(c)') <= MaxRepeats
    BY <1>6 DEF Composed, RelaxingIsReported, Uses
  <2> QED BY <1>2, <1>3, <2>1, <2>2 DEF RelaxingIsReported, Main, Uses
<1> QED BY <1>4, <1>7, <1>8, <1>9, <1>10 DEF Composed

\* The reserve consists of candidates.
LEMMA ReserveTyped ==
  ASSUME Filling, Finish
  PROVE  reserve' \in Seq(Candidates)
<1>1. PICK newest \in SetToSeqs(shelf) : reserve' = [k \in 1 .. ReserveCount |-> newest[((k - 1) % Len(newest)) + 1]]
  BY DEF Finish
<1>2. shelf # {} /\ shelf \in SUBSET Candidates /\ IsFiniteSet(shelf)
  BY FS_Subset, CuratorAssumption DEF Finish, Filling, Remembered, CuratorTypeOK
<1>3. Cardinality(shelf) \in Nat \ {0}
  BY <1>2, FS_CardinalityType, FS_EmptySet
<1>4. newest \in [1 .. Cardinality(shelf) -> shelf]
  BY DEF SetToSeqs
<1>5. Len(newest) = Cardinality(shelf) /\ \A k \in 1 .. Len(newest) : newest[k] \in Candidates
  BY <1>2, <1>3, <1>4
<1>6. \A k \in 1 .. ReserveCount : ((k - 1) % Len(newest)) + 1 \in 1 .. Len(newest)
  BY <1>3, <1>5, CuratorAssumption
<1> QED BY <1>1, <1>5, <1>6, CuratorAssumption

\* A finished lineup is what the loop has left.
LEMMA FinishComposes ==
  ASSUME Composed, Finish
  PROVE  Composed'
<1>1. /\ UNCHANGED <<shelf, slots, filled, usage, lastUsed, previous, relaxed>>
      /\ stage = "reserve" /\ stage' = "idle"
  BY DEF Finish
<1>2. \A c \in Candidates : Uses(c)' = Uses(c)
  BY <1>1 DEF Uses, Main
<1>3. Filling'
  BY <1>1, ReserveTyped DEF Composed, Filling, CuratorTypeOK, FillsTarget, Remembered
<1>4. NoMonotony' /\ Cooling' /\ RelaxingIsReported'
  BY <1>1 DEF Composed, NoMonotony, Cooling, RelaxingIsReported, Main
<1>5. Counted'
  BY <1>1, <1>2 DEF Composed, Counted
<1> QED BY <1>3, <1>4, <1>5 DEF Composed

\* Between two steps of a call nothing changes.
LEMMA StutterComposes ==
  ASSUME Composed, UNCHANGED curatorVars
  PROVE  Composed'
<1>1. UNCHANGED <<stage, shelf, slots, reserve, filled, usage, lastUsed, previous, relaxed>>
  BY DEF curatorVars
<1>2. \A c \in Candidates : Uses(c)' = Uses(c)
  BY <1>1 DEF Uses, Main
<1>3. Filling'
  BY <1>1 DEF Composed, Filling, CuratorTypeOK, FillsTarget, Remembered, Main
<1>4. NoMonotony' /\ Cooling' /\ RelaxingIsReported'
  BY <1>1 DEF Composed, NoMonotony, Cooling, RelaxingIsReported, Main
<1>5. Counted'
  BY <1>1, <1>2 DEF Composed, Counted
<1> QED BY <1>3, <1>4, <1>5 DEF Composed

\* The beginning, and one lemma for all steps.
LEMMA InitComposes == CuratorInit => Composed
  BY InitFilling, NothingRelaxed DEF CuratorInit, Composed

LEMMA StepComposes ==
  ASSUME Composed, [CuratorNext]_curatorVars
  PROVE  Composed'
<1>1. ASSUME NEW eligible \in SUBSET Candidates, Begin(eligible) PROVE Composed'
  <2>1. Filling' /\ NoMonotony' /\ Cooling' /\ Counted' /\ slots' = <<>>
    BY <1>1, BeginFilling DEF Composed, Filling, Begin
  <2>2. RelaxingIsReported'
    BY <2>1 DEF RelaxingIsReported, Counted, Uses
  <2> QED BY <2>1, <2>2 DEF Composed
<1>2. ASSUME NEW c \in shelf, AddBuffer(c) PROVE Composed'
  BY <1>2, BufferComposes
<1>3. ASSUME NEW c \in shelf, ChooseUsable(c) PROVE Composed'
  BY <1>3, UsableFills, MainAlternates, UsableReports DEF Composed
<1>4. ASSUME NEW c \in shelf, ChooseOverflow(c) PROVE Composed'
  BY <1>4, OverflowFills, MainAlternates, OverflowReports DEF Composed
<1>5. CASE Finish
  BY <1>5, FinishComposes
<1>6. CASE UNCHANGED curatorVars
  BY <1>6, StutterComposes
<1> QED BY <1>1, <1>2, <1>3, <1>4, <1>5, <1>6 DEF CuratorNext, Compose

\* Every lineup fills its hours without a gap, repeats nobody in a row, and says
\* when it has relaxed the cooldown or the cap.
THEOREM LineupsAreComposed == CuratorSpec => []Composed
<1>1. CuratorInit => Composed
  BY InitComposes
<1>2. Composed /\ [CuratorNext]_curatorVars => Composed'
  BY StepComposes
<1> QED BY <1>1, <1>2, PTL DEF CuratorSpec

-----------------------------------------------------------------------------
(* The loop ends.                                                          *)

Composing == stage \in {"slot", "main"}

\* Every row but a last one behind a buffer takes at least a second.
Short ==
    /\ Composing => Len(slots) <= filled
    /\ stage = "main" => Len(slots) <= Target
    /\ Len(slots) <= Target + 1

\* The loop does not go on for ever: a lineup has at most one item for each
\* second of its day, and one behind a last buffer.
EndsInTime == Len(slots) <= Target + 1 /\ (Composing => Len(slots) <= filled)

\* The loop never stands: a pass has a buffer to insert or a candidate to choose,
\* by overflow if nobody is usable, although that one must not be the previous.
SomeoneIsChosen ==
    Composing =>
        \/ stage = "slot" /\ BufferDue /\ \E b \in shelf : Bumper(b)
        \/ (stage = "main" \/ ~BufferDue) /\ (Usable # {} \/ \E c \in shelf : NewestOther(c))

\* Of any candidates there is a newest.
LEMMA NewestExists ==
  ASSUME NEW T \in SUBSET Candidates, T # {}
  PROVE  \E c \in T : \A d \in T : Age[c] <= Age[d]
<1> DEFINE Ages == {Age[c] : c \in T}
<1>1. Ages \subseteq Nat /\ Ages # {}
  BY CuratorAssumption
<1>2. \E n \in Ages : \A m \in Ages : ~(<<m, n>> \in OpToRel(<, Nat))
  <2> HIDE DEF Ages
  <2> QED BY <1>1, NatLessThanWellFounded, WFMin
<1>3. PICK n \in Ages : \A m \in Ages : ~(<<m, n>> \in OpToRel(<, Nat))
  BY <1>2
<1>4. \A m \in Ages : n <= m
  <2> SUFFICES ASSUME NEW m \in Ages PROVE n <= m
    OBVIOUS
  <2>1. m \in Nat /\ n \in Nat
    BY <1>1
  <2>2. ~(m < n)
    BY <1>3, <2>1 DEF OpToRel
  <2> QED BY <2>1, <2>2
<1> QED BY <1>4

\* A call that has begun has a shelf.
LEMMA NobodyIsStuck ==
  ASSUME Composed, Composing => shelf # {}
  PROVE  SomeoneIsChosen
<1> SUFFICES ASSUME Composing, stage = "main" \/ ~BufferDue, Usable = {}
             PROVE  \E c \in shelf : NewestOther(c)
  BY DEF SomeoneIsChosen, Composing, BufferDue
<1>1. shelf \in SUBSET Candidates /\ shelf # {}
  BY DEF Composed, Filling, CuratorTypeOK
<1>2. CASE shelf \ {previous} = {}
  <2>1. shelf = {previous}
    BY <1>1, <1>2
  <2> QED BY <1>2, <2>1 DEF NewestOther
<1>3. CASE shelf \ {previous} # {}
  <2>1. PICK c \in shelf \ {previous} : \A d \in shelf \ {previous} : Age[c] <= Age[d]
    BY <1>1, <1>3, NewestExists
  <2> QED BY <2>1 DEF NewestOther
<1> QED BY <1>2, <1>3

\* A main item takes a second, unless a buffer has completed the day.
LEMMA MainIsShort ==
  ASSUME Composed, Short, NEW c \in shelf, AddMain(c)
  PROVE  Short'
<1>1. /\ filled' \in Int /\ filled \in Int /\ filled' <= Target /\ Target \in Nat
      /\ filled' > filled \/ (stage = "main" /\ filled' = Target)
      /\ stage' \in {"slot", "reserve"}
      /\ stage' = "slot" => filled' < Target
  BY MainFacts, CuratorAssumption DEF Composed, Filling, CuratorTypeOK
<1>2. Len(slots') = Len(slots) + 1 /\ Len(slots) \in Nat
  <2>1. slots \in Seq(SlotRows) /\ \E row \in SlotRows : slots' = Append(slots, row)
    BY MainFacts DEF Composed, Filling, CuratorTypeOK
  <2> QED BY <2>1, AppendFacts
<1>3. stage \in {"slot", "main"}
  BY DEF AddMain
<1>4. Len(slots) <= filled /\ (stage = "slot" => filled < Target) /\ (stage = "main" => Len(slots) <= Target)
  BY <1>3 DEF Short, Composing, Composed, Filling, FillsTarget
<1>5. Len(slots) <= Target
  BY <1>1, <1>2, <1>3, <1>4
<1> QED BY <1>1, <1>2, <1>4, <1>5 DEF Short, Composing

\* Every step keeps lineups short.
LEMMA StepIsShort ==
  ASSUME Composed, Short, Composing => shelf # {}, [CuratorNext]_curatorVars
  PROVE  Short' /\ (Composing' => shelf' # {})
<1>0. Target \in Nat
  BY CuratorAssumption
<1>1. ASSUME NEW eligible \in SUBSET Candidates, Begin(eligible) PROVE Short' /\ (Composing' => shelf' # {})
  BY <1>0, <1>1 DEF Begin, Short, Composing
<1>2. ASSUME NEW b \in shelf, AddBuffer(b) PROVE Short' /\ (Composing' => shelf' # {})
  <2>1. filled' \in Int /\ filled < filled'
    BY <1>2, BufferFacts DEF Composed, Filling
  <2>2. Len(slots') = Len(slots) + 1 /\ Len(slots) \in Nat
    <3>1. slots \in Seq(SlotRows) /\ \E row \in SlotRows : slots' = Append(slots, row)
      BY <1>2, BufferFacts DEF Composed, Filling, CuratorTypeOK
    <3> QED BY <3>1, AppendFacts
  <2>3. stage = "slot" /\ stage' = "main" /\ shelf' = shelf
    BY <1>2 DEF AddBuffer
  <2>4. Len(slots) <= filled /\ filled < Target /\ filled \in Int
    BY <2>3 DEF Short, Composing, Composed, Filling, FillsTarget, CuratorTypeOK
  <2>5. Len(slots') <= filled' /\ Len(slots') <= Target
    BY <1>0, <2>1, <2>2, <2>4
  <2> QED BY <1>0, <1>2, <2>2, <2>3, <2>5 DEF Short, Composing
<1>3. ASSUME NEW c \in shelf, AddMain(c) PROVE Short' /\ (Composing' => shelf' # {})
  BY <1>3, MainIsShort DEF AddMain
<1>4. CASE Finish
  BY <1>4 DEF Finish, Short, Composing
<1>5. CASE UNCHANGED curatorVars
  BY <1>5 DEF curatorVars, Short, Composing
<1> QED BY <1>1, <1>2, <1>3, <1>4, <1>5 DEF CuratorNext, Compose, ChooseUsable, ChooseOverflow

\* The call always goes on to the end of the day, and gets there.
THEOREM LineupsGoOn == CuratorSpec => [](EndsInTime /\ SomeoneIsChosen)
<1>1. CuratorInit => Short /\ (Composing => shelf # {})
  BY CuratorAssumption DEF CuratorInit, Short, Composing
<1>2. Composed /\ Short /\ (Composing => shelf # {}) /\ [CuratorNext]_curatorVars
        => (Short /\ (Composing => shelf # {}))'
  BY StepIsShort
<1>3. Composed /\ Short /\ (Composing => shelf # {}) => EndsInTime /\ SomeoneIsChosen
  BY NobodyIsStuck DEF Short, EndsInTime
<1> QED BY <1>1, <1>2, <1>3, LineupsAreComposed, PTL DEF CuratorSpec
=============================================================================
