------------------------------ MODULE Broadcast ------------------------------
(***************************************************************************)
(* What the pipeline promises about one scheduled item, without saying who *)
(* does the work: nothing moves before its plan is opened; an item airs    *)
(* only after it was prepared, at most once, and what has left the air     *)
(* never moves again.  Only an item that could not be prepared is retried. *)
(* Pipeline implements this specification.                                 *)
(***************************************************************************)
CONSTANTS Plans, Items, PlanOf

VARIABLES
    opened,     \* the plans somebody has approved
    phase       \* where each item is

Outcomes == {"completed", "failed", "skipped"}
Phases   == {"waiting", "preparing", "unusable", "playable", "onair"} \union Outcomes

TypeOK ==
    /\ opened \in SUBSET Plans
    /\ phase \in [Items -> Phases]

Init ==
    /\ opened = {}
    /\ phase = [i \in Items |-> "waiting"]

Open(p) ==
    /\ opened' = opened \union {p}
    /\ UNCHANGED phase

Move(i, from, to) ==
    /\ phase[i] = from
    /\ phase' = [phase EXCEPT ![i] = to]
    /\ UNCHANGED opened

Prepare(i) == PlanOf[i] \in opened /\ Move(i, "waiting", "preparing")
Deliver(i) == Move(i, "preparing", "playable")
Spoil(i)   == Move(i, "preparing", "unusable")
Retry(i)   == Move(i, "unusable", "waiting")
Air(i)     == PlanOf[i] \in opened /\ Move(i, "playable", "onair")
Leave(i)   == \E outcome \in Outcomes : Move(i, "onair", outcome)

ItemStep(i) ==
    Prepare(i) \/ Deliver(i) \/ Spoil(i) \/ Retry(i) \/ Air(i) \/ Leave(i)

Next ==
    \/ \E p \in Plans : Open(p)
    \/ \E i \in Items : ItemStep(i)

vars == <<opened, phase>>
Spec == Init /\ [][Next]_vars
=============================================================================
