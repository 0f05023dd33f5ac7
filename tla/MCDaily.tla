------------------------------- MODULE MCDaily -------------------------------
(***************************************************************************)
(* Small instances of Daily: two links of the first site lead to one page. *)
(* A simulated run invents one link of each site; the fourth link has an   *)
(* exclude keyword.  Sessions are cast in pairs that meet in some table;   *)
(* s1 and s2 are alike, so each pair is cast in one order only.            *)
(***************************************************************************)
EXTENDS Daily

CONSTANTS s1, s2, e, f, l1, l2, l3, l4

MCSiteOf == [l \in Links |-> IF l \in {l1, l2} THEN e ELSE f]
MCPageOf == [l \in Links |-> IF l \in {l1, l2} THEN "p" ELSE IF l = l3 THEN "q" ELSE "r"]
Cast(x, y) == [s \in Sessions |-> IF s = s1 THEN x ELSE y]
MCCasts == {Cast(x, "daily") : x \in {"browse", "profile", "enrich", "report", "daily"}}
           \union {Cast("browse", "simulate")}
=============================================================================
