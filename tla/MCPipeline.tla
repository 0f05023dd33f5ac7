----------------------------- MODULE MCPipeline -----------------------------
(***************************************************************************)
(* Small instances of Pipeline: plan p1 with the items a, b (and c), plan  *)
(* p2 with d.  p1's first two items share their video, so that a prep      *)
(* session meets an asset it has already loaded; b is mixed with music.    *)
(***************************************************************************)
EXTENDS Pipeline

CONSTANTS a, b, c, d, p1, p2, v, u, m

MCPlanOf   == [i \in Items |-> IF i = d THEN p2 ELSE p1]
MCVideoOf  == [i \in Items |-> IF i \in {a, b} THEN v ELSE u]
MCMusicOf  == [i \in Items |-> IF i = b /\ m \in Assets THEN m ELSE Null]
MCSeqIndex == [i \in Items |-> IF i \in {a, d} THEN 0 ELSE IF i = b THEN 1 ELSE 2]
\* d is planned to start between a and b.
MCAirRank  == [i \in Items |-> IF i = a THEN 0 ELSE IF i = d THEN 1 ELSE IF i = b THEN 2 ELSE 3]

Allow(happening) == [e \in External |-> IF e \in happening THEN 1 ELSE 0]
Quiet      == Allow({})
Review     == Allow({"patch"})
Upkeep     == Allow({"requeue", "remove"})
Everything == Allow(External)
=============================================================================
