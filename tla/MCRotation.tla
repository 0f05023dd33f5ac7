------------------------------ MODULE MCRotation ------------------------------
(***************************************************************************)
(* Small instances of Rotation: three videos and a bumper, lengths in      *)
(* units, a window of four plays, and one video with a bad past.           *)
(***************************************************************************)
EXTENDS Rotation

CONSTANTS u, v, w, j

MCDurationOf == [a \in Assets |-> IF a = u THEN 3 ELSE IF a = j THEN 1 ELSE 0]

Good == <<"ok", "ok", "ok", "ok">>
Bad  == <<"failed", "ok", "failed", "skipped">>
MCPast == [a \in Assets |-> IF a = u THEN Good ELSE IF a = w THEN Bad ELSE <<>>]

\* What is left of yesterday's plan.
Yesterday == <<w, u>>
Premiere  == <<v>>

Allow(plans, plays, reviews, crashes) ==
    [e \in External |-> CASE e = "plan" -> plans [] e = "play" -> plays
                          [] e = "review" -> reviews [] e = "crash" -> crashes]
OnePlan  == Allow(1, 2, 1, 1)
PlayPlan == Allow(1, 1, 0, 0)
=============================================================================
