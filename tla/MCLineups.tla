------------------------------- MODULE MCLineups -------------------------------
(***************************************************************************)
(* Small instances of Lineups: three candidates, two of them with the same *)
(* source, two archived lineups and one to be generated.                   *)
(***************************************************************************)
EXTENDS Lineups

CONSTANTS x, y, z, old, gone, new, s1, s2

MCAge == [c \in Candidates |-> IF c = x THEN 1 ELSE IF c = y THEN 2 ELSE 3]
MCSeconds == [c \in Candidates |-> IF c = x THEN 3 ELSE IF c = y THEN 2 ELSE 4]
MCSourceOf == [c \in Candidates |-> IF c = x THEN s1 ELSE s2]

Row(c, type, start, finish) == [asset |-> c, type |-> type, start |-> start, finish |-> finish]
\* z was approved when the lineup gone was made, and is not any more.
MCArchive ==
    [l \in LineupIds |-> CASE l = old -> <<Row(y, "main", 0, 2), Row(x, "main", 2, 5)>>
                          [] l = gone -> <<Row(z, "main", 0, 4)>>
                          [] l = new -> <<>>]

Allow(lineups, requests, events) ==
    [e \in External |-> CASE e = "lineup" -> lineups [] e = "request" -> requests [] e = "outside" -> events]
Busy == Allow(1, 2, 1)
================================================================================
