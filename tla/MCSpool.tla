------------------------------- MODULE MCSpool -------------------------------
(***************************************************************************)
(* Small instances of Spool: items a, b and c share the video v, and b is  *)
(* mixed with the music m.                                                 *)
(***************************************************************************)
EXTENDS Spool

CONSTANTS a, b, c, v, m

MCVideoOf == [i \in Items |-> v]
MCMusicOf == [i \in Items |-> IF i = b THEN m ELSE Null]

Allow(happening) == [e \in External |-> IF e \in happening THEN 1 ELSE 0]
Quiet      == Allow({})
Everything == Allow(External)
=============================================================================
