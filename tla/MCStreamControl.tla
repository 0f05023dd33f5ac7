--------------------------- MODULE MCStreamControl ---------------------------
(***************************************************************************)
(* Small instances of StreamControl: calls named for what they ask.        *)
(***************************************************************************)
EXTENDS StreamControl

MCVerbOf ==
    [c \in Calls |-> CASE c \in {"start1", "start2"} -> "start"
                       [] c \in {"stop1", "stop2"} -> "stop"
                       [] c = "restart" -> "tool_restart"
                       [] OTHER -> "tool_start"]
=============================================================================
