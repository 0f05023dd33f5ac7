---------------------------- MODULE StreamControl ----------------------------
(***************************************************************************)
(* The switch of the channel: one row of table stream_control, through     *)
(* which the API and the director tell the streamer whether it is wanted,  *)
(* and the streamer tells everybody what it is doing.                      *)
(*                                                                         *)
(* Nobody locks the row.  Everybody loads it into an ORM session, assigns  *)
(* attributes and commits, and the UPDATE names the columns whose value    *)
(* differs from the one that was loaded: a read and a merging write.       *)
(* The items the streamer claims are those of Pipeline.                    *)
(*                                                                         *)
(* The director's verbs are modelled as their functions stand: at this     *)
(* commit its tick raises before it runs one (README, findings).           *)
(***************************************************************************)
EXTENDS Naturals

CONSTANTS
    Calls,          \* the calls of the API and of the director
    VerbOf,         \* what each of them asks for
    Items,          \* prepared items
    Streamer,       \* the streamer process
    Crashes,        \* how often the streamer may die
    NoRow, Null

Verbs == {"start", "stop", "tool_start", "tool_restart"}
Users == Calls \union {Streamer}

Statuses == {"idle", "running", "fallback", "streaming",
             "start_requested", "stop_requested", "restart_requested"}
Rows == [desired : BOOLEAN, status : Statuses, current : Items \union {Null}]
Unwanted == [desired |-> FALSE, status |-> "idle", current |-> Null]

ASSUME StreamControlAssumption ==
    /\ VerbOf \in [Calls -> Verbs]
    /\ Streamer \notin Calls
    /\ Null \notin Items \union Rows
    /\ NoRow \notin Rows \union {Null}
    /\ Crashes \in Nat

VARIABLES
    row,            \* the row of stream_control
    loaded,         \* the row as each user's session has loaded it
    pc,             \* where each user is
    running,        \* streamer_state.running
    item,           \* the item the streamer has claimed
    queue,          \* items that are ready to be claimed
    aired,          \* items that have been claimed
    late,           \* history: items claimed since the channel was last wanted
    crashes

vars == <<row, loaded, pc, running, item, queue, aired, late, crashes>>
streamerVars == <<running, item, queue, aired, crashes>>

CallPc     == {"called", "again", "done"}
\* Places where the streamer reports its status before it goes on.
Reports    == {"idle", "running", "fallback", "streaming"}
StreamerPc == {"poll", "claim", "play"} \union Reports

\* A session that has loaded nothing is Null, one that found no row is NoRow.
TypeOK ==
    /\ row \in Rows \union {NoRow}
    /\ loaded \in [Users -> Rows \union {NoRow, Null}]
    /\ pc \in [Users -> CallPc \union StreamerPc]
    /\ running \in BOOLEAN
    /\ item \in Items \union {Null}
    /\ queue \in SUBSET Items
    /\ aired \in SUBSET Items
    /\ late \in Nat
    /\ crashes \in Nat

\* The migration creates the table without a row.
Init ==
    /\ row = NoRow
    /\ loaded = [u \in Users |-> Null]
    /\ pc = [u \in Users |-> IF u = Streamer THEN "poll" ELSE "called"]
    /\ running = FALSE
    /\ item = Null
    /\ queue = {}
    /\ aired = {}
    /\ late = 0
    /\ crashes = 0

Wanted == row # NoRow /\ row.desired

-----------------------------------------------------------------------------
(* get_or_create_stream_control: load the row, or insert it.               *)

NeedsRow(u) == pc[u] \in {"called", "poll"} \union Reports

Get(u) ==
    /\ loaded[u] = Null
    /\ NeedsRow(u)
    /\ loaded' = [loaded EXCEPT ![u] = row]
    /\ UNCHANGED <<row, pc, late, streamerVars>>

\* db.add, commit, and the refresh that loads the row again.
Create(u) ==
    /\ loaded[u] = NoRow
    /\ row = NoRow
    /\ row' = Unwanted
    /\ loaded' = [loaded EXCEPT ![u] = Null]
    /\ UNCHANGED <<pc, late, streamerVars>>

-----------------------------------------------------------------------------
(* The calls.  A commit merges what the session changed into the row.      *)

Merge(db, old, new) == [col \in DOMAIN db |-> IF new[col] # old[col] THEN new[col] ELSE db[col]]

AskedWithoutRequest(verb, old) ==
    IF verb = "stop" THEN [old EXCEPT !.desired = FALSE, !.status = "stopped"]
    ELSE [old EXCEPT !.desired = TRUE]
\* What a verb assigns to the loaded attributes at its first commit.
Asked(verb, old) ==
    CASE verb = "start" -> [old EXCEPT !.desired = TRUE, !.status = "start_requested"]
      [] verb = "stop" -> [desired |-> FALSE, status |-> "stop_requested", current |-> Null]
      [] verb = "tool_start" -> [old EXCEPT !.desired = TRUE, !.status = "running"]
      [] verb = "tool_restart" -> [old EXCEPT !.desired = FALSE, !.status = "restart_requested"]

\* The commit of u's session leaves the attributes as assigned.
Commit(u, new) ==
    /\ row' = Merge(row, loaded[u], new)
    /\ late' = IF row'.desired THEN 0 ELSE late

Ask(c) ==
    LET new == Asked(VerbOf[c], loaded[c])
        twice == VerbOf[c] = "tool_restart"
    IN /\ pc[c] = "called"
       /\ loaded[c] \in Rows
       /\ Commit(c, new)
       /\ pc' = [pc EXCEPT ![c] = IF twice THEN "again" ELSE "done"]
       /\ loaded' = [loaded EXCEPT ![c] = IF twice THEN new ELSE Null]
       /\ UNCHANGED streamerVars

\* The second half of tool_restart_streamer.
AskAgain(c) ==
    /\ pc[c] = "again"
    /\ Commit(c, [loaded[c] EXCEPT !.desired = TRUE, !.status = "running"])
    /\ pc' = [pc EXCEPT ![c] = "done"]
    /\ loaded' = [loaded EXCEPT ![c] = Null]
    /\ UNCHANGED streamerVars

\* Somebody else has inserted the row meanwhile: the request fails.
CallFails(c) ==
    /\ loaded[c] = NoRow
    /\ row # NoRow
    /\ pc' = [pc EXCEPT ![c] = "done"]
    /\ loaded' = [loaded EXCEPT ![c] = Null]
    /\ UNCHANGED <<row, late, streamerVars>>

-----------------------------------------------------------------------------
(* The streamer: run_streamer and update_stream_runtime.                   *)

Goto(place) == pc' = [pc EXCEPT ![Streamer] = place]
Forget == loaded' = [loaded EXCEPT ![Streamer] = Null]

ShouldRunAsked(r) == r.status = "start_requested"
ShouldRun(r) == r.desired

StandDown ==
    /\ pc[Streamer] = "poll"
    /\ loaded[Streamer] \in Rows
    /\ ~ShouldRun(loaded[Streamer])
    /\ running' = FALSE
    /\ Goto("idle")
    /\ Forget
    /\ UNCHANGED <<row, late, item, queue, aired, crashes>>

GoOn ==
    /\ pc[Streamer] = "poll"
    /\ loaded[Streamer] \in Rows
    /\ ShouldRun(loaded[Streamer])
    /\ running' = TRUE
    /\ Goto(IF running THEN "claim" ELSE "running")
    /\ Forget
    /\ UNCHANGED <<row, late, item, queue, aired, crashes>>

\* _claim_next_ready_item.
Claim(i) ==
    /\ pc[Streamer] = "claim"
    /\ i \in queue
    /\ item' = i
    /\ queue' = queue \ {i}
    /\ aired' = aired \union {i}
    /\ late' = IF Wanted THEN 0 ELSE late + 1
    /\ Goto("streaming")
    /\ UNCHANGED <<row, loaded, running, crashes>>

ClaimNothing ==
    /\ pc[Streamer] = "claim"
    /\ queue = {}
    /\ Goto("fallback")
    /\ UNCHANGED <<row, loaded, late, streamerVars>>

ReportIfGiven(old) ==
    [old EXCEPT !.status = pc[Streamer], !.current = IF item = Null THEN @ ELSE item]
\* What update_stream_runtime assigns; it is never given a desired_running.
ReportOf(old) == [old EXCEPT !.status = pc[Streamer], !.current = item]

\* Where the streamer goes after a report; the fallback has been played by then.
AfterReport == [idle |-> "poll", running |-> "claim", fallback |-> "poll", streaming |-> "play"]

Report ==
    /\ pc[Streamer] \in Reports
    /\ loaded[Streamer] \in Rows
    /\ Commit(Streamer, ReportOf(loaded[Streamer]))
    /\ Goto(AfterReport[pc[Streamer]])
    /\ Forget
    /\ UNCHANGED streamerVars

AfterPlayNext == "claim"
AfterPlay == "poll"

\* _play_item has returned, whatever became of the item.
PlayEnds ==
    /\ pc[Streamer] = "play"
    /\ item' = Null
    /\ Goto(AfterPlay)
    /\ UNCHANGED <<row, loaded, late, running, queue, aired, crashes>>

Restart ==
    /\ Goto("poll")
    /\ Forget
    /\ running' = FALSE
    /\ item' = Null
    /\ UNCHANGED <<row, late, queue, aired>>

\* The insertion of the row collides with somebody else's: the process dies.
StreamerFails ==
    /\ loaded[Streamer] = NoRow
    /\ row # NoRow
    /\ Restart
    /\ UNCHANGED crashes

Crash ==
    /\ crashes < Crashes
    /\ crashes' = crashes + 1
    /\ Restart

-----------------------------------------------------------------------------
\* Pipeline makes an item ready.
BecomesReady(i) ==
    /\ i \notin queue \union aired
    /\ queue' = queue \union {i}
    /\ UNCHANGED <<row, loaded, pc, running, item, aired, late, crashes>>

CallStep(c) == Get(c) \/ Create(c) \/ Ask(c) \/ AskAgain(c) \/ CallFails(c)

StreamerStep ==
    \/ Get(Streamer)
    \/ Create(Streamer)
    \/ StandDown
    \/ GoOn
    \/ \E i \in Items : Claim(i)
    \/ ClaimNothing
    \/ Report
    \/ PlayEnds
    \/ StreamerFails

Next ==
    \/ \E c \in Calls : CallStep(c)
    \/ StreamerStep
    \/ Crash
    \/ \E i \in Items : BecomesReady(i)

Spec == Init /\ [][Next]_vars

(* Docker restarts the streamer, which loops for ever.  Calls may never    *)
(* come, and one that has begun may die with its client.                   *)
FairSpec == Spec /\ WF_vars(StreamerStep)

-----------------------------------------------------------------------------
(* Safety.                                                                 *)

\* A stop is obeyed at the next poll: from the moment the channel is no longer
\* wanted, at most one more item is claimed, the one the streamer was about to
\* claim (run_streamer polls before each claim).
AtMostOneLate == late <= 1

\* The streamer's reports, built on a row loaded earlier, never undo what
\* somebody asked for meanwhile: only a call changes desired_running.
OnlyCallsDecide ==
    [][row # NoRow /\ row'.desired # row.desired =>
           \E c \in Calls : pc'[c] # pc[c]]_vars

\* README: "POST /stream/stop: Stop streamer".  Once a stop is committed the
\* channel is not wanted.
StopStops ==
    [][\A c \in Calls :
           VerbOf[c] = "stop" /\ loaded[c] \in Rows /\ pc'[c] # pc[c] => ~row'.desired]_vars

-----------------------------------------------------------------------------
(* Liveness.                                                               *)

\* When nobody changes his mind any more, the row tells the truth in the end,
\* whatever reports and requests overtook each other (stream_status_payload).
StatusSettles ==
    /\ <>[](row # NoRow /\ ~Wanted) => <>[](row = Unwanted)
    /\ <>[]Wanted => <>[](row # NoRow /\ row.status \in {"running", "fallback", "streaming"})

\* While the channel stays wanted, every ready item is claimed in the end.
WantedIsAired ==
    <>[]Wanted => \A i \in Items : i \in queue ~> i \in aired
=============================================================================
