------------------------- MODULE StreamControlProofs -------------------------
(***************************************************************************)
(* Proofs about StreamControl, for any calls, items and number of crashes: *)
(* how late a stop can be, who decides what is wanted, and that calls made *)
(* one at a time are obeyed.                                               *)
(***************************************************************************)
EXTENDS StreamControl, TLAPS

\* The streamer has found the channel wanted and has not claimed since.
Licensed ==
    \/ pc[Streamer] \in {"running", "claim"}
    \/ /\ pc[Streamer] = "poll"
       /\ loaded[Streamer] \in Rows
       /\ loaded[Streamer].desired

\* The calls and the streamer keep to their places, and a session that has
\* loaded a row, or is between the two commits of a restart, knows there is one.
Placed ==
    /\ pc[Streamer] \in StreamerPc
    /\ loaded[Streamer] = Null \/ pc[Streamer] \in {"poll"} \union Reports
    /\ \A c \in Calls : pc[c] \in CallPc
    /\ \A u \in Users : loaded[u] \in Rows => row \in Rows
    /\ \A c \in Calls : pc[c] = "again" => loaded[c] \in Rows

\* While the channel is wanted, and until the claim that this licenses, no late
\* item is counted.
Counted ==
    /\ AtMostOneLate
    /\ Wanted \/ Licensed => late = 0

Inductive == TypeOK /\ Placed /\ Counted

-----------------------------------------------------------------------------
(* What assignments and merges build from rows are rows.                   *)

\* A merging UPDATE keeps the type of the row.
LEMMA MergeTyped ==
  ASSUME NEW db \in Rows, NEW old \in Rows, NEW new \in Rows
  PROVE  Merge(db, old, new) \in Rows
  BY DEF Merge, Rows

\* A merging UPDATE leaves alone the column that was assigned what was loaded.
LEMMA MergeKeeps ==
  ASSUME NEW db \in Rows, NEW old \in Rows, NEW new \in Rows,
         new.desired = old.desired
  PROVE  Merge(db, old, new).desired = db.desired
  BY DEF Merge, Rows

\* What a verb assigns is a row.
LEMMA AskedTyped ==
  ASSUME NEW verb \in Verbs, NEW old \in Rows
  PROVE  Asked(verb, old) \in Rows
<1>1. CASE verb = "start"
  BY <1>1 DEF Asked, Rows, Statuses
<1>2. CASE verb = "stop"
  BY <1>2 DEF Asked, Rows, Statuses
<1>3. CASE verb = "tool_start"
  BY <1>3 DEF Asked, Rows, Statuses
<1>4. CASE verb = "tool_restart"
  BY <1>4 DEF Asked, Rows, Statuses
<1> QED BY <1>1, <1>2, <1>3, <1>4 DEF Verbs

\* What a report assigns is a row, with the desired_running that was loaded.
LEMMA ReportTyped ==
  ASSUME item \in Items \union {Null}, pc[Streamer] \in Reports, NEW old \in Rows
  PROVE  /\ ReportOf(old) \in Rows
         /\ ReportOf(old).desired = old.desired
  BY DEF ReportOf, Rows, Statuses, Reports

\* A commit of a session that has loaded the row leaves a row, and counts no late
\* item unless there was one and the channel is still not wanted.
LEMMA CommitTyped ==
  ASSUME Inductive, NEW u \in Users, loaded[u] \in Rows, NEW new \in Rows, Commit(u, new)
  PROVE  /\ row' \in Rows
         /\ late' \in {0, late}
         /\ Wanted' => late' = 0
<1>1. row \in Rows
  BY DEF Inductive, Placed
<1>2. row' \in Rows
  BY <1>1, MergeTyped DEF Commit
<1> QED BY <1>2 DEF Commit, Wanted

-----------------------------------------------------------------------------
(* Every step keeps the invariant.                                         *)

\* Nobody has loaded anything, and nothing has been claimed.
LEMMA InitInductive == Init => Inductive
<1> SUFFICES ASSUME Init PROVE Inductive
  OBVIOUS
<1> USE StreamControlAssumption DEF Init
<1>1. TypeOK
  BY DEF TypeOK, Users, CallPc, StreamerPc
<1>2. Placed
  BY DEF Placed, Users, CallPc, StreamerPc
<1>3. Counted
  BY DEF Counted, AtMostOneLate, Wanted, Licensed, Rows, Users
<1> QED BY <1>1, <1>2, <1>3 DEF Inductive

\* Loading the row: a row that says desired is one with no late item.
LEMMA GetKeeps ==
  ASSUME Inductive, NEW u \in Users, Get(u)
  PROVE  Inductive'
<1> USE StreamControlAssumption DEF Inductive, Get, streamerVars
<1>1. TypeOK'
  BY DEF TypeOK, Users
<1>2. Placed'
  BY DEF Placed, TypeOK, Users, CallPc, StreamerPc, Reports, NeedsRow
<1>3. Counted'
  BY DEF Counted, AtMostOneLate, Wanted, Licensed, TypeOK, Users
<1> QED BY <1>1, <1>2, <1>3

\* Inserting the row: it is not wanted yet.
LEMMA CreateKeeps ==
  ASSUME Inductive, NEW u \in Users, Create(u)
  PROVE  Inductive'
<1> USE StreamControlAssumption DEF Inductive, Create, streamerVars
<1>0. Unwanted \in Rows /\ ~Unwanted.desired
  BY DEF Unwanted, Rows, Statuses
<1>1. TypeOK'
  BY <1>0 DEF TypeOK, Users
<1>2. Placed'
  BY <1>0 DEF Placed, TypeOK, Users, CallPc
<1>3. Counted'
  BY <1>0 DEF Counted, AtMostOneLate, Wanted, Licensed, TypeOK, Users
<1> QED BY <1>1, <1>2, <1>3

\* A call's commit sets the count to zero when it makes the channel wanted, and
\* never licenses the streamer.
LEMMA CallKeeps ==
  ASSUME Inductive, NEW c \in Calls, CallStep(c)
  PROVE  Inductive'
<1> USE StreamControlAssumption DEF Inductive, streamerVars
<1>u. c \in Users /\ c # Streamer /\ pc[c] \in CallPc /\ Streamer \in Users
  BY DEF Users, Placed
<1>1. CASE Get(c)
  BY <1>1, <1>u, GetKeeps
<1>2. CASE Create(c)
  BY <1>2, <1>u, CreateKeeps
<1>3. CASE Ask(c)
  <2> DEFINE new == Asked(VerbOf[c], loaded[c])
  <2>1. loaded[c] \in Rows /\ new \in Rows /\ Commit(c, new)
    BY <1>3, AskedTyped DEF Ask
  <2>2. /\ row' \in Rows
        /\ late' \in {0, late}
        /\ Wanted' => late' = 0
    BY <2>1, <1>u, CommitTyped
  <2>3. /\ pc' = [pc EXCEPT ![c] = IF VerbOf[c] = "tool_restart" THEN "again" ELSE "done"]
        /\ loaded' = [loaded EXCEPT ![c] = IF VerbOf[c] = "tool_restart" THEN new ELSE Null]
        /\ UNCHANGED streamerVars
    BY <1>3 DEF Ask
  <2>4. TypeOK'
    <3>1. /\ late' \in Nat
          /\ row' \in Rows \union {NoRow}
          /\ UNCHANGED <<running, item, queue, aired, crashes>>
      BY <2>2, <2>3 DEF TypeOK
    <3>2. pc' \in [Users -> CallPc \union StreamerPc]
      BY <2>3 DEF TypeOK, CallPc
    <3>3. loaded' \in [Users -> Rows \union {NoRow, Null}]
      BY <2>1, <2>3 DEF TypeOK
    <3> QED BY <3>1, <3>2, <3>3 DEF TypeOK
  <2>5. Placed'
    BY <2>1, <2>2, <2>3, <1>u DEF Placed, TypeOK, CallPc
  <2>6. Counted'
    BY <2>2, <2>3, <1>u DEF Counted, AtMostOneLate, Licensed, TypeOK
  <2> QED BY <2>4, <2>5, <2>6
<1>4. CASE AskAgain(c)
  <2> DEFINE new == [loaded[c] EXCEPT !.desired = TRUE, !.status = "running"]
  <2>1. loaded[c] \in Rows /\ new \in Rows /\ Commit(c, new)
    BY <1>4 DEF AskAgain, Placed, Rows, Statuses
  <2>2. /\ row' \in Rows
        /\ late' \in {0, late}
        /\ Wanted' => late' = 0
    BY <2>1, <1>u, CommitTyped
  <2>3. /\ pc' = [pc EXCEPT ![c] = "done"]
        /\ loaded' = [loaded EXCEPT ![c] = Null]
        /\ UNCHANGED streamerVars
    BY <1>4 DEF AskAgain
  <2>4. TypeOK'
    <3>1. /\ late' \in Nat
          /\ row' \in Rows \union {NoRow}
          /\ UNCHANGED <<running, item, queue, aired, crashes>>
      BY <2>2, <2>3 DEF TypeOK
    <3>2. pc' \in [Users -> CallPc \union StreamerPc]
      BY <2>3 DEF TypeOK, CallPc
    <3>3. loaded' \in [Users -> Rows \union {NoRow, Null}]
      BY <2>1, <2>3 DEF TypeOK
    <3> QED BY <3>1, <3>2, <3>3 DEF TypeOK
  <2>5. Placed'
    BY <2>1, <2>2, <2>3, <1>u DEF Placed, TypeOK, CallPc
  <2>6. Counted'
    BY <2>2, <2>3, <1>u DEF Counted, AtMostOneLate, Licensed, TypeOK
  <2> QED BY <2>4, <2>5, <2>6
<1>5. CASE CallFails(c)
  <2>1. TypeOK'
    BY <1>5, <1>u DEF CallFails, TypeOK, CallPc
  <2>2. Placed'
    BY <1>5, <1>u DEF CallFails, Placed, TypeOK, CallPc
  <2>3. Counted'
    BY <1>5, <1>u DEF CallFails, Counted, AtMostOneLate, Wanted, Licensed, TypeOK
  <2> QED BY <2>1, <2>2, <2>3
<1> QED BY <1>1, <1>2, <1>3, <1>4, <1>5 DEF CallStep

\* The streamer is licensed by a row that said desired and gives the license up
\* with the claim.
LEMMA StreamerKeeps ==
  ASSUME Inductive, StreamerStep
  PROVE  Inductive'
<1> USE StreamControlAssumption DEF Inductive
<1>u. Streamer \in Users /\ \A c \in Calls : c # Streamer
  BY DEF Users
<1>1. CASE Get(Streamer)
  BY <1>1, <1>u, GetKeeps
<1>2. CASE Create(Streamer)
  BY <1>2, <1>u, CreateKeeps
<1>3. CASE StandDown
  <2> USE <1>3, <1>u DEF StandDown, Goto, Forget
  <2>1. TypeOK'
    BY DEF TypeOK, StreamerPc, Reports
  <2>2. Placed'
    BY DEF Placed, TypeOK, StreamerPc, Reports
  <2>3. Counted'
    BY DEF Counted, AtMostOneLate, Wanted, Licensed, TypeOK
  <2> QED BY <2>1, <2>2, <2>3
<1>4. CASE GoOn
  <2> USE <1>4, <1>u DEF GoOn, Goto, Forget
  <2>1. TypeOK'
    BY DEF TypeOK, StreamerPc, Reports
  <2>2. Placed'
    BY DEF Placed, TypeOK, StreamerPc, Reports
  <2>3. late = 0
    BY DEF Counted, Licensed, ShouldRun
  <2>4. Counted'
    BY <2>3 DEF Counted, AtMostOneLate
  <2> QED BY <2>1, <2>2, <2>4
<1>5. ASSUME NEW i \in Items, Claim(i) PROVE Inductive'
  <2> USE <1>5, <1>u DEF Claim, Goto
  <2>1. TypeOK'
    BY DEF TypeOK, StreamerPc, Reports, Wanted
  <2>2. Placed'
    BY DEF Placed, TypeOK, StreamerPc, Reports
  <2>3. late = 0
    BY DEF Counted, Licensed
  <2>4. Counted'
    BY <2>3 DEF Counted, AtMostOneLate, Wanted, Licensed, TypeOK
  <2> QED BY <2>1, <2>2, <2>4
<1>6. CASE ClaimNothing
  <2> USE <1>6, <1>u DEF ClaimNothing, Goto, streamerVars
  <2>1. TypeOK'
    BY DEF TypeOK, StreamerPc, Reports
  <2>2. Placed'
    BY DEF Placed, TypeOK, StreamerPc, Reports
  <2>3. Counted'
    BY DEF Counted, AtMostOneLate, Wanted, Licensed, TypeOK
  <2> QED BY <2>1, <2>2, <2>3
<1>7. CASE Report
  <2> DEFINE new == ReportOf(loaded[Streamer])
  <2>1. /\ loaded[Streamer] \in Rows
        /\ new \in Rows
        /\ Commit(Streamer, new)
        /\ pc[Streamer] \in Reports
    BY <1>7, ReportTyped DEF Report, TypeOK
  <2>2. /\ row' \in Rows
        /\ late' \in {0, late}
        /\ Wanted' => late' = 0
    BY <2>1, <1>u, CommitTyped
  <2>3. /\ pc' = [pc EXCEPT ![Streamer] = AfterReport[pc[Streamer]]]
        /\ loaded' = [loaded EXCEPT ![Streamer] = Null]
        /\ UNCHANGED streamerVars
    BY <1>7 DEF Report, Goto, Forget
  <2>4. /\ AfterReport[pc[Streamer]] \in {"poll", "claim", "play"}
        /\ AfterReport[pc[Streamer]] = "claim" => pc[Streamer] = "running"
    BY <2>1 DEF AfterReport, Reports
  <2>5. TypeOK'
    <3>1. /\ late' \in Nat
          /\ row' \in Rows \union {NoRow}
          /\ UNCHANGED <<running, item, queue, aired, crashes>>
      BY <2>2, <2>3 DEF TypeOK, streamerVars
    <3>2. pc' \in [Users -> CallPc \union StreamerPc]
      BY <2>3, <2>4 DEF TypeOK, StreamerPc
    <3>3. loaded' \in [Users -> Rows \union {NoRow, Null}]
      BY <2>3 DEF TypeOK
    <3> QED BY <3>1, <3>2, <3>3 DEF TypeOK
  <2>6. Placed'
    BY <2>2, <2>3, <2>4, <1>u DEF Placed, TypeOK, StreamerPc
  <2>7. Licensed' => late = 0
    BY <2>3, <2>4, <1>u DEF Licensed, Counted, TypeOK
  <2>8. Counted'
    BY <2>2, <2>7 DEF Counted, AtMostOneLate, TypeOK
  <2> QED BY <2>5, <2>6, <2>8
<1>8. CASE PlayEnds
  <2> USE <1>8, <1>u DEF PlayEnds, Goto, AfterPlay
  <2>1. TypeOK'
    BY DEF TypeOK, StreamerPc
  <2>2. Placed'
    BY DEF Placed, TypeOK, StreamerPc
  <2>3. Counted'
    BY DEF Counted, AtMostOneLate, Wanted, Licensed, TypeOK, Placed, Reports
  <2> QED BY <2>1, <2>2, <2>3
<1>9. CASE StreamerFails
  <2> USE <1>9, <1>u DEF StreamerFails, Restart, Goto, Forget
  <2>1. TypeOK'
    BY DEF TypeOK, StreamerPc
  <2>2. Placed'
    BY DEF Placed, TypeOK, StreamerPc
  <2>3. Counted'
    BY DEF Counted, AtMostOneLate, Wanted, Licensed, TypeOK
  <2> QED BY <2>1, <2>2, <2>3
<1> QED BY <1>1, <1>2, <1>3, <1>4, <1>5, <1>6, <1>7, <1>8, <1>9 DEF StreamerStep

\* A crash forgets the license; items that become ready change nothing here.
LEMMA OthersKeep ==
  ASSUME Inductive, Crash \/ (\E i \in Items : BecomesReady(i)) \/ UNCHANGED vars
  PROVE  Inductive'
<1> USE StreamControlAssumption DEF Inductive
<1>u. Streamer \in Users /\ \A c \in Calls : c # Streamer
  BY DEF Users
<1>1. CASE Crash
  <2> USE <1>1, <1>u DEF Crash, Restart, Goto, Forget
  <2>1. TypeOK'
    <3>1. crashes' \in Nat
      BY DEF TypeOK
    <3>2. pc' \in [Users -> CallPc \union StreamerPc]
      BY DEF TypeOK, StreamerPc
    <3> QED BY <3>1, <3>2 DEF TypeOK
  <2>2. Placed'
    BY DEF Placed, TypeOK, StreamerPc
  <2>3. Counted'
    BY DEF Counted, AtMostOneLate, Wanted, Licensed, TypeOK
  <2> QED BY <2>1, <2>2, <2>3
<1>2. ASSUME NEW i \in Items, BecomesReady(i) PROVE Inductive'
  BY <1>2 DEF BecomesReady, TypeOK, Placed, Counted, AtMostOneLate, Wanted, Licensed
<1>3. CASE UNCHANGED vars
  BY <1>3 DEF vars, TypeOK, Placed, Counted, AtMostOneLate, Wanted, Licensed
<1> QED BY <1>1, <1>2, <1>3

\* The inductive invariant holds of every behaviour.
THEOREM InductiveHolds == Spec => []Inductive
<1>1. Inductive /\ [Next]_vars => Inductive'
  BY CallKeeps, StreamerKeeps, OthersKeep DEF Next
<1> QED BY InitInductive, <1>1, PTL DEF Spec

-----------------------------------------------------------------------------
(* What follows from it.                                                   *)

\* Every variable keeps its type.
THEOREM Typing == Spec => []TypeOK
<1>1. Inductive => TypeOK
  BY DEF Inductive
<1> QED BY <1>1, InductiveHolds, PTL

\* After a stop at most one more item goes on air.
THEOREM StopIsPrompt == Spec => []AtMostOneLate
<1>1. Inductive => AtMostOneLate
  BY DEF Inductive, Counted
<1> QED BY <1>1, InductiveHolds, PTL

\* Only a call changes desired_running: no report of the streamer undoes what
\* was asked for while it was being written.
THEOREM ReportsDecideNothing == Spec => OnlyCallsDecide
<1> DEFINE Decision == row # NoRow /\ row'.desired # row.desired
                          => \E c \in Calls : pc'[c] # pc[c]
<1>1. Inductive /\ [Next]_vars => [Decision]_vars
  <2> SUFFICES ASSUME Inductive, Next PROVE Decision
    BY DEF vars
  <2> USE StreamControlAssumption
  <2>1. ASSUME NEW c \in Calls, CallStep(c) PROVE Decision
    <3>1. CASE Get(c) \/ Create(c) \/ CallFails(c)
      BY <3>1 DEF Get, Create, CallFails
    <3>2. CASE Ask(c) \/ AskAgain(c)
      BY <3>2 DEF Ask, AskAgain, Inductive, TypeOK, Users
    <3> QED BY <2>1, <3>1, <3>2 DEF CallStep
  <2>2. CASE Report
    <3>1. loaded[Streamer] \in Rows /\ row \in Rows
      BY <2>2 DEF Report, Inductive, Placed, Users
    <3>2. /\ ReportOf(loaded[Streamer]) \in Rows
          /\ ReportOf(loaded[Streamer]).desired = loaded[Streamer].desired
      BY <2>2, <3>1, ReportTyped DEF Report, Inductive, TypeOK
    <3>3. row' = Merge(row, loaded[Streamer], ReportOf(loaded[Streamer]))
      BY <2>2 DEF Report, Commit
    <3> QED BY <3>1, <3>2, <3>3, MergeKeeps
  <2>3. CASE StreamerStep /\ ~Report
    BY <2>3 DEF StreamerStep, Get, Create, StandDown, GoOn, Claim, ClaimNothing,
                PlayEnds, StreamerFails, Restart
  <2>4. CASE Crash \/ \E i \in Items : BecomesReady(i)
    BY <2>4 DEF Crash, Restart, BecomesReady
  <2> QED BY <2>1, <2>2, <2>3, <2>4 DEF Next
<1> QED BY <1>1, InductiveHolds, PTL DEF Spec, OnlyCallsDecide
-----------------------------------------------------------------------------
(* One call at a time.                                                     *)

\* No two calls are between the loading of the row and their last commit; the
\* streamer may be anywhere.
OneAtATime ==
    \A c, d \in Calls : loaded[c] # Null /\ loaded[d] # Null => c = d

\* Then a call knows what is wanted, since no report changes it.
Informed ==
    /\ \A c \in Calls : loaded[c] \in Rows => loaded[c].desired = row.desired
    /\ \A c \in Calls : pc[c] = "again" => VerbOf[c] = "tool_restart"

\* A call that is answered has been obeyed.
CallObeyed ==
    \A c \in Calls :
        loaded[c] \in Rows /\ pc[c] # "done" /\ pc'[c] = "done" =>
            (row'.desired <=> VerbOf[c] # "stop")

\* What a commit leaves in desired_running is what it assigns, when what it
\* loaded is still true.
LEMMA MergeDecides ==
  ASSUME NEW db \in Rows, NEW old \in Rows, NEW new \in Rows,
         old.desired = db.desired
  PROVE  Merge(db, old, new).desired = new.desired
  BY DEF Merge, Rows

\* What the verbs assign to desired_running.
LEMMA AskedDecides ==
  ASSUME NEW verb \in Verbs, NEW old \in Rows
  PROVE  Asked(verb, old).desired <=> verb \in {"start", "tool_start"}
<1>1. CASE verb = "start"
  BY <1>1 DEF Asked, Rows
<1>2. CASE verb = "stop"
  BY <1>2 DEF Asked, Rows
<1>3. CASE verb = "tool_start"
  BY <1>3 DEF Asked, Rows
<1>4. CASE verb = "tool_restart"
  BY <1>4 DEF Asked, Rows
<1> QED BY <1>1, <1>2, <1>3, <1>4 DEF Verbs

\* A commit of a call, with no other call under way.
LEMMA CommitInforms ==
  ASSUME Inductive, OneAtATime, Informed, NEW c \in Calls, loaded[c] \in Rows,
         NEW new \in Rows, Commit(c, new),
         NEW next, pc' = [pc EXCEPT ![c] = next], next = "again" => VerbOf[c] = "tool_restart",
         loaded' = [loaded EXCEPT ![c] = new] \/ loaded' = [loaded EXCEPT ![c] = Null]
  PROVE  Informed' /\ row'.desired = new.desired
<1>1. row \in Rows /\ loaded[c].desired = row.desired /\ c \in Users
  BY DEF Inductive, Placed, Informed, Users
<1>2. row' = Merge(row, loaded[c], new) /\ row'.desired = new.desired
  BY <1>1, MergeDecides DEF Commit
<1>3. ASSUME NEW d \in Calls, d # c PROVE loaded[d] = Null
  BY <1>3, StreamControlAssumption DEF OneAtATime
<1>4. Null \notin Rows
  BY StreamControlAssumption
<1>5. \A d \in Calls : loaded'[d] \in Rows => d = c /\ loaded'[d] = new
  BY <1>1, <1>3, <1>4 DEF Inductive, TypeOK, Users
<1>6. \A d \in Calls : pc'[d] = "again" => VerbOf[d] = "tool_restart"
  BY <1>1 DEF Informed, Inductive, TypeOK, Users
<1> QED BY <1>2, <1>5, <1>6 DEF Informed

\* A call stays informed until its commit, and is obeyed.
LEMMA CallInforms ==
  ASSUME Inductive, OneAtATime, Informed, NEW c \in Calls, CallStep(c)
  PROVE  Informed' /\ CallObeyed
<1> USE StreamControlAssumption
<1>u. c \in Users /\ \A d \in Calls : d \in Users
  BY DEF Users
<1>1. CASE Get(c)
  BY <1>1, <1>u DEF Get, Informed, CallObeyed, Inductive, TypeOK
<1>2. CASE Create(c)
  <2>1. \A d \in Calls : loaded[d] \notin Rows
    BY <1>2, <1>u DEF Create, Inductive, Placed
  <2>2. \A d \in Calls : loaded'[d] \notin Rows
    BY <1>2, <1>u, <2>1 DEF Create, Inductive, TypeOK
  <2> QED BY <1>2, <2>2 DEF Create, Informed, CallObeyed
<1>3. CASE Ask(c)
  <2> DEFINE new == Asked(VerbOf[c], loaded[c])
             next == IF VerbOf[c] = "tool_restart" THEN "again" ELSE "done"
  <2>1. /\ loaded[c] \in Rows /\ new \in Rows /\ Commit(c, new) /\ VerbOf[c] \in Verbs
        /\ pc' = [pc EXCEPT ![c] = next]
        /\ loaded' = [loaded EXCEPT ![c] = new] \/ loaded' = [loaded EXCEPT ![c] = Null]
    BY <1>3, AskedTyped DEF Ask
  <2>2. Informed' /\ row'.desired = new.desired
    BY <2>1, CommitInforms
  <2>3. new.desired <=> VerbOf[c] \in {"start", "tool_start"}
    BY <2>1, AskedDecides
  <2>4. \A d \in Calls : d # c => pc'[d] = pc[d]
    BY <2>1
  <2>5. pc'[c] = "done" => VerbOf[c] # "tool_restart"
    BY <2>1, <1>u DEF Inductive, TypeOK
  <2> HIDE DEF new, next
  <2> QED BY <2>1, <2>2, <2>3, <2>4, <2>5 DEF CallObeyed, Verbs
<1>4. CASE AskAgain(c)
  <2> DEFINE new == [loaded[c] EXCEPT !.desired = TRUE, !.status = "running"]
  <2>1. /\ loaded[c] \in Rows /\ new \in Rows /\ new.desired /\ Commit(c, new)
        /\ VerbOf[c] = "tool_restart"
        /\ pc' = [pc EXCEPT ![c] = "done"]
        /\ loaded' = [loaded EXCEPT ![c] = Null]
    BY <1>4 DEF AskAgain, Inductive, Placed, Rows, Statuses, Informed
  <2>2. Informed' /\ row'.desired = new.desired
    BY <2>1, CommitInforms
  <2>3. \A d \in Calls : d # c => pc'[d] = pc[d]
    BY <2>1
  <2> HIDE DEF new
  <2> QED BY <2>1, <2>2, <2>3 DEF CallObeyed
<1>5. CASE CallFails(c)
  <2>1. loaded[c] \notin Rows
    BY <1>5 DEF CallFails
  <2> QED BY <1>5, <1>u, <2>1 DEF CallFails, Informed, CallObeyed, Inductive, TypeOK
<1> QED BY <1>1, <1>2, <1>3, <1>4, <1>5 DEF CallStep

\* The streamer leaves the calls and what is wanted alone.
LEMMA OthersInform ==
  ASSUME Inductive, Informed,
         StreamerStep \/ Crash \/ (\E i \in Items : BecomesReady(i)) \/ UNCHANGED vars
  PROVE  Informed' /\ CallObeyed
<1> USE StreamControlAssumption
<1>1. \A c \in Calls : loaded'[c] = loaded[c] /\ pc'[c] = pc[c]
  BY DEF StreamerStep, Get, Create, StandDown, GoOn, Claim, ClaimNothing, Report, PlayEnds,
         StreamerFails, Crash, Restart, Goto, Forget, BecomesReady, vars, Inductive, TypeOK, Users
<1>2. \A c \in Calls : loaded[c] \in Rows => row'.desired = row.desired
  <2>1. CASE Report
    <3>1. loaded[Streamer] \in Rows /\ row \in Rows
      BY <2>1 DEF Report, Inductive, Placed, Users
    <3>2. /\ ReportOf(loaded[Streamer]) \in Rows
          /\ ReportOf(loaded[Streamer]).desired = loaded[Streamer].desired
      BY <2>1, <3>1, ReportTyped DEF Report, Inductive, TypeOK
    <3>3. row' = Merge(row, loaded[Streamer], ReportOf(loaded[Streamer]))
      BY <2>1 DEF Report, Commit
    <3> QED BY <3>1, <3>2, <3>3, MergeKeeps
  <2>2. CASE Create(Streamer)
    BY <2>2 DEF Create, Inductive, Placed, Users
  <2>3. CASE ~Report /\ ~Create(Streamer)
    BY <2>3 DEF StreamerStep, Get, StandDown, GoOn, Claim, ClaimNothing, PlayEnds,
                StreamerFails, Crash, Restart, BecomesReady, vars
  <2> QED BY <2>1, <2>2, <2>3
<1> QED BY <1>1, <1>2 DEF Informed, CallObeyed

\* As long as calls do not overlap, both facts hold, whatever the streamer does.
LEMMA AlwaysInformed == Spec /\ []OneAtATime => []Informed /\ [][CallObeyed]_vars
<1>1. Init => Informed
  BY StreamControlAssumption DEF Init, Informed, Users
<1>2. Inductive /\ OneAtATime /\ Informed /\ [Next]_vars => Informed' /\ CallObeyed
  BY CallInforms, OthersInform DEF Next
<1> QED BY <1>1, <1>2, InductiveHolds, PTL DEF Spec

\* When calls do not overlap each other, every call that is answered has been
\* obeyed: the channel is wanted after a start or a restart and not after a
\* stop, however the streamer's reports interleave with them.
THEOREM CallsAreObeyed == Spec /\ []OneAtATime => [][CallObeyed]_vars
  BY AlwaysInformed, PTL

\* In particular a stop stops: what the run control_lost_stop refutes takes a
\* start that is committed between the stop's load and its commit.
THEOREM LoneStopStops == Spec /\ []OneAtATime => StopStops
<1> DEFINE Stops == \A c \in Calls :
                      VerbOf[c] = "stop" /\ loaded[c] \in Rows /\ pc'[c] # pc[c] => ~row'.desired
<1>1. Inductive /\ Informed /\ [Next]_vars /\ CallObeyed => [Stops]_vars
  <2> SUFFICES ASSUME Inductive, Informed, Next, CallObeyed,
                      NEW c \in Calls, VerbOf[c] = "stop", loaded[c] \in Rows, pc'[c] # pc[c]
               PROVE  ~row'.desired
    BY DEF vars
  <2> USE StreamControlAssumption
  <2>0. pc \in [Users -> CallPc \union StreamerPc] /\ c \in Users /\ c # Streamer
    BY DEF Inductive, TypeOK, Users
  <2>1. CallStep(c)
    <3>1. ASSUME NEW d \in Calls, d # c, CallStep(d) PROVE FALSE
      BY <2>0, <3>1 DEF CallStep, Get, Create, Ask, AskAgain, CallFails
    <3>2. ~StreamerStep
      BY <2>0 DEF StreamerStep, Get, Create, StandDown, GoOn, Claim, ClaimNothing, Report, PlayEnds,
                  StreamerFails, Restart, Goto
    <3>3. ~Crash /\ ~\E i \in Items : BecomesReady(i)
      BY <2>0 DEF Crash, Restart, Goto, BecomesReady
    <3> QED BY <3>1, <3>2, <3>3 DEF Next
  <2>2. pc[c] # "done" /\ pc'[c] = "done"
    BY <2>1 DEF CallStep, Get, Create, Ask, AskAgain, CallFails, Inductive, TypeOK, Users
  <2> QED BY <2>2 DEF CallObeyed
<1> QED BY <1>1, AlwaysInformed, InductiveHolds, PTL DEF Spec, StopStops
=============================================================================
