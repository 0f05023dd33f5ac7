------------------------------- MODULE Rotation -------------------------------
(***************************************************************************)
(* The rotation of the library: plans are made of the assets that are      *)
(* approved and in good health, and every time an item has been on air the *)
(* streamer books the play in the asset's row, from which the next plan    *)
(* reads its health.                                                       *)
(*                                                                         *)
(* The streamer's session loads the row with the claim, before the item is *)
(* played, and never refreshes it; its commit names the columns that       *)
(* differ from what was loaded.  How an item of a plan is approved,        *)
(* prepared and claimed is the business of Pipeline; here published items  *)
(* are aired one after the other.                                          *)
(***************************************************************************)
EXTENDS Planner

CONSTANTS
    Streamers,
    Window,         \* how many of the last plays make the health: 20
    Healthy,        \* the least health a plan asks for, in thousandths: 300
    Past,           \* asset -> how its plays of earlier days ended
    Earlier,        \* the items that are still to be aired when the run begins
    Limit,          \* how often each outside event may happen
    Null

External == {"plan", "play", "review", "crash"}
Outcomes == {"ok", "failed", "skipped"}
Rights   == {"pending_review", "approved_for_stream", "blocked"}
Perfect  == 1000

ASSUME RotationAssumption ==
    /\ Window \in Nat \ {0}
    /\ Healthy \in 1 .. Perfect
    /\ Past \in [Assets -> Seq(Outcomes)]
    /\ Earlier \in Seq(Assets)
    /\ Limit \in [External -> Nat]
    /\ Null \notin Assets \union Outcomes

VARIABLES
    row,        \* the columns of library_assets that the rotation uses
    agenda,     \* the assets of the published items not on air yet
    spc, sItem, \* where each streamer is, and the asset it plays
    copy,       \* the row its session has loaded
    ending,     \* how the play ended
    ended,      \* history: how the committed plays of each asset ended
    used        \* how often each outside event has happened

streamerVars == <<spc, sItem, copy, ending>>
rowVars == <<row, agenda, ended, used>>
vars == <<plannerVars, streamerVars, rowVars>>

Rows == [rights : Rights, times : Nat, errors : Nat, health : 0 .. Perfect, log : Seq(Outcomes)]

TypeOK ==
    /\ PlannerTypeOK
    /\ row \in [Assets -> Rows]
    /\ agenda \in Seq(Assets)
    /\ spc \in [Streamers -> {"poll", "play", "book"}]
    /\ sItem \in [Streamers -> Assets \union {Null}]
    /\ copy \in [Streamers -> Rows \union {Null}]
    /\ ending \in [Streamers -> Outcomes \union {Null}]
    /\ ended \in [Assets -> Seq(Outcomes)]
    /\ used \in [External -> Nat]

Count(log, outcomes) == Cardinality({k \in DOMAIN log : log[k] \in outcomes})
Recent(log) == SubSeq(log, IF Len(log) > Window THEN Len(log) - Window + 1 ELSE 1, Len(log))

HealthOfAll(log) ==
    IF log = <<>> THEN Perfect
    ELSE (2 * Perfect * Count(log, {"ok"}) + Len(Recent(log))) \div (2 * Len(Recent(log)))
\* The share of recent plays that went well, rounded to thousandths; the
\* column's default before the first play.
HealthOf(log) ==
    IF log = <<>> THEN Perfect
    ELSE LET recent == Recent(log)
         IN (2 * Perfect * Count(recent, {"ok"}) + Len(recent)) \div (2 * Len(recent))

Booked(rights, log) ==
    [rights |-> rights, times |-> Len(log), errors |-> Count(log, Outcomes \ {"ok"}),
     health |-> HealthOf(log), log |-> log]

\* A library with a past, in any state of review.
Init ==
    /\ PlannerInit
    /\ \E rights \in [Assets -> Rights] : row = [a \in Assets |-> Booked(rights[a], Past[a])]
    /\ agenda = Earlier
    /\ spc = [s \in Streamers |-> "poll"]
    /\ sItem = [s \in Streamers |-> Null]
    /\ copy = [s \in Streamers |-> Null]
    /\ ending = [s \in Streamers |-> Null]
    /\ ended = Past
    /\ used = [e \in External |-> 0]

Happens(e) ==
    /\ used[e] < Limit[e]
    /\ used' = [used EXCEPT ![e] = @ + 1]

-----------------------------------------------------------------------------
(* generate_plan.                                                          *)

Approved(kind) == {a \in kind : row[a].rights = "approved_for_stream"}

\* float(v.health_score or 1.0): a health of zero is no health.
HealthRead(a) == IF row[a].health = 0 THEN Perfect ELSE row[a].health
HealthyVideos == {a \in Approved(Videos) : HealthRead(a) >= Healthy}

\* If nobody is healthy, use all the same.
VideoPool == IF HealthyVideos # {} THEN HealthyVideos ELSE Approved(Videos)

StartPlan ==
    /\ Happens("plan")
    /\ Start(VideoPool, Approved(Bumpers))
    /\ UNCHANGED <<row, agenda, ended, streamerVars>>

FillPlan ==
    /\ Fill
    /\ UNCHANGED <<streamerVars, rowVars>>

PublishPlan ==
    /\ Publish
    /\ agenda' = agenda \o [k \in DOMAIN items |-> items[k].asset]
    /\ UNCHANGED <<row, ended, used, streamerVars>>

-----------------------------------------------------------------------------
(* The streamer: the claim, _play_item and _record_play.                   *)

Claim(s) ==
    /\ Happens("play")
    /\ spc[s] = "poll"
    /\ agenda # <<>>
    /\ agenda' = Tail(agenda)
    /\ spc' = [spc EXCEPT ![s] = "play"]
    /\ sItem' = [sItem EXCEPT ![s] = Head(agenda)]
    /\ copy' = [copy EXCEPT ![s] = row[Head(agenda)]]
    /\ UNCHANGED <<plannerVars, row, ending, ended>>

\* The item's own status is committed first.
PlayEnds(s, outcome) ==
    /\ spc[s] = "play"
    /\ spc' = [spc EXCEPT ![s] = "book"]
    /\ ending' = [ending EXCEPT ![s] = outcome]
    /\ ended' = [ended EXCEPT ![sItem[s]] = Append(@, outcome)]
    /\ UNCHANGED <<plannerVars, row, agenda, used, sItem, copy>>

PlayedIfOnAir(old, outcome) ==
    LET log == Append(old.log, outcome)
    IN [old EXCEPT !.times = IF outcome = "skipped" THEN @ ELSE @ + 1,
                   !.errors = IF outcome = "failed" THEN @ + 1 ELSE @,
                   !.health = HealthOf(log), !.log = log]
\* What _record_play makes of the row it has loaded.
Played(old, outcome) ==
    LET log == Append(old.log, outcome)
    IN [old EXCEPT !.times = @ + 1,
                   !.errors = IF outcome = "ok" THEN @ ELSE @ + 1,
                   !.health = HealthOf(log), !.log = log]

MergeAll(db, old, new) == new
Merge(db, old, new) == [col \in DOMAIN db |-> IF new[col] # old[col] THEN new[col] ELSE db[col]]

BackToPoll(s) ==
    /\ spc' = [spc EXCEPT ![s] = "poll"]
    /\ sItem' = [sItem EXCEPT ![s] = Null]
    /\ copy' = [copy EXCEPT ![s] = Null]
    /\ ending' = [ending EXCEPT ![s] = Null]

RecordPlay(s) ==
    /\ spc[s] = "book"
    /\ row' = [row EXCEPT ![sItem[s]] = Merge(@, copy[s], Played(copy[s], ending[s]))]
    /\ BackToPoll(s)
    /\ UNCHANGED <<plannerVars, agenda, ended, used>>

\* Docker restarts the streamer; what it had not committed is lost.
Crash(s) ==
    /\ spc[s] # "poll"
    /\ Happens("crash")
    /\ BackToPoll(s)
    /\ UNCHANGED <<plannerVars, row, agenda, ended>>

-----------------------------------------------------------------------------
\* PATCH /assets/{id} by the operator.
Review(a, rights) ==
    /\ Happens("review")
    /\ rights # row[a].rights
    /\ row' = [row EXCEPT ![a].rights = rights]
    /\ UNCHANGED <<plannerVars, streamerVars, agenda, ended>>

StreamerStep(s) ==
    \/ Claim(s)
    \/ \E outcome \in Outcomes : PlayEnds(s, outcome)
    \/ RecordPlay(s)

Next ==
    \/ StartPlan
    \/ FillPlan
    \/ PublishPlan
    \/ \E s \in Streamers : StreamerStep(s) \/ Crash(s)
    \/ \E a \in Assets, rights \in Rights : Review(a, rights)

Spec == Init /\ [][Next]_vars

\* A call that has begun to plan goes on, nothing in it waits for anybody.
FairSpec == Spec /\ WF_vars(FillPlan)

-----------------------------------------------------------------------------
(* Properties.                                                             *)

\* GUIA_DO_USUARIO, "after each transmission the record is updated": while
\* nothing crashes, what an asset's row says of its plays is what its items
\* say, as soon as nobody has a play of it to book.
RecordIsTrue ==
    used["crash"] = 0 =>
        \A a \in Assets : (\A s \in Streamers : spc[s] = "book" => sItem[s] # a) =>
            row[a] = Booked(row[a].rights, ended[a])

\* Booking a play, on a row loaded before the item was played, never undoes
\* what the operator decided about the asset meanwhile.
ReviewStands ==
    [][\A s \in Streamers : RecordPlay(s) =>
           \A a \in Assets : row'[a].rights = row[a].rights]_vars

\* GUIA_DO_USUARIO, "automatic quarantine: videos with health_score < 0.3 are
\* ignored when the next plan is generated", unless there are no others.
QuarantineHolds ==
    [][StartPlan /\ (\E a \in Approved(Videos) : row[a].health >= Healthy) =>
           \A a \in pool' : row[a].health >= Healthy]_vars
=============================================================================
