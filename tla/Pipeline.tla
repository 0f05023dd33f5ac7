------------------------------ MODULE Pipeline ------------------------------
(***************************************************************************)
(* From an approved plan to the air: the prep workers, the streamers, the  *)
(* approve endpoint and the operator, meeting in the rows of the database. *)
(*                                                                         *)
(* The processes share no memory.  They meet in stream_plans.status,       *)
(* stream_plan_items.prep_status / stream_status, library_assets           *)
(* .rights_status and in the spool of prepared files.  Both kinds of       *)
(* worker claim an item with SELECT ... JOIN ... FOR UPDATE SKIP LOCKED    *)
(* LIMIT 1, which locks the item's row and its plan's row until commit; a  *)
(* claim is therefore two actions, the locking SELECT and the commit.      *)
(***************************************************************************)
EXTENDS Naturals

CONSTANTS
    Plans, Items, Assets,
    Workers,        \* prep cycles: the prep-worker container, POST /prep/run-once
    Streamers,      \* streamer processes
    Requests,       \* concurrent POST /plans/{id}/approve requests
    PlanOf,         \* item -> its plan
    VideoOf,        \* item -> its video asset
    MusicOf,        \* item -> the music mixed into it, or Null
    SeqIndex,       \* item -> sequence_index, the order of preparation
    AirRank,        \* item -> rank of planned_start_at, the order of airing
    DeleteAfter,    \* the items whose delete_after_stream is set
    Limit,          \* how often each outside event may happen
    Null

Rights   == {"pending_review", "approved_for_stream", "blocked"}
External == {"crash", "patch", "requeue", "remove"}
Soundtrack(i) == IF MusicOf[i] = Null THEN {} ELSE {MusicOf[i]}
Sources(i)    == {VideoOf[i]} \union Soundtrack(i)

ASSUME PipelineAssumption ==
    /\ PlanOf \in [Items -> Plans]
    /\ VideoOf \in [Items -> Assets]
    /\ MusicOf \in [Items -> Assets \union {Null}]
    /\ SeqIndex \in [Items -> Nat]
    /\ AirRank \in [Items -> Nat]
    /\ DeleteAfter \subseteq Items
    /\ Limit \in [External -> Nat]
    /\ Null \notin Plans \union Items \union Assets \union Workers \union Streamers
    /\ Workers \intersect Streamers = {}

VARIABLES
    planStatus,     \* stream_plans.status
    prep,           \* stream_plan_items.prep_status
    stream,         \* stream_plan_items.stream_status
    rights,         \* library_assets.rights_status
    files,          \* the items whose prepared file is in the spool
    rowLock,        \* plan -> the claimer holding its row (and an item's)
    wpc, wItem,     \* where each prep cycle is, and the item it works on
    seen,           \* the rights each worker's session has loaded
    touched,        \* touched_plan_ids of each cycle
    spc, sItem,     \* where each streamer is, and the item it has claimed
    reads,          \* the draft plan each approve request has read
    vetted,         \* history: assets that were approved_for_stream at some time
    used            \* how often each outside event has happened

outsideVars == <<rights, vetted, used>>
streamVars  == <<spc, sItem>>
workerVars  == <<wpc, wItem, seen, touched>>
vars == <<planStatus, prep, stream, files, rowLock, workerVars, streamVars, reads, outsideVars>>

\* What no action of a worker, and none of a streamer, ever writes.
notWorkers   == <<stream, streamVars, reads, outsideVars>>
notStreamers == <<prep, workerVars, reads, outsideVars>>

PlanStates   == {"draft", "approved", "preparing", "ready", "streaming"}
PrepStates   == {"queued", "preparing", "ready", "failed"}
StreamStates == {"queued", "streaming", "completed", "failed", "skipped"}
WorkerPc     == {"claim", "locked", "prepare", "normalized", "close"}
StreamerPc   == {"poll", "locked", "claimed", "play", "cleanup"}
Unread       == "unread"

TypeOK ==
    /\ planStatus \in [Plans -> PlanStates]
    /\ prep \in [Items -> PrepStates]
    /\ stream \in [Items -> StreamStates]
    /\ rights \in [Assets -> Rights]
    /\ files \in SUBSET Items
    /\ rowLock \in [Plans -> Workers \union Streamers \union {Null}]
    /\ wpc \in [Workers -> WorkerPc]
    /\ wItem \in [Workers -> Items \union {Null}]
    /\ seen \in [Workers -> [Assets -> Rights \union {Unread}]]
    /\ touched \in [Workers -> SUBSET Plans]
    /\ spc \in [Streamers -> StreamerPc]
    /\ sItem \in [Streamers -> Items \union {Null}]
    /\ reads \in [Requests -> Plans \union {Null}]
    /\ vetted \in SUBSET Assets
    /\ used \in [External -> Nat]

\* A session that has loaded nothing yet.
NothingSeen == [a \in Assets |-> Unread]

\* Freshly generated plans: drafts with every item queued.  The assets may
\* already have been re-reviewed by the time the plan is approved.
Init ==
    /\ planStatus = [p \in Plans |-> "draft"]
    /\ prep = [i \in Items |-> "queued"]
    /\ stream = [i \in Items |-> "queued"]
    /\ rights \in [Assets -> Rights]
    /\ vetted = {a \in Assets : rights[a] = "approved_for_stream"}
    /\ files = {}
    /\ rowLock = [p \in Plans |-> Null]
    /\ wpc = [w \in Workers |-> "claim"]
    /\ wItem = [w \in Workers |-> Null]
    /\ seen = [w \in Workers |-> NothingSeen]
    /\ touched = [w \in Workers |-> {}]
    /\ spc = [s \in Streamers |-> "poll"]
    /\ sItem = [s \in Streamers |-> Null]
    /\ reads = [r \in Requests |-> Null]
    /\ used = [e \in External |-> 0]

-----------------------------------------------------------------------------
(* POST /plans/{id}/approve: the status is read, tested and written back   *)
(* in one session without a row lock.                                      *)

Approvable(p) == planStatus[p] = "draft"

ApproveRead(r, p) ==
    /\ reads[r] = Null
    /\ Approvable(p)
    /\ reads' = [reads EXCEPT ![r] = p]
    /\ UNCHANGED <<planStatus, prep, stream, files, rowLock, workerVars, streamVars, outsideVars>>

ApproveCommit(r) ==
    /\ reads[r] # Null
    /\ rowLock[reads[r]] = Null
    /\ planStatus' = [planStatus EXCEPT ![reads[r]] = "approved"]
    /\ reads' = [reads EXCEPT ![r] = Null]
    /\ UNCHANGED <<prep, stream, files, rowLock, workerVars, streamVars, outsideVars>>

-----------------------------------------------------------------------------
(* The prep worker: run_prep_cycle, _claim_next_prep_item, prepare_item.   *)

PrepClaimableUnlocked(i) ==
    planStatus[PlanOf[i]] \in {"approved", "preparing"} /\ prep[i] = "queued"
PrepClaimableAnyPlan(i) == prep[i] = "queued" /\ rowLock[PlanOf[i]] = Null
PrepClaimableMixed(i) ==
    PrepClaimableAnyPlan(i) /\ planStatus[PlanOf[i]] \in {"approved", "preparing"} /\ MusicOf[i] # Null
PrepClaimable(i) ==
    /\ planStatus[PlanOf[i]] \in {"approved", "preparing"}
    /\ prep[i] = "queued"
    /\ rowLock[PlanOf[i]] = Null

FirstToPrepare(i) ==
    /\ PrepClaimable(i)
    /\ \A j \in Items : PrepClaimable(j) => SeqIndex[i] <= SeqIndex[j]

\* What the session holds after loading i: its identity map keeps the assets of
\* the previous item, still referenced by the loop, and does not refresh them.
Load(w, i) ==
    [a \in Assets |-> IF a \notin Sources(i) THEN Unread
                      ELSE IF seen[w][a] # Unread THEN seen[w][a]
                      ELSE rights[a]]

PrepLock(w, i) ==
    /\ wpc[w] = "claim"
    /\ FirstToPrepare(i)
    /\ rowLock' = [rowLock EXCEPT ![PlanOf[i]] = w]
    /\ wpc' = [wpc EXCEPT ![w] = "locked"]
    /\ wItem' = [wItem EXCEPT ![w] = i]
    /\ seen' = [seen EXCEPT ![w] = Load(w, i)]
    /\ UNCHANGED <<planStatus, prep, files, touched, notWorkers>>

PrepCommit(w) ==
    LET i == wItem[w]
        p == PlanOf[i]
    IN /\ wpc[w] = "locked"
       /\ prep' = [prep EXCEPT ![i] = "preparing"]
       /\ planStatus' = [planStatus EXCEPT ![p] = IF @ = "approved" THEN "preparing" ELSE @]
       /\ rowLock' = [rowLock EXCEPT ![p] = Null]
       /\ touched' = [touched EXCEPT ![w] = @ \union {p}]
       /\ wpc' = [wpc EXCEPT ![w] = "prepare"]
       /\ UNCHANGED <<files, wItem, seen, notWorkers>>

\* No row to claim, or none whose plan is not locked by somebody else.
NothingToPrepare(w) ==
    /\ wpc[w] = "claim"
    /\ \A i \in Items : ~PrepClaimable(i)
    /\ wpc' = [wpc EXCEPT ![w] = "close"]
    /\ wItem' = [wItem EXCEPT ![w] = Null]
    /\ seen' = [seen EXCEPT ![w] = NothingSeen]
    /\ UNCHANGED <<planStatus, prep, files, rowLock, touched, notWorkers>>

MayUseUnlessBlocked(w, a) == seen[w][a] # "blocked"
MayUse(w, a) == seen[w][a] = "approved_for_stream"

\* The rights gate on the video, then the download and the normalize job.
Normalize(w) ==
    /\ wpc[w] = "prepare"
    /\ MayUse(w, VideoOf[wItem[w]])
    /\ wpc' = [wpc EXCEPT ![w] = "normalized"]
    /\ UNCHANGED <<planStatus, prep, files, rowLock, wItem, seen, touched, notWorkers>>

\* The rights gate on the music and the mix job, if any; the item is ready.
FinishItem(w) ==
    LET i == wItem[w]
    IN /\ wpc[w] = "normalized"
       /\ \A a \in Soundtrack(i) : MayUse(w, a)
       /\ prep' = [prep EXCEPT ![i] = "ready"]
       /\ files' = files \union {i}
       /\ wpc' = [wpc EXCEPT ![w] = "claim"]
       /\ UNCHANGED <<planStatus, rowLock, wItem, seen, touched, notWorkers>>

FailedAsJob(i) == [prep EXCEPT ![i] = "error"]
Failed(i) == [prep EXCEPT ![i] = "failed"]

\* A rights gate, a download or an ffmpeg job raised.
PrepareFails(w) ==
    /\ wpc[w] \in {"prepare", "normalized"}
    /\ prep' = Failed(wItem[w])
    /\ wpc' = [wpc EXCEPT ![w] = "claim"]
    /\ UNCHANGED <<planStatus, files, rowLock, wItem, seen, touched, notWorkers>>

SomeReady(p) == \E i \in Items : PlanOf[i] = p /\ prep[i] = "ready"
AllReady(p)  == \A i \in Items : PlanOf[i] = p => prep[i] = "ready"

\* The end of the cycle: UPDATE stream_plans SET status = 'ready', whatever the
\* status is by now.  Ready items stay ready, so reading them and updating the
\* plan is one step; the UPDATE waits for the row lock.
ClosePlan(w, p) ==
    /\ wpc[w] = "close"
    /\ p \in touched[w]
    /\ AllReady(p) => rowLock[p] = Null
    /\ planStatus' = IF AllReady(p) THEN [planStatus EXCEPT ![p] = "ready"] ELSE planStatus
    /\ touched' = [touched EXCEPT ![w] = @ \ {p}]
    /\ UNCHANGED <<prep, files, rowLock, wpc, wItem, seen, notWorkers>>

\* The next cycle: thirty seconds later, or the next request.
EndCycle(w) ==
    /\ wpc[w] = "close"
    /\ touched[w] = {}
    /\ wpc' = [wpc EXCEPT ![w] = "claim"]
    /\ UNCHANGED <<planStatus, prep, files, rowLock, wItem, seen, touched, notWorkers>>

-----------------------------------------------------------------------------
(* The streamer while it is wanted on air: _claim_next_ready_item and      *)
(* _play_item.  A poll that finds nothing plays the fallback and changes   *)
(* none of this state.                                                     *)

OnAirStates == {"preparing", "ready", "streaming"}

AirClaimableUnlocked(i) ==
    planStatus[PlanOf[i]] \in OnAirStates /\ prep[i] = "ready" /\ stream[i] = "queued"
AirClaimableAgain(i) ==
    planStatus[PlanOf[i]] \in OnAirStates /\ prep[i] = "ready" /\ rowLock[PlanOf[i]] = Null
AirClaimableReadyPlan(i) ==
    AirClaimableAgain(i) /\ stream[i] = "queued" /\ planStatus[PlanOf[i]] # "preparing"
AirClaimable(i) ==
    /\ planStatus[PlanOf[i]] \in OnAirStates
    /\ prep[i] = "ready"
    /\ stream[i] = "queued"
    /\ rowLock[PlanOf[i]] = Null

AirsBefore(i, j) ==
    AirRank[i] < AirRank[j] \/ (AirRank[i] = AirRank[j] /\ SeqIndex[i] <= SeqIndex[j])

AnyToAir(i) == AirClaimable(i)
FirstToAir(i) ==
    /\ AirClaimable(i)
    /\ \A j \in Items : AirClaimable(j) => AirsBefore(i, j)

AirLock(s, i) ==
    /\ spc[s] = "poll"
    /\ FirstToAir(i)
    /\ rowLock' = [rowLock EXCEPT ![PlanOf[i]] = s]
    /\ spc' = [spc EXCEPT ![s] = "locked"]
    /\ sItem' = [sItem EXCEPT ![s] = i]
    /\ UNCHANGED <<planStatus, stream, files, notStreamers>>

AirCommit(s) ==
    LET i == sItem[s]
        p == PlanOf[i]
    IN /\ spc[s] = "locked"
       /\ stream' = [stream EXCEPT ![i] = "streaming"]
       /\ planStatus' = [planStatus EXCEPT ![p] =
                            IF @ \in {"preparing", "ready"} THEN "streaming" ELSE @]
       /\ rowLock' = [rowLock EXCEPT ![p] = Null]
       /\ spc' = [spc EXCEPT ![s] = "claimed"]
       /\ UNCHANGED <<files, sItem, notStreamers>>

SettledNowhere(s, status) == stream
Settled(s, status) == [stream EXCEPT ![sItem[s]] = status]

\* The item has left the air, the streamer polls again.
Leaves(s, status) ==
    /\ stream' = Settled(s, status)
    /\ spc' = [spc EXCEPT ![s] = "poll"]
    /\ sItem' = [sItem EXCEPT ![s] = Null]
    /\ UNCHANGED <<planStatus, files, rowLock, notStreamers>>

SkipMissing(s) ==
    /\ spc[s] = "claimed"
    /\ sItem[s] \notin files
    /\ Leaves(s, "skipped")

\* The file is there; ffmpeg plays it, with up to three retries.
StartPlay(s) ==
    /\ spc[s] = "claimed"
    /\ sItem[s] \in files
    /\ spc' = [spc EXCEPT ![s] = "play"]
    /\ UNCHANGED <<planStatus, stream, files, rowLock, sItem, notStreamers>>

PlayFails(s) ==
    /\ spc[s] = "play"
    /\ Leaves(s, "failed")

PlayCompletes(s) ==
    /\ spc[s] = "play"
    /\ sItem[s] \notin DeleteAfter
    /\ Leaves(s, "completed")

PlayCompletesThenCleanup(s) ==
    /\ spc[s] = "play"
    /\ sItem[s] \in DeleteAfter
    /\ stream' = Settled(s, "completed")
    /\ spc' = [spc EXCEPT ![s] = "cleanup"]
    /\ UNCHANGED <<planStatus, files, rowLock, sItem, notStreamers>>

FilesOfVideo(i) == {j \in Items : VideoOf[j] = VideoOf[i]}
FileOf(i) == {i}

\* _cleanup_item: the prepared file goes.
CleanupItem(s) ==
    /\ spc[s] = "cleanup"
    /\ files' = files \ FileOf(sItem[s])
    /\ spc' = [spc EXCEPT ![s] = "poll"]
    /\ sItem' = [sItem EXCEPT ![s] = Null]
    /\ UNCHANGED <<planStatus, stream, rowLock, notStreamers>>

-----------------------------------------------------------------------------
(* Outside events: review, the operator's runbook, and restarts.           *)

Happens(e) ==
    /\ used[e] < Limit[e]
    /\ used' = [used EXCEPT ![e] = @ + 1]

\* PATCH /assets/{id} with a rights_status.
PatchRights(a, status) ==
    /\ Happens("patch")
    /\ rights' = [rights EXCEPT ![a] = status]
    /\ vetted' = IF status = "approved_for_stream" THEN vetted \union {a} ELSE vetted
    /\ UNCHANGED <<planStatus, prep, stream, files, rowLock, workerVars, streamVars, reads>>

\* RUNBOOK, Prep Failures: "re-queue by resetting prep_status=queued".
Requeue(i) ==
    /\ Happens("requeue")
    /\ prep[i] = "failed"
    /\ prep' = [prep EXCEPT ![i] = "queued"]
    /\ UNCHANGED <<planStatus, stream, files, rowLock, workerVars, streamVars, reads,
                   rights, vetted>>

\* RUNBOOK, Storage Pressure: "remove files in ... /spool/prepared/".
RemovePrepared(i) ==
    /\ Happens("remove")
    /\ i \in files
    /\ files' = files \ {i}
    /\ UNCHANGED <<planStatus, prep, stream, rowLock, workerVars, streamVars, reads,
                   rights, vetted>>

\* A container dies and Docker restarts it: its transaction is rolled back, its
\* locks are released, and what it had committed stays.
Crash(x) ==
    /\ Happens("crash")
    /\ rowLock' = [p \in Plans |-> IF rowLock[p] = x THEN Null ELSE rowLock[p]]
    /\ UNCHANGED <<planStatus, prep, stream, files, reads, rights, vetted>>

WorkerCrash(w) ==
    /\ Crash(w)
    /\ wpc' = [wpc EXCEPT ![w] = "claim"]
    /\ wItem' = [wItem EXCEPT ![w] = Null]
    /\ seen' = [seen EXCEPT ![w] = NothingSeen]
    /\ touched' = [touched EXCEPT ![w] = {}]
    /\ UNCHANGED streamVars

StreamerCrash(s) ==
    /\ Crash(s)
    /\ spc' = [spc EXCEPT ![s] = "poll"]
    /\ sItem' = [sItem EXCEPT ![s] = Null]
    /\ UNCHANGED workerVars

-----------------------------------------------------------------------------
WorkerStep(w) ==
    \/ \E i \in Items : PrepLock(w, i)
    \/ PrepCommit(w)
    \/ NothingToPrepare(w)
    \/ Normalize(w)
    \/ FinishItem(w)
    \/ PrepareFails(w)
    \/ \E p \in Plans : ClosePlan(w, p)
    \/ EndCycle(w)

StreamerStep(s) ==
    \/ \E i \in Items : AirLock(s, i)
    \/ AirCommit(s)
    \/ SkipMissing(s)
    \/ StartPlay(s)
    \/ PlayFails(s)
    \/ PlayCompletes(s)
    \/ PlayCompletesThenCleanup(s)
    \/ CleanupItem(s)

RequestStep(r) ==
    \/ \E p \in Plans : ApproveRead(r, p)
    \/ ApproveCommit(r)

Outside ==
    \/ \E a \in Assets, status \in Rights : PatchRights(a, status)
    \/ \E i \in Items : Requeue(i) \/ RemovePrepared(i)
    \/ \E w \in Workers : WorkerCrash(w)
    \/ \E s \in Streamers : StreamerCrash(s)

Next ==
    \/ \E w \in Workers : WorkerStep(w)
    \/ \E s \in Streamers : StreamerStep(s)
    \/ \E r \in Requests : RequestStep(r)
    \/ Outside

Spec == Init /\ [][Next]_vars

(* The containers are restarted by Docker and loop for ever, and a request *)
(* that has read its plan goes on to commit; nobody has to approve, review *)
(* or repair anything.                                                     *)
Fairness ==
    /\ \A w \in Workers : WF_vars(WorkerStep(w))
    /\ \A s \in Streamers : WF_vars(StreamerStep(s))
    /\ \A r \in Requests : WF_vars(ApproveCommit(r))

FairSpec == Spec /\ Fairness

-----------------------------------------------------------------------------
(* Safety.                                                                 *)

Busy(w)    == wpc[w] \in {"locked", "prepare", "normalized"}
Holding(s) == spc[s] # "poll"

\* What a row lock guarantees its holder: between the locking SELECT and the
\* commit the claimed rows are as they were selected, and afterwards the item
\* has the status its holder gave it (claims, _play_item, prepare_item).
WorkerClaim(w) ==
    /\ Busy(w) => wItem[w] \in Items
    /\ wpc[w] = "locked" =>
        /\ rowLock[PlanOf[wItem[w]]] = w
        /\ planStatus[PlanOf[wItem[w]]] \in {"approved", "preparing"}
        /\ prep[wItem[w]] = "queued"
    /\ wpc[w] \in {"prepare", "normalized"} => prep[wItem[w]] = "preparing"

StreamerClaim(s) ==
    /\ Holding(s) => sItem[s] \in Items
    /\ spc[s] = "locked" =>
        /\ rowLock[PlanOf[sItem[s]]] = s
        /\ planStatus[PlanOf[sItem[s]]] \in OnAirStates
        /\ prep[sItem[s]] = "ready"
        /\ stream[sItem[s]] = "queued"
    /\ spc[s] \in {"claimed", "play"} => stream[sItem[s]] = "streaming"
    /\ spc[s] = "cleanup" => stream[sItem[s]] = "completed"

ClaimsHold ==
    /\ \A w \in Workers : WorkerClaim(w)
    /\ \A s \in Streamers : StreamerClaim(s)

\* Two prep cycles never work on the same item, whatever the interleaving of
\* claims, crashes and re-queues (_claim_next_prep_item, "parallel workers do
\* not prepare the same row").
ExclusivePrep ==
    \A v, w \in Workers : Busy(v) /\ Busy(w) /\ wItem[v] = wItem[w] => v = w

\* Two streamers never hold the same item, from the locking SELECT to the end
\* of the cleanup (_claim_next_ready_item).
ExclusiveAir ==
    \A s, t \in Streamers : Holding(s) /\ Holding(t) /\ sItem[s] = sItem[t] => s = t

\* Whatever has been on air was prepared first and its preparation is never
\* reopened, not even by an operator re-queueing failed items.
AiredWasPrepared ==
    \A i \in Items : stream[i] # "queued" => prep[i] = "ready"

\* The approval gate: no worker, streamer or stale request touches an item of a
\* plan nobody has approved.
DraftUntouched ==
    \A i \in Items : planStatus[PlanOf[i]] = "draft" =>
        prep[i] = "queued" /\ stream[i] = "queued" /\ i \notin files

\* A plan that says ready has every item ready (the test at the end of
\* run_prep_cycle, made and acted on while other cycles keep running).
ReadyPlanComplete == \A p \in Plans : planStatus[p] = "ready" =>
    \A i \in Items : PlanOf[i] = p => prep[i] = "ready"

\* The rights gate of prepare_item: every asset that reaches a prepared file
\* was approved for stream at some time, cached session state notwithstanding.
OnlyVettedPrepared ==
    \A i \in Items : prep[i] = "ready" => Sources(i) \subseteq vetted

\* A ready item that still has to air has its prepared file, unless an
\* operator removed files: no cleanup takes the file of an unaired item.
ReadyHasFile ==
    used["remove"] = 0 =>
        \A i \in Items : prep[i] = "ready" /\ stream[i] = "queued" => i \in files

\* While nothing crashes, an item marked preparing has a worker on it and an
\* item marked streaming has a streamer on it: no status is left behind.
NoClaimLeftBehind ==
    used["crash"] = 0 =>
        \A i \in Items :
            /\ prep[i] = "preparing" => \E w \in Workers : Busy(w) /\ wItem[w] = i
            /\ stream[i] = "streaming" => \E s \in Streamers : Holding(s) /\ sItem[s] = i

\* Within a plan items air in sequence: when an item has gone on air, every
\* earlier one has too, unless it failed to prepare ("plays them in sequence"),
\* while nothing crashes or is re-queued.  It takes a single prep cycle: of two,
\* one may still be at an item when the other has the next one ready.
AirInOrder ==
    used["crash"] + used["requeue"] = 0 =>
        \A i, j \in Items :
            PlanOf[i] = PlanOf[j] /\ AirRank[i] < AirRank[j] /\ stream[j] # "queued" =>
                stream[i] # "queued" \/ prep[i] = "failed"

-----------------------------------------------------------------------------
(* What a step may never do.                                               *)

\* An item whose video is blocked does not go on air: USER_GUIDE, "blocked ->
\* rejected, will never be used".
BlockedNeverAirs ==
    [][\A i \in Items : stream[i] = "queued" /\ stream'[i] = "streaming"
                            => rights[VideoOf[i]] # "blocked"]_vars

-----------------------------------------------------------------------------
(* Liveness.                                                               *)

\* An approved plan is prepared to the end: it becomes ready, unless one of
\* its items failed, or went on air before the plan was ready.
PrepCompletes ==
    \A p \in Plans : planStatus[p] = "approved" ~>
        \/ planStatus[p] = "ready"
        \/ \E i \in Items : PlanOf[i] = p /\ (prep[i] = "failed" \/ stream[i] # "queued")

\* A ready item of a plan that may be on air is eventually aired, one way or
\* another, although claims skip rows that others have locked.
ReadyAirs ==
    \A i \in Items :
        planStatus[PlanOf[i]] \in OnAirStates /\ prep[i] = "ready" /\ stream[i] = "queued"
            ~> stream[i] \in {"completed", "failed", "skipped"}

\* USER_GUIDE: "Once a plan is approved, the prep worker automatically picks up
\* queued items": each item of an approved plan ends up ready or failed.
ApprovedIsPrepared ==
    \A i \in Items : planStatus[PlanOf[i]] = "approved" ~> prep[i] \in {"ready", "failed"}

-----------------------------------------------------------------------------
(* Refinement: the two status columns of an item are one phase of its      *)
(* life, and a plan is open once it has left draft.                        *)

Preparation ==
    [queued |-> "waiting", preparing |-> "preparing", ready |-> "playable", failed |-> "unusable"]

PhaseOf(i) == IF stream[i] = "queued" THEN Preparation[prep[i]]
              ELSE IF stream[i] = "streaming" THEN "onair"
              ELSE stream[i]

Promise == INSTANCE Broadcast
    WITH opened <- {p \in Plans : planStatus[p] # "draft"},
         phase  <- [i \in Items |-> PhaseOf(i)]

\* The claims, outcomes, crashes and repairs of all processes together keep the
\* promise of Broadcast.
KeepsPromise == Promise!Spec
=============================================================================
