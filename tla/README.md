# voulezvous in TLA+

voulezvous runs a television channel: it finds videos, plans days, prepares files with ffmpeg and
streams them around the clock. It is a handful of Python processes (an API, a prep worker, a streamer, a
director, a scheduler for acquisition) that share no memory and meet in one PostgreSQL database and
one spool directory. This directory models how they meet. Paths below are relative to
`src/src/voulezvous/` unless they say otherwise.

- [1. The system](#1-the-system): components, their state, what is hard, what must hold
- [2. The modules](#2-the-modules): how state and actions correspond to the code
- [3. The runs](#3-the-runs): what TLC checks, bounds, fairness, findings
- [4. The proofs](#4-the-proofs): what TLAPS proves and along which argument
- [5. Limits and plan](#5-limits-and-plan): what is not modelled, what comes next

## 1. The system

| Component | State | Operations | Talks to |
|---|---|---|---|
| Planner `services/planner.py` | plans and items (drafts) | `generate_plan` fills N hours with bumpers and videos | assets, plans; called by API, CLI, director |
| Approval `api/routers/plans.py` | `stream_plans.status` | `approve_plan` | plans |
| Rights review `api/routers/assets.py` | `library_assets.rights_status` | create, `update_asset` | assets |
| Preparation `services/prep_worker.py` | `prep_status`, plan status, prepared files, downloads | `run_prep_cycle`, `_claim_next_prep_item`, `prepare_item`, `_download_asset` | plans, items, assets, spool, ffmpeg |
| Streamer `services/streamer.py` | `stream_status`, plan status, asset play record, `streamer_state.running` | `run_streamer`, `_claim_next_ready_item`, `_play_item`, `_record_play`, `_cleanup_item` | plans, items, assets, spool, `stream_control` |
| Stream control `services/stream_control.py` | the row of `stream_control` | `get_or_create_stream_control`, `request_stream_start/stop`, `update_stream_runtime` | API, director, streamer |
| Director `services/director*.py` | `director_actions`, everything its tools touch | a tick: read the state, ask an LLM for at most five verbs, run them | all of the above |
| Orphan cleanup `services/cleanup.py` | spool/downloads | `cleanup_orphan_downloads` | assets, spool |
| Curator `acquisition/workers/curator.py` | lineups and their items | `generate_lineup`: shelf, cooldown, caps, overflow, buffers, reserve | candidates, enrichments |
| Bridge `acquisition/services/bridge.py` | assets and plans made from candidates and lineups | `promote_candidate_to_library_asset`, `emit_lineup_to_stream_plan` | candidates, assets, plans |
| Discovery `acquisition/workers/discovery*.py` | `discovery_runs`, `candidate_assets` | `run_discovery`, `run_discovery_simulated`, `run_user_discovery`: search, look up by page, add | keywords, domain policies, browser |
| Enrichment `acquisition/workers/enrichment.py` | `asset_enrichments` | `run_enrichment`: a batch, an LLM, one commit | candidates |
| Candidates API `acquisition/api/candidates.py` | `candidate_assets.rights_status` | `update_candidate` | candidates |
| Orchestrator `acquisition/workers/orchestrator.py` | keyword weights, approvals, errors of the day | `run_daily_orchestration`: nine steps that go on after a failed one, in one session | all of acquisition |
| Media IR compiler, reports `acquisition/workers/` | lineup status, one report per day | `compile_media_ir`, `generate_report` | lineups, everything (read only) |
| Library and media services, seed, web pages, CLI | derived rows | probe, show, start the above | read mostly |

**What is hard.** The processes interleave at every `await` and commit. Only the two claim queries
lock (`FOR UPDATE SKIP LOCKED` on an item joined with its plan); every other read-test-write (approval,
stream control, promotion, emission, reports) is unlocked. Sessions keep the objects they have loaded
(`expire_on_commit=False`), so a test may look at an old value. A process may die between any two
commits, and statuses such as `preparing` and `streaming` outlive it. Files and rows change separately,
and the spool is shared without locks. The orchestration runs nine jobs in one session: what a failed job has flushed
is committed by the next one, and after a database error every later statement of the session raises. `PROJECT.json` lists forty such hazards, each at its line.

**What makes each part correct.**

- *Preparation*: no item is prepared by two cycles; no file is made of an asset nobody approved; a plan
  says `ready` only when all its items are; an approved plan gets prepared; a claim does not outlive its
  worker.
- *Streamer*: an item airs at most once, only after its preparation, in sequence, with its file; each ready
  item is aired; a blocked asset is not.
- *Approval*: only drafts become approved, nothing moves before.
- *Stream control*: a stop stops, at the next poll at the latest; reports never undo requests; the status
  tells the truth once nobody changes his mind.
- *Spool*: ffmpeg never reads half a file; nothing that is needed is deleted; everything else goes.
- *Planner*: the items tile the day, no video follows itself, every video gets its turn, unhealthy ones
  are left out. *Play record*: every play is counted once.
- *Curator*: main items do not follow themselves, fill the hours without a gap, and come back early or too often only when
  the lineup says so. *Bridge*: a plan contains vetted candidates of its lineup in order; promotion never overrides
  a decision of the operator; requests that wait for each other come to an end.
- *Discovery*: one candidate per page, a run that counts what it has added, a budget of pages. *Enrichment*, *reports*: one row per
  candidate and per day, however many ask. *Orchestrator*: an answer that says success is true, whatever failed is said, blocks of the
  operator stay, and nobody waits for ever.

## 2. The modules

### Broadcast: the promise
What a viewer and an operator may rely on, without processes: a plan is opened, an item is prepared,
delivered, aired once, and leaves the air for good. Only an item whose preparation failed is tried
again. `Pipeline` implements it: `phase` is computed from the item's two status columns, `opened` is
"no longer draft".

### Pipeline: from the approved plan to the air
Rows: `planStatus`, `prep`, `stream`, `rights`; files: `files`; locks: `rowLock`; processes: `wpc/wItem`,
`spc/sItem`, `seen`, `touched`, `reads`; history: `vetted`, `used`.

- *A claim is two actions.* `PrepLock`/`AirLock` is the locking SELECT, `PrepCommit`/`AirCommit` writes
  the statuses and releases. Both queries join the plan, so they lock its row too: one lock per plan is
  enough, and a claimer skips all items of a locked plan.
- *What a session knows.* `seen[w]` is the identity map of a prep cycle. The assets of the previous item are
  still referenced by the loop and not refreshed when the next item shares them (`Load`); the rights gates
  `MayUse` test this copy.
- `Normalize`, `FinishItem` and `PrepareFails` are `prepare_item`: both rights gates, the jobs, the outcomes.
  `ClosePlan` is the loop over `touched_plan_ids` with its unconditional UPDATE, which waits for the row lock;
  counting the ready items and updating are one step, because ready items stay ready.
- `SkipMissing`, `StartPlay`, `PlayFails`, `PlayCompletes`, `PlayCompletesThenCleanup`, `CleanupItem` are
  `_play_item` and the prepared-file half of `_cleanup_item`. An exception after the `completed` commit
  leaves the item completed and the session unusable, as a crash does.
- `ApproveRead`/`ApproveCommit` is the endpoint with its unlocked test.
- Outside: `PatchRights` (the operator's review), `Requeue` and `RemovePrepared` (the RUNBOOK's repairs) and
  crashes of both kinds of process, after which PostgreSQL has rolled back and released their locks.

All plans exist as drafts from the start, and an asset may have any rights by the time its plan is approved.

### StreamControl: the switch
Nobody locks the one row of `stream_control`; everybody loads it, assigns attributes and commits, and
the ORM's UPDATE names only the columns that differ from the loaded values. `Get`, `Merge` and `Commit` model just
that; `Create` and `CallFails`/`StreamerFails` the insertion that two sessions may attempt. `Ask` covers
`request_stream_start`, `request_stream_stop` and the director's `start_stream`; `AskAgain` is the second commit
of `restart_streamer`. `StandDown`, `GoOn`, `Claim`, `Report`, `PlayEnds` are one pass of `run_streamer`, where every
`update_stream_runtime` is a fresh load and a commit of its own. Items appear (`BecomesReady`) as
Pipeline would make them.

### Spool: the downloads
A file is absent, whole, torn, or named by the worker whose writing it waits for: a rename moves the
file a process is writing, and this is how a torn file gets its final name. `StartFetch`, `Open`, `WriteEnds`,
`Replace`, `StorePath`, `FetchFails` are `_download_asset`; `CountActive`, `UnlinkDownload`, `ForgetPath` are
`_cleanup_download_if_unreferenced`, whose three steps are apart in the code; `StartSweep`, `SweepDownload`, `SweepPart`,
`EndSweep` are `cleanup_orphan_downloads`. `known` and `sKnown` are the paths as the sessions loaded them.
A claim is one step here, every item has `delete_after_stream` set, and unlink does not fail.

### Planner and Rotation: what is shown, and what is learnt from it
`Planner` is one call of `generate_plan`, one action per half of its loop: `AddBumper` (with the `break` when the bumper
completes the day) and `AddVideo` (`Pick`, the default durations, the re-shuffle in `Advance`). Both shuffles are any order, and the
order by health before the first one is lost in it. The call is one transaction, so its items appear with `Publish`.

`Rotation` extends it with the rows of the library and the streamer. `StartPlan` selects by rights and by health as the code reads
it (`HealthRead`: a zero is falsy). `Claim` loads the asset's row along with the item, `PlayEnds` commits how the item ended,
`RecordPlay` is `_record_play` on the loaded row, and `Merge` the UPDATE, which names the columns that differ from what was loaded. Health is in
thousandths. `Review` is the operator's PATCH. Published items are simply aired in order, without their preparation. `Booked` says what a
row should be after a given list of plays: rows begin that way, and `RecordIsTrue` says that they stay so. The play record of a crashed
play is missing, as in the code; a failing commit is not modelled.

### Curator and Lineups: from candidates to draft plans
`Curator` is one call of `generate_lineup`, one action per half of its loop. `AddBuffer` is the buffer, which counts neither as a use nor for the cooldown;
`ChooseUsable` and `ChooseOverflow` are the two ways to find the next main item, and `AddMain` what they share: the item is clipped
to the rest of the day. The score weighs hour, risk and earlier uses; it only orders the candidates, so any usable one may come
first. In an overflow all scores are equal and the sort is stable, so that it is the newest one but the previous. `relaxed` has the slots
chosen that way, the flag `overflow_repeats_used` is that it is not empty.

`Lineups` extends it with candidates, assets, lineups, plans and the requests that work on them. A request is one transaction: `own` and `tied` are
the sources it has inserted and the candidates it has linked without having committed. `LookUp`, `Insert` and `Link` are the three statements of
`promote_candidate_to_library_asset` at which another request may come in between; `SkipCandidate` and `AlreadyPromoted` are its early ends, `SkipBuffer` passes over
a row that is no content. An `INSERT` waits for whoever is
inserting the same source and, should that one commit, goes on with its asset (the `IntegrityError` branch); an `UPDATE` waits for whoever has
updated the candidate. `DeadlockVictim` is PostgreSQL ending a circle of waiting requests. `CommitPlan` and `NothingToEmit` end an emission,
`Answer` a promotion on its own: the endpoint never commits, so that this is a rollback. An emission of a lineup that already has a plan
changes nothing and is left out; two that began before either committed both make a plan. Planned times are not carried into the plan.

### Acquisition, Discovery and Daily: what is found, and the day of the orchestration
`Acquisition` has the tables and the sessions. A session serves a call, a command or an orchestration; `kind` says which, and it is cast for it
in the beginning. `added`, `run`, `locked`, `tuned` are what it has written and not committed: its queries see that (`Visible`, by autoflush), nobody
else's do. `Commit` and `Rollback` are the two ends of a transaction. `Succeeds`, `Raises` and `IsRefused` are the three ends of a job: the second leaves what was
written pending, for whatever the session commits next, and the third leaves the session `broken`, in which `Collapse` is the only step. `Breaks` does
that to any statement, `Dies` ends the process. `Following` is the order of the jobs (reading yesterday's report is part of `adjust`); polish and compile are passed over
without a lineup (`PassOver`).

`Discovery` has the three ways to find candidates. A candidate is known by the session that inserted it and by the link it was found through; two links
may lead to one page. `New`, `Skipped` and `Ambiguous` are the look-up: `scalar_one_or_none` raises when it finds two. `OpenSite`, `Search`, `PassBy`, `Inspect`,
`StopListing`, `LeaveSite` are the loops of `run_discovery` with their budget; `Ambiguous` ends the site there, and the whole run in `SimulateRaises`. `ProfileCommit` and
`ProfileRecord` are the two commits of a creator's discovery, between which the browser is closed. What the browser gives is a choice: whether it
starts (`Launches`), whether a page loads (`Loads`), what it lists (`Listings`), and whether it shows an authorized retrieval (`Shown`).

`Daily` has the rest. A changed weight (`AdjustWeight`) reaches its row with the next query or the final flush (`AdjustFlush`), which waits for whoever has adjusted
before and holds the rows until the next commit, also when the step raises at a later keyword (`AdjustRaises`). `EnrichSelect`/`EnrichCommit`, `ApproveSelect`/`ApproveFlush` and
`ReportRead`/`ReportWrite` are read and write with an `await` in between; `EnrichRefused` and `ReportRefused` are the unique columns. The lineup is composed
in `Lineups` and is only there or not here; `Shelf` decides whether it is: retrieval, rights, how the candidate came about (`OnShelf`) and a duration. `Decide` is the operator's PATCH of a candidate. The history variables `known` (what was committed when a
discovery began) and `vetoed` (blocked while nobody had it in hand) exist for the properties alone.

### MC modules
`MCPipeline`, `MCStreamControl`, `MCSpool`, `MCRotation`, `MCLineups`, `MCDaily` give the functions from items to plans, assets and ranks, and from links to sites and pages, their values;
plans, items and processes are model values in the .cfg files. Symmetry is not used: sequence and time break that of the
items, and the instances with two workers or streamers are small enough.

## 3. The runs

| Run | Instance | Shows |
|---|---|---|
| `pipeline_safety` | 1 plan, 2 items sharing a video (one with music), 2 prep cycles, 2 streamers, 2 requests; one crash, review, re-queue, removal | `ExclusivePrep`, `ExclusiveAir`, `ReadyPlanComplete`, `OnlyVettedPrepared`, `ReadyHasFile`, `NoClaimLeftBehind`, and the refinement `KeepsPromise` |
| `pipeline_air` | 2 plans interleaved in time, 3 items, 1 cycle, 2 streamers, 1 request; one re-queue, one removal | `AirInOrder`, `ReadyAirs`, `PrepCompletes` |
| `control` | start, stop, director's restart, 2 items, 1 crash | `AtMostOneLate`, `StatusSettles`, `WantedIsAired` |
| `spool` | 1 worker, streamer, sweep; 3 items sharing a video, one with music, one planned late; one of each outside event | `SourceIsWhole`, `NeededIsKept`, `NoOrphan`, `DownloadsGo` |
| `rotation` | 3 videos (one without duration, one with a bad past) and a bumper, one plan of 12 seconds, health over 4 plays, 2 plays, 1 review, 1 crash | `TilesDay`, `NoRepeat`, `EveryVideoInTurn`, `PlanEnds`, `RecordIsTrue`, `ReviewStands` |
| `lineups` | 3 candidates of 2 sources, 2 of them approved; one lineup of 13 seconds, a buffer every 3 items, cooldown 3, 1 repeat; 2 archived lineups, one with a candidate nobody approves any more; 2 requests; one outside event | `FillsTarget`, `NoMonotony`, `EmittedIsVetted`, `RightsAreKept`, `LineupEnds`, `RequestsEnd` |
| `daily` | 2 sessions in 6 pairs: an orchestration beside an orchestration, a browsing run, a creator's discovery, an enrichment, a report; a browsing run beside a simulated one. 4 links of 2 sites, 2 of them one page, one excluded, two authorized, both timed, one of them long; 2 pages per site, 2 keywords; one fault or decision | `PagesOnce`, `RunsTell`, `SuccessIsTrue`, `BlocksLast`, `SessionsEnd` |

*Why the bounds are enough.* The conflicts are between two claimers of the same row, so two of each kind reach
all of them; the items of one plan share its lock, so more plans only add independent copies, except for order in
time, which has its own run. Two items sharing a video are what caching and reference counting need, a third (planned
late) is what stale counting needs. Each outside event may happen once, at any moment, which is every single fault
and every pair of different ones. The planned day is long enough for several rounds of three videos, with a re-shuffle after each, and the window
is shorter than some pasts. The lineup needs overflow with one or two candidates, has two buffers, and in some orders the
second buffer completes the day just before the last item. Two requests with lineups that contain the two sources in opposite order wait
for each other. Two sessions of acquisition suffice for everything that two transactions do to each other, in the pairs that meet in a table, and a
third only waits longer; two links with one page, one of them unknown to the simulated run, give known, doubled and new pages; the budget is smaller
than two searches with their hits. `Limit` (Pipeline, Spool, Rotation, Lineups, Daily), `Crashes` and the sets of calls (StreamControl) are the only bounds.

*Fairness.* `WF` on the steps of every worker and streamer: Docker restarts the containers (`restart:
unless-stopped` in `src/docker-compose.yml`) and their loops never end. A request that has read its plan commits,
a call of `generate_plan` or `generate_lineup` goes on: nothing in their loops waits. A request of the bridge goes on when it does not wait, and
PostgreSQL ends a deadlock within `deadlock_timeout` (`WF_vars(RequestStep(r))`).
A session of acquisition that has begun goes on (`WF_vars(Proceeds(s))`): the browser, the LLM and the database answer or time out; when it waits
for rows of another session the step is not enabled, and that one goes on.
Nobody has to approve, review, call, plan or repair anything. No run assumes strong fairness.

*Conditional properties.* `ReadyHasFile` excludes operators removing files, `NoClaimLeftBehind` crashes, `AirInOrder` crashes and re-queues,
`NeededIsKept`, `NoOrphan`, `DownloadsGo` late plans, re-queues and sweeps: each is false otherwise, for the reason its
comment gives, and each is checked in a run where the excluded events do happen; only crashes do not happen in `pipeline_air`,
because `ReadyAirs` and `PrepCompletes` do not survive one. `RecordIsTrue` excludes
crashes, and speaks of one streamer: two that end items of one asset together lose one of the plays. `AirInOrder` speaks of one prep cycle:
of two, the faster one makes a later item ready first.
`PagesOnce` leaves two runs alone that both began before the other committed: these do add a page twice. `BlocksLast` leaves a block alone
that is decided between the selection and the flush of an approval: that one is lost. `RunsTell` admits a run that says running for ever, when
an orchestration has reported that its discovery failed.

*Deadlock* is not checked where the system may stop: `rotation`, `lineups` and `daily` end when nobody plans or asks any more and everything is aired or said.

### Findings

| Run | What the code does | Who says otherwise |
|---|---|---|
| `pipeline_blocked` | an asset blocked after preparation is still aired: the streamer's claim does not look at rights | USER_GUIDE.md:129 |
| `pipeline_starved` | the first ready item to air turns its plan from `preparing` into `streaming`, which the prep claim no longer accepts: the rest of the plan is never prepared | USER_GUIDE.md:88 |
| `control_lost_stop` | a stop that loaded the row before a start was committed writes no `desired_running` and stops nothing | README.md:133 |
| `spool_torn` | two cycles downloading one video share its `.part`; one publishes what the other is still writing | USER_GUIDE.md:91 |
| `rotation_quarantine` | a video that always fails has health 0, which `or 1.0` reads as perfect: it is never quarantined | GUIA_DO_USUARIO.md:200 |

More disagreements need no run, because one step shows them.

- A promotion by the endpoint is never committed (`acquisition/api/bridge.py:50`), although GUIA_DO_USUARIO.md:119 says that it creates the asset.
- An item whose prep worker dies stays `preparing` until an operator re-queues it.
- A lineup's last item has a zero or negative length when a buffer has completed the day before it (`curator.py:207`): `FillsTarget` says when.
- Every tick of the director fails before it acts: its prompt is filled by `str.format`, and the JSON example in it has braces that are not
  escaped (`services/director.py:13`, `:15`). The verbs are modelled as their functions stand.
- The orchestration approves candidates by itself (`orchestrator.py:94`); GUIA_DO_USUARIO.md:208 says that the system does not. It also overrides a block decided
  between its SELECT and its flush (GUIA_DO_USUARIO.md:117).
- An orchestration that crashed and is started again adjusts the same keywords by the same report once more (`orchestrator.py:70`), its
  first lines say "Restart-safe".
- Two emissions of one lineup make two plans when neither has seen the other's (`bridge.py:182`). The pulse of `tool_restart_streamer` is over before a
  streamer that polls every two seconds may see it (`director_tools.py:46`).
- `total_found` of a creator's run counts the links it has begun with, also the one at which the browser failed (`discovery_adult.py:52`); in the other
  discoveries it is the number of candidates. `found` in the model is that number: `total_added` here, `total_found` there.

## 4. The proofs

`Spec => []P` for every number of plans, items, assets, workers, streamers, calls and events, from the named assumptions on the
constants (`PipelineAssumption`, `StreamControlAssumption`, `SpoolAssumption`,
`PlannerAssumption`, `RotationAssumption`, `CuratorAssumption`, `LineupsAssumption`, `AcquisitionAssumption`).

- **PipelineProofs.** The invariant is `Inductive` = `TypeOK` /\ `ClaimsHold` /\ `ExclusivePrep` /\ `ExclusiveAir` /\
  `AiredWasPrepared`. None of the four is inductive alone. Two claimers cannot meet because the first changed the
  status the second's query tests (`ClaimsHold`), which stays true only because nobody else holds the item (`Exclusive*`);
  a re-queue spares aired items because they are ready (`AiredWasPrepared`), and ready items stay ready because no
  worker is on them. From it follow `Typing`, `ClaimsAlwaysHold`, `PrepIsExclusive`, `AirIsExclusive`, `PreparedBeforeAir`,
  then `DraftsStayUntouched`, `ReadyPlansAreComplete`, and the refinement `PipelineKeepsPromise`: every action is an action
  of Broadcast or a stutter.
- **PipelineGateProofs.** `OnlyVettedIsPrepared` needs `Believed`: what a session believes approved has been approved
  at some time, and the video of a normalized item too. `ReadyItemsHaveFiles` and `NoClaimIsLeftBehind` complete the list: every
  safety invariant of `pipeline_safety` is a theorem. `LoneCycleAirsInOrder` takes a single prep cycle (`OneCycle`) and a plan whose numbers agree with
  its times (`InSequence`; `PlansRunForward` says that the planner makes them so). Its invariant is `Ordered`: an item is claimed for preparation only when
  all earlier items of its plan are prepared or failed, and for airing only when all earlier ones are gone, which no session can undo while nobody crashes or
  re-queues. `LocksAreShort` says that a row lock belongs to a claimer at its commit. `UnreviewedAirIsApproved` says what `pipeline_blocked` needs:
  without a review everything on air is approved.
- **StreamControlProofs.** `Inductive` = `TypeOK` /\ `Placed` /\ `Counted`: where every session may be, and that a second late
  claim would need a poll that loaded a row still wanting the channel (`Licensed`). `StopIsPrompt` and `ReportsDecideNothing`
  follow. When no two calls overlap (`OneAtATime`), what a call has loaded is what is wanted, since no report changes it (`Informed`), whence
  `CallsAreObeyed` and `LoneStopStops`: the stop that `control_lost_stop` loses needs a start beside it.
- **SpoolProofs.** `Typing`, and `ApartWorkersReadWhole`: as long as no two workers fetch one asset at once (`FetchApart`) no source is ever read torn,
  from `NamesWhole`: what bears a final name is whole, and a `.part` bears its writer's name until the writing ends. `spool_torn` shows why the condition is needed.
  `LoneWorkerReadsWhole` and `DisjointItemsReadWhole` are the two ways to keep it: one worker, or items that share no source
  (`ClaimsHold`: an item is with one worker). `NeededStays` and
  `NothingOrphaned` hold with any number of workers, where no asset is both a video and music (`NoVideoIsMusic`; the planner takes each
  by its kind): an item in preparation has one worker, which treats one of its sources (`Claimed`); what the streamer has found
  unreferenced is the video of no item still to be prepared (`Doomed`), so that neither its deletion nor its late write of the path meets a worker
  that needs it (`Kept`, `Referenced`).
- **RotationProofs.** First the planner: `Planned` = `Sorted` /\ `TilesDay` /\ `Remembered` /\ `NoRepeat`: the order is an enumeration of
  the pool and never empty (`Sorted`), and `last` is the last video of the items (`Remembered`), so that the skip in `Pick` is enough. A step
  of Rotation is a step of Planner or leaves the plan alone (`RotationPlansAsPlanner`), whence `PlansTileTheDay` and `PlansRepeatNothing`.
  `EveryVideoGetsItsTurn` needs `Turning`: for how many videos one can have been absent follows from its place in the order (`Wait`): if the order has passed it, from
  how far; if not, it was in the order before, where it may have been first. So nobody waits longer than 2n-2. `PlansRunForward` and
  `PlansEndInTime` say that every item adds time, so that numbers and times agree and the loop ends. `Typing` needs the
  arithmetic of rounding: a share is at most 1000. `ReviewsAreNotUndone` follows from the types, and `LoneStreamerBooksTrue` from `Lone`: outside a
  booking every row is true, and the one streamer's copy differs from it by reviews only.
- **CuratorProofs** and **LineupsProofs.** `Composed` = `Filling` /\ `NoMonotony` /\ `Cooling` /\ `Counted` /\ `RelaxingIsReported`: the previous main item is the last item, or the
  last but one behind a buffer (`Remembered`); what a main item used is still cooling down unless an overflow has cleared it since (`Cooling`), and
  the uses are counted (`Counted`). A step of Lineups is a step of Curator or leaves the call alone (`LineupsComposeAsCurator`), whence `LineupsFillTheDay`, `NobodyFollowsHimself`, `OverflowIsReported`.
  `LineupsComeToAnEnd` adds that the loop never stands, because of any candidates there is a newest (a well-founded minimum), which an overflow can choose, and that each pass but the last adds time.
  `Sound` says of every request that the row at hand is vetted (`AtHand`) and that what it has linked exists and what it has inserted has
  no other owner (`Linked`): two inserts cannot both win, since the second waits. `Typing`, `LinksAlwaysHold` and `ReviewsAreKept` follow.
  `EmittedPlansAreVetted` needs `Underway`: what a request has taken so far are vetted main items among the rows it has left behind, in order,
  and their assets are visible to it.
- **DailyProofs.** All safety properties of `daily`, for any number of sessions, however they are cast, with any number of faults and decisions. `Typing` needs that a session is
  at a job of its own (`Placed`). `PagesAddedOnce` from `Apart`, which is PagesOnce with the candidates that are not committed: what a session
  knew was committed, and before its discovery it has added nothing. `RunsTellTruth` from `Counts`: what a session counts is what it would commit, and its
  run is `running` only while it discovers or after a failure it reports; a rolled-back session counts no more. `SuccessHolds` from `Achieves`:
  what is done when a job is reached, as long as nothing has failed, job by job; `NothingUndone` says of the steps of the others that they take none of it away.
  `BlockStays` from `Vetoed`: no session has a blocked candidate in hand. The rows a session holds follow from where it is (`Held`): keywords until discovery or
  enrichment commits, candidates until the approval does. So a session that another one waits for waits for nobody (`NoChainOfWaits`), and a session that is
  over, dead or broken holds nothing (`RowsAreGivenBack`).

Only model-checked: everything temporal under fairness (`ReadyAirs`, `PrepCompletes`, `StatusSettles`, `WantedIsAired`,
`DownloadsGo`, `PlanEnds`, `LineupEnds`, `RequestsEnd`, `SessionsEnd`), because the prover has neither fairness nor `ENABLED`. What they need of safety is proved
where it is not evident: `PlansEndInTime` for `PlanEnds`, `LineupsComeToAnEnd` for `LineupEnds`, `NoChainOfWaits` and `RowsAreGivenBack` for `SessionsEnd`, `LocksAreShort` for
`PrepCompletes` and `ReadyAirs`. That a shuffle of the pool and a sort by age exist is induction over the number of candidates: TLC only.

Every safety and action property of the passing runs is a theorem; two of them, `AirInOrder` and `RecordIsTrue`, for a single cycle and a single streamer, and
`SourceIsWhole`, `NeededIsKept`, `NoOrphan` under the conditions named above. Theorems without a run are what the others rest on, or say where a finding can come from: `PreparedBeforeAir`,
`ClaimsAlwaysHold`, `DraftsStayUntouched`, `LocksAreShort`, `UnreviewedAirIsApproved`, `ReportsDecideNothing`, `CallsAreObeyed`, `LoneStopStops`, `RotationPlansAsPlanner`, `PlansRunForward`, `PlansEndInTime`,
`LinksAlwaysHold`, `OverflowIsReported`, `LineupsComposeAsCurator`, `LineupsComeToAnEnd`, `NoChainOfWaits`, `RowsAreGivenBack`.

## 5. Limits and plan

Not modelled: ffmpeg, R2, the browser and the LLM beyond their success or failure; `prep_jobs` and `stream_events` (logs); the
columns no decision reads (sizes, checksums, notes, titles, tags, quality signals); pages and counters that only read; `seed.py`. The wall clock appears
only as the order of planned times: the streamer does not wait for `planned_start_at`. The director's tick is not modelled, because at this commit it
never gets past its prompt; what its verbs do is part of `StreamControl`, `Spool`, `Rotation` and `Lineups`. The content of reports and compiled
documents is data nobody decides by. Keywords and domain policies are constants of `Acquisition`: the API edits one row of them at a time.

In `Daily` the candidates of a session never change page, retrieval or discovery status (the API's PATCH of `discovery_status` is left out), the weights of
keywords are not kept (only who holds their rows, all of them as one lock), and an orchestration works for one day.

Next, in this order:

1. **More proofs**: that a circle of waiting requests in `Lineups` consists of requests that are alive and that ending one frees another; that two streamers which
   never end items of one asset together keep `RecordIsTrue`.
2. **The director's tick** once its prompt works: up to five verbs in one session, one of which may leave it broken for the rest.
3. **Candidates across both sides**: `Daily` and `Lineups` joined, so that a lineup is composed while candidates are discovered and decided.
