-------------------------- MODULE PipelineGateProofs --------------------------
(***************************************************************************)
(* More proofs about Pipeline, resting on the inductive invariant of       *)
(* PipelineProofs: the rights gate, the prepared files, that no status is  *)
(* left behind while nothing crashes, that a single prep cycle makes the   *)
(* items of a plan air in order, that every row lock has a holder about to *)
(* commit, and that without a review nothing unapproved airs.              *)
(***************************************************************************)
EXTENDS PipelineProofs

-----------------------------------------------------------------------------
(* The rights gate.                                                        *)

\* What a session believes to be approved was approved at some time, and a
\* worker that has normalized an item has believed so of its video.
Believed ==
    /\ \A a \in Assets : rights[a] = "approved_for_stream" => a \in vetted
    /\ \A w \in Workers, a \in Assets : MayUse(w, a) => a \in vetted
    /\ \A w \in Workers : wpc[w] = "normalized" => VideoOf[wItem[w]] \in vetted

Gated == Believed /\ OnlyVettedPrepared

\* The sources of an item are assets: its video and perhaps its music.
LEMMA SourcesOf ==
  ASSUME NEW i \in Items
  PROVE  /\ VideoOf[i] \in Assets
         /\ Sources(i) = {VideoOf[i]} \union Soundtrack(i)
         /\ Soundtrack(i) \subseteq Assets
  BY PipelineAssumption DEF Sources, Soundtrack

\* A prep worker lets only vetted assets pass.
LEMMA WorkerKeepsGated ==
  ASSUME Inductive, Gated, NEW w \in Workers, WorkerStep(w)
  PROVE  Gated'
<1> USE DEF Inductive, TypeOK, Gated, Believed, MayUse, notWorkers, outsideVars
<1>1. WorkerClaim(w)
  BY DEF ClaimsHold
<1>2. ASSUME NEW i \in Items, PrepLock(w, i) PROVE Gated'
  <2>1. \A v \in Workers, a \in Assets : MayUse(v, a)' => a \in vetted
    BY <1>2 DEF PrepLock, Load, Unread
  <2> QED BY <1>2, <2>1 DEF PrepLock, OnlyVettedPrepared
<1>3. CASE PrepCommit(w)
  BY <1>3 DEF PrepCommit, OnlyVettedPrepared
<1>4. CASE NothingToPrepare(w)
  BY <1>4 DEF NothingToPrepare, NothingSeen, Unread, OnlyVettedPrepared
<1>5. CASE Normalize(w)
  <2>1. VideoOf[wItem[w]] \in vetted
    BY <1>1, <1>5, SourcesOf DEF Normalize, WorkerClaim, Busy
  <2> QED BY <1>5, <2>1 DEF Normalize, OnlyVettedPrepared
<1>6. CASE FinishItem(w)
  <2>1. wItem[w] \in Items
    BY <1>1, <1>6 DEF FinishItem, WorkerClaim, Busy
  <2>2. Sources(wItem[w]) \subseteq vetted
    BY <1>6, <2>1, SourcesOf DEF FinishItem
  <2>3. OnlyVettedPrepared'
    BY <1>6, <2>1, <2>2 DEF FinishItem, OnlyVettedPrepared
  <2> QED BY <1>6, <2>3 DEF FinishItem
<1>7. CASE PrepareFails(w)
  BY <1>7 DEF PrepareFails, Failed, OnlyVettedPrepared
<1>8. ASSUME NEW p \in Plans, ClosePlan(w, p) PROVE Gated'
  BY <1>8 DEF ClosePlan, OnlyVettedPrepared
<1>9. CASE EndCycle(w)
  BY <1>9 DEF EndCycle, OnlyVettedPrepared
<1> QED BY <1>2, <1>3, <1>4, <1>5, <1>6, <1>7, <1>8, <1>9 DEF WorkerStep

\* Everybody else leaves the workers' beliefs alone, and a review only adds to
\* what was ever approved.
LEMMA OthersKeepGated ==
  ASSUME Inductive, Gated,
         (\E s \in Streamers : StreamerStep(s)) \/ (\E r \in Requests : RequestStep(r)) \/ Outside
  PROVE  Gated'
<1> USE DEF Inductive, TypeOK, Gated, Believed, MayUse, OnlyVettedPrepared
<1>1. ASSUME NEW s \in Streamers, StreamerStep(s) PROVE Gated'
  <2>1. UNCHANGED <<prep, workerVars, rights, vetted>>
    BY <1>1 DEF StreamerStep, AirLock, AirCommit, SkipMissing, StartPlay, PlayFails,
                PlayCompletes, PlayCompletesThenCleanup, CleanupItem, Leaves, notStreamers,
                outsideVars
  <2> QED BY <2>1 DEF workerVars
<1>2. ASSUME NEW r \in Requests, RequestStep(r) PROVE Gated'
  BY <1>2 DEF RequestStep, ApproveRead, ApproveCommit, workerVars, outsideVars
<1>3. ASSUME NEW a \in Assets, NEW status \in Rights, PatchRights(a, status) PROVE Gated'
  BY <1>3 DEF PatchRights, workerVars
<1>4. ASSUME NEW i \in Items, Requeue(i) \/ RemovePrepared(i) PROVE Gated'
  BY <1>4 DEF Requeue, RemovePrepared, workerVars
<1>5. ASSUME NEW w \in Workers, WorkerCrash(w) PROVE Gated'
  BY <1>5 DEF WorkerCrash, Crash, NothingSeen, Unread
<1>6. ASSUME NEW s \in Streamers, StreamerCrash(s) PROVE Gated'
  BY <1>6 DEF StreamerCrash, Crash, workerVars
<1> QED BY <1>1, <1>2, <1>3, <1>4, <1>5, <1>6 DEF Outside

\* Every asset that reaches a prepared file was approved at some time, although
\* the gate may test the cached rights of an earlier item's session.
THEOREM OnlyVettedIsPrepared == Spec => []OnlyVettedPrepared
<1>1. Init => Gated
  BY DEF Init, Gated, Believed, MayUse, NothingSeen, Unread, OnlyVettedPrepared
<1>2. Inductive /\ Gated /\ [Next]_vars => Gated'
  <2> SUFFICES ASSUME Inductive, Gated, [Next]_vars PROVE Gated'
    OBVIOUS
  <2>1. CASE UNCHANGED vars
    BY <2>1 DEF vars, workerVars, outsideVars, Gated, Believed, MayUse, OnlyVettedPrepared
  <2> QED BY <2>1, WorkerKeepsGated, OthersKeepGated DEF Next
<1>3. Gated => OnlyVettedPrepared
  BY DEF Gated
<1> QED BY <1>1, <1>2, <1>3, InductiveHolds, PTL DEF Spec

-----------------------------------------------------------------------------
(* The prepared files.                                                     *)

\* An item that has left the queue of the air never returns to it.
LEMMA NeverQueuedAgain ==
  ASSUME Inductive, Next, NEW i \in Items, stream[i] # "queued"
  PROVE  stream'[i] # "queued"
<1> USE DEF Inductive, TypeOK
<1>1. ASSUME NEW w \in Workers, WorkerStep(w) PROVE stream' = stream
  BY <1>1, WorkerEffect
<1>2. ASSUME NEW s \in Streamers, StreamerStep(s) PROVE stream'[i] # "queued"
  BY <1>2 DEF StreamerStep, AirLock, AirCommit, SkipMissing, StartPlay, PlayFails, PlayCompletes,
              PlayCompletesThenCleanup, CleanupItem, Leaves, Settled
<1>3. ASSUME (\E r \in Requests : RequestStep(r)) \/ Outside PROVE stream' = stream
  BY <1>3 DEF RequestStep, ApproveRead, ApproveCommit, Outside, PatchRights, Requeue,
              RemovePrepared, WorkerCrash, StreamerCrash, Crash
<1> QED BY <1>1, <1>2, <1>3 DEF Next

\* A worker that makes an item ready has written its file, and deletes none.
LEMMA WorkerKeepsFiles ==
  ASSUME Inductive, NEW w \in Workers, WorkerStep(w)
  PROVE  /\ files \subseteq files'
         /\ used' = used
         /\ \A i \in Items : prep'[i] = "ready" => prep[i] = "ready" \/ i \in files'
<1> USE DEF Inductive, TypeOK, notWorkers, outsideVars
<1>1. CASE PrepCommit(w)
  BY <1>1 DEF PrepCommit
<1>2. CASE FinishItem(w)
  BY <1>2 DEF FinishItem
<1>3. CASE PrepareFails(w)
  BY <1>3 DEF PrepareFails, Failed
<1> QED BY <1>1, <1>2, <1>3
        DEF WorkerStep, PrepLock, NothingToPrepare, Normalize, ClosePlan, EndCycle

\* Every step keeps the files of ready items that still have to air.
LEMMA KeepsReadyHasFile ==
  ASSUME Inductive, ReadyHasFile, Next
  PROVE  ReadyHasFile'
<1> SUFFICES ASSUME used'["remove"] = 0,
                    NEW i \in Items, prep'[i] = "ready", stream'[i] = "queued"
             PROVE  i \in files'
  BY DEF ReadyHasFile
<1> USE DEF ReadyHasFile
<1>1. stream[i] = "queued"
  BY NeverQueuedAgain
<1>2. ASSUME NEW w \in Workers, WorkerStep(w) PROVE i \in files'
  BY <1>1, <1>2, WorkerKeepsFiles
<1>3. ASSUME NEW s \in Streamers, StreamerStep(s) PROVE i \in files'
  <2>1. used' = used
    BY <1>3 DEF StreamerStep, AirLock, AirCommit, SkipMissing, StartPlay, PlayFails,
                PlayCompletes, PlayCompletesThenCleanup, CleanupItem, Leaves, notStreamers,
                outsideVars
  <2> QED BY <1>1, <1>3, <2>1, StreamerEffect
<1>4. ASSUME NEW r \in Requests, RequestStep(r) PROVE i \in files'
  BY <1>1, <1>4 DEF RequestStep, ApproveRead, ApproveCommit, outsideVars
<1>5. CASE Outside
  <2>1. ASSUME NEW j \in Items, RemovePrepared(j) PROVE FALSE
    BY <2>1 DEF RemovePrepared, Happens, Inductive, TypeOK, External
  <2>2. ASSUME NEW j \in Items, Requeue(j) PROVE i \in files'
    BY <1>1, <2>2 DEF Requeue, Happens, Inductive, TypeOK, External
  <2>3. ASSUME NEW a \in Assets, NEW status \in Rights, PatchRights(a, status)
        PROVE  i \in files'
    BY <1>1, <2>3 DEF PatchRights, Happens, Inductive, TypeOK, External
  <2>4. ASSUME NEW x, Crash(x) PROVE i \in files'
    BY <1>1, <2>4 DEF Crash, Happens, Inductive, TypeOK, External
  <2> QED BY <1>5, <2>1, <2>2, <2>3, <2>4 DEF Outside, WorkerCrash, StreamerCrash
<1> QED BY <1>2, <1>3, <1>4, <1>5 DEF Next

\* No cleanup takes the file of an item that still has to air.
THEOREM ReadyItemsHaveFiles == Spec => []ReadyHasFile
<1>1. Init => ReadyHasFile
  BY DEF Init, ReadyHasFile
<1>2. Inductive /\ ReadyHasFile /\ [Next]_vars => ReadyHasFile'
  BY KeepsReadyHasFile DEF vars, outsideVars, ReadyHasFile
<1> QED BY <1>1, <1>2, InductiveHolds, PTL DEF Spec

-----------------------------------------------------------------------------
(* No status is left behind.                                               *)

\* What a status says somebody is doing, somebody is doing.
Prepared(i) == prep[i] = "preparing" => \E w \in Workers : Busy(w) /\ wItem[w] = i
OnAir(i)    == stream[i] = "streaming" => \E s \in Streamers : Holding(s) /\ sItem[s] = i

\* A worker leaves no item preparing when it turns to another one.
LEMMA WorkerLeavesNone ==
  ASSUME Inductive, NEW w \in Workers, WorkerStep(w), NEW i \in Items, Prepared(i), OnAir(i)
  PROVE  Prepared(i)' /\ OnAir(i)'
<1> USE DEF Inductive, TypeOK, Prepared, Busy, notWorkers, streamVars
<1>1. OnAir(i)'
  BY WorkerEffect
     DEF OnAir, Holding, WorkerStep, PrepLock, PrepCommit, NothingToPrepare, Normalize, FinishItem,
         PrepareFails, ClosePlan, EndCycle
<1>2. ASSUME NEW v \in Workers, Busy(v), wItem[v] = i, prep'[i] = "preparing"
      PROVE  (Busy(v) /\ wItem[v] = i)'
  <2>1. CASE v = w
    BY <1>2, <2>1 DEF WorkerStep, PrepLock, PrepCommit, NothingToPrepare, Normalize, FinishItem,
                      PrepareFails, Failed, ClosePlan, EndCycle
  <2>2. CASE v # w
    BY <1>2, <2>2 DEF WorkerStep, PrepLock, PrepCommit, NothingToPrepare, Normalize, FinishItem,
                      PrepareFails, Failed, ClosePlan, EndCycle
  <2> QED BY <2>1, <2>2
<1>3. ASSUME prep[i] # "preparing", prep'[i] = "preparing"
      PROVE  (Busy(w) /\ wItem[w] = i)'
  BY <1>3 DEF WorkerStep, PrepLock, PrepCommit, NothingToPrepare, Normalize, FinishItem,
              PrepareFails, Failed, ClosePlan, EndCycle
<1>4. Prepared(i)'
  BY <1>2, <1>3
<1> QED BY <1>1, <1>4

\* A streamer leaves no item streaming when it polls again.
LEMMA StreamerLeavesNone ==
  ASSUME Inductive, NEW s \in Streamers, StreamerStep(s), NEW i \in Items, Prepared(i), OnAir(i)
  PROVE  Prepared(i)' /\ OnAir(i)'
<1> USE DEF Inductive, TypeOK, OnAir, Holding, notStreamers, workerVars
<1>1. Prepared(i)'
  BY DEF Prepared, Busy, StreamerStep, AirLock, AirCommit, SkipMissing, StartPlay, PlayFails,
         PlayCompletes, PlayCompletesThenCleanup, CleanupItem, Leaves
<1>2. ASSUME NEW t \in Streamers, Holding(t), sItem[t] = i, stream'[i] = "streaming"
      PROVE  (Holding(t) /\ sItem[t] = i)'
  <2>1. StreamerClaim(s)
    BY DEF ClaimsHold
  <2>2. CASE t = s
    BY <1>2, <2>1, <2>2
       DEF StreamerStep, AirLock, AirCommit, SkipMissing, StartPlay, PlayFails, PlayCompletes,
           PlayCompletesThenCleanup, CleanupItem, Leaves, Settled, StreamerClaim
  <2>3. CASE t # s
    BY <1>2, <2>3
       DEF StreamerStep, AirLock, AirCommit, SkipMissing, StartPlay, PlayFails, PlayCompletes,
           PlayCompletesThenCleanup, CleanupItem, Leaves
  <2> QED BY <2>2, <2>3
<1>3. ASSUME stream[i] # "streaming", stream'[i] = "streaming"
      PROVE  (Holding(s) /\ sItem[s] = i)'
  BY <1>3 DEF StreamerStep, AirLock, AirCommit, SkipMissing, StartPlay, PlayFails, PlayCompletes,
              PlayCompletesThenCleanup, CleanupItem, Leaves, Settled
<1>4. OnAir(i)'
  BY <1>2, <1>3
<1> QED BY <1>1, <1>4

\* While nothing crashes, a status that says somebody works on an item is true.
THEOREM NoClaimIsLeftBehind == Spec => []NoClaimLeftBehind
<1>1. Init => NoClaimLeftBehind
  BY DEF Init, NoClaimLeftBehind
<1>2. Inductive /\ NoClaimLeftBehind /\ [Next]_vars => NoClaimLeftBehind'
  <2> SUFFICES ASSUME Inductive, NoClaimLeftBehind, [Next]_vars PROVE NoClaimLeftBehind'
    OBVIOUS
  <2> USE DEF NoClaimLeftBehind, Busy, Holding
  <2>1. ASSUME NEW w \in Workers, WorkerStep(w) PROVE NoClaimLeftBehind'
    BY <2>1, WorkerLeavesNone, WorkerKeepsFiles DEF Prepared, OnAir
  <2>2. ASSUME NEW s \in Streamers, StreamerStep(s) PROVE NoClaimLeftBehind'
    <3>1. used' = used
      BY <2>2 DEF StreamerStep, AirLock, AirCommit, SkipMissing, StartPlay, PlayFails,
                  PlayCompletes, PlayCompletesThenCleanup, CleanupItem, Leaves, notStreamers,
                  outsideVars
    <3> QED BY <2>2, <3>1, StreamerLeavesNone DEF Prepared, OnAir
  <2>3. ASSUME NEW r \in Requests, RequestStep(r) PROVE NoClaimLeftBehind'
    BY <2>3 DEF RequestStep, ApproveRead, ApproveCommit, workerVars, streamVars, outsideVars
  <2>4. CASE Outside
    <3> USE DEF Happens, Inductive, TypeOK, External, workerVars, streamVars
    <3>1. ASSUME NEW x, Crash(x) PROVE used'["crash"] # 0
      BY <3>1 DEF Crash
    <3>2. ASSUME NEW i \in Items, Requeue(i) \/ RemovePrepared(i) PROVE NoClaimLeftBehind'
      BY <3>2 DEF Requeue, RemovePrepared
    <3>3. ASSUME NEW a \in Assets, NEW status \in Rights, PatchRights(a, status)
          PROVE  NoClaimLeftBehind'
      BY <3>3 DEF PatchRights
    <3> QED BY <2>4, <3>1, <3>2, <3>3 DEF Outside, WorkerCrash, StreamerCrash
  <2>5. CASE UNCHANGED vars
    BY <2>5 DEF vars, workerVars, streamVars, outsideVars
  <2> QED BY <2>1, <2>2, <2>3, <2>4, <2>5 DEF Next
<1> QED BY <1>1, <1>2, InductiveHolds, PTL DEF Spec

-----------------------------------------------------------------------------
(* The order of the air.                                                   *)

\* One prep cycle runs at a time: the prep-worker container, and nobody posts
\* /prep/run-once beside it.
OneCycle == \A v, w \in Workers : v = w

\* Within a plan the order of preparation is that of airing, as the planner
\* numbers its items.
InSequence ==
    \A i, j \in Items :
        PlanOf[i] = PlanOf[j] /\ AirRank[i] < AirRank[j] => SeqIndex[i] < SeqIndex[j]

Earlier(i, j) == PlanOf[i] = PlanOf[j] /\ AirRank[i] < AirRank[j]
Treated(i)    == prep[i] \in {"ready", "failed"}
Gone(i)       == stream[i] # "queued" \/ prep[i] = "failed"

\* An item is claimed, by the prep cycle or by a streamer, only when everything
\* before it has been treated, or is gone from the queue of the air.
Ordered(i, j) ==
    /\ prep[j] # "queued" => Treated(i)
    /\ \A w \in Workers : wpc[w] = "locked" /\ wItem[w] = j => Treated(i)
    /\ stream[j] # "queued" => Gone(i)
    /\ \A s \in Streamers : spc[s] = "locked" /\ sItem[s] = j => Gone(i)

Undisturbed == used["crash"] = 0 /\ used["requeue"] = 0

Orderly == Undisturbed => \A i, j \in Items : Earlier(i, j) => Ordered(i, j)

\* What has happened stays counted.
LEMMA StaysUndisturbed ==
  ASSUME Inductive, Next, Undisturbed'
  PROVE  /\ Undisturbed
         /\ ~\E x : Crash(x)
         /\ ~\E i \in Items : Requeue(i)
<1> USE DEF Inductive, TypeOK, External, Undisturbed
<1>1. ASSUME NEW w \in Workers, WorkerStep(w) PROVE used' = used
  BY <1>1, WorkerKeepsFiles
<1>2. ASSUME NEW s \in Streamers, StreamerStep(s) PROVE used' = used
  BY <1>2 DEF StreamerStep, AirLock, AirCommit, SkipMissing, StartPlay, PlayFails, PlayCompletes,
              PlayCompletesThenCleanup, CleanupItem, Leaves, notStreamers, outsideVars
<1>3. ASSUME NEW r \in Requests, RequestStep(r) PROVE used' = used
  BY <1>3 DEF RequestStep, ApproveRead, ApproveCommit, outsideVars
<1>4. ASSUME NEW e \in External, Happens(e) PROVE Undisturbed /\ e # "crash" /\ e # "requeue"
  BY <1>4 DEF Happens
<1>5. Undisturbed
  BY <1>1, <1>2, <1>3, <1>4
     DEF Next, Outside, PatchRights, Requeue, RemovePrepared, WorkerCrash, StreamerCrash, Crash
<1> QED BY <1>4, <1>5 DEF Crash, Requeue

\* What has been treated stays so, and what is gone does not come back.
LEMMA StaysTreated ==
  ASSUME Inductive, Next, Undisturbed', NEW i \in Items
  PROVE  (Treated(i) => Treated(i)') /\ (Gone(i) => Gone(i)')
<1> USE DEF Inductive, TypeOK
<1>1. ASSUME Treated(i) PROVE prep'[i] = prep[i]
  <2>1. ASSUME NEW w \in Workers, WorkerStep(w) PROVE prep'[i] = prep[i]
    BY <1>1, <2>1, WorkerEffect DEF Treated
  <2>2. ASSUME NEW s \in Streamers, StreamerStep(s) PROVE prep' = prep
    BY <2>2, StreamerEffect
  <2> QED BY <2>1, <2>2, StaysUndisturbed
         DEF Next, RequestStep, ApproveRead, ApproveCommit, Outside, PatchRights, RemovePrepared,
             WorkerCrash, StreamerCrash
<1> QED BY <1>1, NeverQueuedAgain DEF Treated, Gone

\* The cycle claims nothing before what comes first: who would be at it?
LEMMA ClaimInOrder ==
  ASSUME Inductive, NoClaimLeftBehind, OneCycle, InSequence, Undisturbed,
         NEW w \in Workers, NEW i \in Items, NEW j \in Items, PrepLock(w, j), Earlier(i, j)
  PROVE  Treated(i)
<1> USE DEF Inductive, TypeOK
<1>1. SeqIndex[i] < SeqIndex[j] /\ SeqIndex[i] \in Nat /\ SeqIndex[j] \in Nat
  BY PipelineAssumption DEF InSequence, Earlier
<1>2. prep[i] # "queued"
  BY <1>1 DEF PrepLock, FirstToPrepare, PrepClaimable, Earlier
<1>3. prep[i] # "preparing"
  BY DEF NoClaimLeftBehind, Undisturbed, OneCycle, Busy, PrepLock
<1> QED BY <1>2, <1>3 DEF Treated, PrepStates

\* A streamer airs nothing before what comes first.
LEMMA AirsInOrder ==
  ASSUME Inductive, NEW s \in Streamers, NEW i \in Items, NEW j \in Items, AirLock(s, j), Earlier(i, j),
         Ordered(i, j)
  PROVE  Gone(i)
<1>1. AirRank[i] \in Nat /\ AirRank[j] \in Nat /\ AirRank[i] < AirRank[j]
  BY PipelineAssumption DEF Earlier
<1>2. Treated(i)
  BY DEF AirLock, FirstToAir, AirClaimable, Ordered
<1>3. ~AirClaimable(i)
  BY <1>1 DEF AirLock, FirstToAir, AirsBefore
<1> QED BY <1>2, <1>3 DEF AirLock, FirstToAir, AirClaimable, Earlier, Treated, Gone

\* Every step keeps the order of two items.
LEMMA KeepsOrdered ==
  ASSUME Inductive, NoClaimLeftBehind, OneCycle, InSequence, Next, Undisturbed, Undisturbed',
         NEW i \in Items, NEW j \in Items, Earlier(i, j), Ordered(i, j)
  PROVE  Ordered(i, j)'
<1> USE DEF Inductive, TypeOK
<1>1. (Treated(i) => Treated(i)') /\ (Gone(i) => Gone(i)')
  BY StaysTreated
<1>2. ASSUME NEW w \in Workers, WorkerStep(w) PROVE Ordered(i, j)'
  <2>1. UNCHANGED <<stream, spc, sItem>>
    BY <1>2 DEF WorkerStep, PrepLock, PrepCommit, NothingToPrepare, Normalize, FinishItem, PrepareFails,
                ClosePlan, EndCycle, notWorkers, streamVars
  <2>2. WorkerClaim(w) /\ \A v \in Workers : v = w
    BY DEF ClaimsHold, OneCycle
  <2>3. CASE \E k \in Items : PrepLock(w, k)
    <3>1. PICK k \in Items : PrepLock(w, k)
      BY <2>3
    <3>2. k = j => Treated(i)
      BY <3>1, ClaimInOrder
    <3> QED BY <1>1, <2>1, <2>2, <3>1, <3>2 DEF Ordered, PrepLock
  <2>4. CASE PrepCommit(w)
    BY <1>1, <2>1, <2>2, <2>4 DEF Ordered, PrepCommit, WorkerClaim
  <2>5. CASE FinishItem(w) \/ PrepareFails(w)
    <3>1. prep[wItem[w]] = "preparing" /\ wpc'[w] = "claim" /\ prep'[wItem[w]] # "queued"
          /\ \A k \in Items \ {wItem[w]} : prep'[k] = prep[k]
      BY <2>2, <2>5 DEF FinishItem, PrepareFails, Failed, WorkerClaim, Busy
    <3> QED BY <1>1, <2>1, <2>2, <3>1 DEF Ordered
  <2>6. CASE UNCHANGED prep /\ wpc'[w] # "locked"
    BY <1>1, <2>1, <2>2, <2>6 DEF Ordered
  <2> QED BY <1>2, <2>3, <2>4, <2>5, <2>6
         DEF WorkerStep, NothingToPrepare, Normalize, ClosePlan, EndCycle
<1>3. ASSUME NEW s \in Streamers, StreamerStep(s) PROVE Ordered(i, j)'
  <2>1. UNCHANGED <<prep, wpc, wItem>>
    BY <1>3 DEF StreamerStep, AirLock, AirCommit, SkipMissing, StartPlay, PlayFails, PlayCompletes,
                PlayCompletesThenCleanup, CleanupItem, Leaves, notStreamers, workerVars
  <2>2. StreamerClaim(s)
    BY DEF ClaimsHold
  <2>3. CASE \E k \in Items : AirLock(s, k)
    <3>1. PICK k \in Items : AirLock(s, k)
      BY <2>3
    <3>2. k = j => Gone(i)
      BY <3>1, AirsInOrder
    <3> QED BY <1>1, <2>1, <3>1, <3>2 DEF Ordered, AirLock
  <2>4. CASE AirCommit(s)
    BY <1>1, <2>1, <2>2, <2>4 DEF Ordered, AirCommit, StreamerClaim
  <2>5. CASE ~AirCommit(s) /\ ~\E k \in Items : AirLock(s, k)
    <3>1. stream[j] = "queued" => stream'[j] = "queued"
      BY <1>3, <2>2, <2>5
         DEF StreamerStep, SkipMissing, StartPlay, PlayFails, PlayCompletes, PlayCompletesThenCleanup,
             CleanupItem, Leaves, Settled, StreamerClaim
    <3>2. spc'[s] # "locked" /\ \A t \in Streamers \ {s} : spc'[t] = spc[t] /\ sItem'[t] = sItem[t]
      BY <1>3, <2>5
         DEF StreamerStep, SkipMissing, StartPlay, PlayFails, PlayCompletes, PlayCompletesThenCleanup,
             CleanupItem, Leaves
    <3> QED BY <1>1, <2>1, <3>1, <3>2 DEF Ordered
  <2> QED BY <2>3, <2>4, <2>5
<1>4. CASE (\E r \in Requests : RequestStep(r)) \/ Outside
  <2>1. UNCHANGED <<prep, stream, wpc, wItem, spc, sItem>>
    BY <1>4, StaysUndisturbed
       DEF RequestStep, ApproveRead, ApproveCommit, Outside, PatchRights, RemovePrepared, WorkerCrash,
           StreamerCrash, workerVars, streamVars
  <2> QED BY <2>1 DEF Ordered, Treated, Gone
<1> QED BY <1>2, <1>3, <1>4 DEF Next

\* A single prep cycle and any number of streamers: the items of a plan air in
\* sequence, with any number of requests, plans, reviews and removals.
THEOREM LoneCycleAirsInOrder ==
  ASSUME OneCycle, InSequence
  PROVE  Spec => []AirInOrder
<1>1. Init => Orderly
  BY DEF Init, Orderly, Ordered
<1>2. Inductive /\ NoClaimLeftBehind /\ Orderly /\ [Next]_vars => Orderly'
  <2> SUFFICES ASSUME Inductive, NoClaimLeftBehind, Orderly, [Next]_vars, Undisturbed',
                      NEW i \in Items, NEW j \in Items, Earlier(i, j)
               PROVE  Ordered(i, j)'
    BY DEF Orderly, Earlier
  <2>1. CASE Next
    BY <2>1, StaysUndisturbed, KeepsOrdered DEF Orderly
  <2>2. CASE UNCHANGED vars
    BY <2>2 DEF vars, workerVars, streamVars, outsideVars, Orderly, Undisturbed, Ordered, Treated, Gone
  <2> QED BY <2>1, <2>2
<1>3. Inductive /\ Orderly => AirInOrder
  <2> SUFFICES ASSUME Inductive, Orderly, used["crash"] + used["requeue"] = 0 PROVE AirInOrder
    BY DEF AirInOrder
  <2>1. used["crash"] \in Nat /\ used["requeue"] \in Nat
    BY DEF Inductive, TypeOK, External
  <2>2. Undisturbed
    BY <2>1 DEF Undisturbed
  <2> QED BY <2>2 DEF Orderly, Earlier, Ordered, Gone, AirInOrder
<1> QED BY <1>1, <1>2, <1>3, InductiveHolds, NoClaimIsLeftBehind, PTL DEF Spec

-----------------------------------------------------------------------------
(* Row locks.                                                              *)

\* A row lock is held only between a claimer's SELECT and its commit, a step
\* that waits for nobody: whoever waits for a lock waits for a process that can
\* move, and a crash takes its lock along.
LockHeld(p) ==
    \/ \E w \in Workers : rowLock[p] = w /\ wpc[w] = "locked" /\ PlanOf[wItem[w]] = p
    \/ \E s \in Streamers : rowLock[p] = s /\ spc[s] = "locked" /\ PlanOf[sItem[s]] = p

LocksHaveHolders == \A p \in Plans : rowLock[p] # Null => LockHeld(p)

\* A prep cycle takes a lock when it claims and gives it back when it commits.
LEMMA WorkerKeepsLocks ==
  ASSUME Inductive, LocksHaveHolders, NEW w \in Workers, WorkerStep(w)
  PROVE  LocksHaveHolders'
<1> SUFFICES ASSUME NEW p \in Plans, rowLock'[p] # Null PROVE LockHeld(p)'
  BY DEF LocksHaveHolders
<1> USE PipelineAssumption DEF Inductive, TypeOK, LocksHaveHolders
<1>1. UNCHANGED <<spc, sItem>>
  BY DEF WorkerStep, PrepLock, PrepCommit, NothingToPrepare, Normalize, FinishItem, PrepareFails,
         ClosePlan, EndCycle, notWorkers, streamVars
<1>2. ASSUME NEW i \in Items, PrepLock(w, i) PROVE LockHeld(p)'
  <2>1. CASE p = PlanOf[i]
    BY <1>2, <2>1 DEF PrepLock, LockHeld
  <2>2. CASE p # PlanOf[i]
    BY <1>1, <1>2, <2>2 DEF PrepLock, LockHeld
  <2> QED BY <2>1, <2>2
<1>3. CASE PrepCommit(w)
  <2>1. wItem[w] \in Items /\ PlanOf[wItem[w]] # p
    BY <1>3 DEF PrepCommit, ClaimsHold, WorkerClaim, Busy
  <2> QED BY <1>1, <1>3, <2>1 DEF PrepCommit, LockHeld
<1>4. CASE rowLock' = rowLock /\ wpc[w] # "locked" /\ \A v \in Workers \ {w} : wpc'[v] = wpc[v] /\ wItem'[v] = wItem[v]
  BY <1>1, <1>4 DEF LockHeld
<1> QED BY <1>2, <1>3, <1>4
        DEF WorkerStep, NothingToPrepare, Normalize, FinishItem, PrepareFails, ClosePlan, EndCycle

\* So does a streamer.
LEMMA StreamerKeepsLocks ==
  ASSUME Inductive, LocksHaveHolders, NEW s \in Streamers, StreamerStep(s)
  PROVE  LocksHaveHolders'
<1> SUFFICES ASSUME NEW p \in Plans, rowLock'[p] # Null PROVE LockHeld(p)'
  BY DEF LocksHaveHolders
<1> USE PipelineAssumption DEF Inductive, TypeOK, LocksHaveHolders
<1>1. UNCHANGED <<wpc, wItem>>
  BY DEF StreamerStep, AirLock, AirCommit, SkipMissing, StartPlay, PlayFails, PlayCompletes,
         PlayCompletesThenCleanup, CleanupItem, Leaves, notStreamers, workerVars
<1>2. ASSUME NEW i \in Items, AirLock(s, i) PROVE LockHeld(p)'
  <2>1. CASE p = PlanOf[i]
    BY <1>2, <2>1 DEF AirLock, LockHeld
  <2>2. CASE p # PlanOf[i]
    BY <1>1, <1>2, <2>2 DEF AirLock, LockHeld
  <2> QED BY <2>1, <2>2
<1>3. CASE AirCommit(s)
  <2>1. sItem[s] \in Items /\ PlanOf[sItem[s]] # p
    BY <1>3 DEF AirCommit, ClaimsHold, StreamerClaim, Holding
  <2> QED BY <1>1, <1>3, <2>1 DEF AirCommit, LockHeld
<1>4. CASE rowLock' = rowLock /\ spc[s] # "locked" /\ \A t \in Streamers \ {s} : spc'[t] = spc[t] /\ sItem'[t] = sItem[t]
  BY <1>1, <1>4 DEF LockHeld
<1> QED BY <1>2, <1>3, <1>4
        DEF StreamerStep, SkipMissing, StartPlay, PlayFails, PlayCompletes,
            PlayCompletesThenCleanup, CleanupItem, Leaves

\* Nobody else takes a lock, and a restart leaves none behind.
LEMMA OthersKeepLocks ==
  ASSUME Inductive, LocksHaveHolders, (\E r \in Requests : RequestStep(r)) \/ Outside
  PROVE  LocksHaveHolders'
<1> SUFFICES ASSUME NEW p \in Plans, rowLock'[p] # Null PROVE LockHeld(p)'
  BY DEF LocksHaveHolders
<1> USE PipelineAssumption DEF Inductive, TypeOK, LocksHaveHolders
<1>1. CASE UNCHANGED <<rowLock, workerVars, streamVars>>
  BY <1>1 DEF LockHeld, workerVars, streamVars
<1>2. ASSUME NEW w \in Workers, WorkerCrash(w) PROVE LockHeld(p)'
  BY <1>2 DEF WorkerCrash, Crash, LockHeld, streamVars
<1>3. ASSUME NEW s \in Streamers, StreamerCrash(s) PROVE LockHeld(p)'
  BY <1>3 DEF StreamerCrash, Crash, LockHeld, workerVars
<1> QED BY <1>1, <1>2, <1>3
        DEF RequestStep, ApproveRead, ApproveCommit, Outside, PatchRights, Requeue, RemovePrepared

\* Every locked row is about to be committed: no claim, approval or end of a
\* cycle waits for a process that waits itself, crashes notwithstanding.
THEOREM LocksAreShort == Spec => []LocksHaveHolders
<1>1. Init => LocksHaveHolders
  BY DEF Init, LocksHaveHolders
<1>2. Inductive /\ LocksHaveHolders /\ [Next]_vars => LocksHaveHolders'
  <2> SUFFICES ASSUME Inductive, LocksHaveHolders, [Next]_vars PROVE LocksHaveHolders'
    OBVIOUS
  <2>1. CASE UNCHANGED vars
    BY <2>1 DEF vars, workerVars, streamVars, LocksHaveHolders, LockHeld
  <2> QED BY <2>1, WorkerKeepsLocks, StreamerKeepsLocks, OthersKeepLocks DEF Next
<1> QED BY <1>1, <1>2, InductiveHolds, PTL DEF Spec

-----------------------------------------------------------------------------
(* Reviews.                                                                *)

\* Until somebody reviews an asset, what was ever approved is what is approved.
Unreviewed == used["patch"] = 0 => vetted = {a \in Assets : rights[a] = "approved_for_stream"}

\* What is on air is approved for stream, video and music.
AirIsApproved ==
    used["patch"] = 0 =>
        \A i \in Items : stream[i] # "queued" =>
            \A a \in Sources(i) : rights[a] = "approved_for_stream"

\* Only a review writes rights.
LEMMA KeepsUnreviewed ==
  ASSUME Inductive, Unreviewed, [Next]_vars
  PROVE  Unreviewed'
<1> USE DEF Inductive, TypeOK, External, Unreviewed
<1>1. ASSUME NEW w \in Workers, WorkerStep(w) PROVE UNCHANGED outsideVars
  BY <1>1 DEF WorkerStep, PrepLock, PrepCommit, NothingToPrepare, Normalize, FinishItem, PrepareFails,
              ClosePlan, EndCycle, notWorkers
<1>2. ASSUME NEW s \in Streamers, StreamerStep(s) PROVE UNCHANGED outsideVars
  BY <1>2 DEF StreamerStep, AirLock, AirCommit, SkipMissing, StartPlay, PlayFails, PlayCompletes,
              PlayCompletesThenCleanup, CleanupItem, Leaves, notStreamers
<1>3. ASSUME NEW r \in Requests, RequestStep(r) PROVE UNCHANGED outsideVars
  BY <1>3 DEF RequestStep, ApproveRead, ApproveCommit
<1>4. ASSUME NEW a \in Assets, NEW status \in Rights, PatchRights(a, status) PROVE Unreviewed'
  BY <1>4 DEF PatchRights, Happens
<1>5. ASSUME NEW e \in External, Happens(e), UNCHANGED <<rights, vetted>> PROVE Unreviewed'
  BY <1>5 DEF Happens
<1>6. CASE UNCHANGED outsideVars
  BY <1>6 DEF outsideVars
<1> QED BY <1>1, <1>2, <1>3, <1>4, <1>5, <1>6
        DEF Next, Outside, Requeue, RemovePrepared, WorkerCrash, StreamerCrash, Crash, vars

\* Without a review nothing unapproved goes on air, crashes, re-queues, removals
\* and cached sessions notwithstanding: the blocked item that airs in the run
\* pipeline_blocked takes a review after the preparation.
THEOREM UnreviewedAirIsApproved == Spec => []AirIsApproved
<1>1. Init => Unreviewed
  BY DEF Init, Unreviewed
<1>2. Inductive /\ Unreviewed /\ OnlyVettedPrepared => AirIsApproved
  BY DEF Inductive, AiredWasPrepared, Unreviewed, OnlyVettedPrepared, AirIsApproved
<1> QED BY <1>1, <1>2, KeepsUnreviewed, InductiveHolds, OnlyVettedIsPrepared, PTL DEF Spec
=============================================================================
