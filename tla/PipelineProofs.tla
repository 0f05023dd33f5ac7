--------------------------- MODULE PipelineProofs ---------------------------
(***************************************************************************)
(* Proofs about Pipeline, for any plans, items, assets, workers, streamers *)
(* and requests, and any number of outside events.                         *)
(***************************************************************************)
EXTENDS Pipeline, TLAPS

-----------------------------------------------------------------------------
(* Every variable keeps its type.                                          *)

\* The initial state is well typed.
LEMMA InitTyped == Init => TypeOK
  BY PipelineAssumption
     DEF Init, TypeOK, PlanStates, PrepStates, StreamStates, WorkerPc, StreamerPc,
         NothingSeen, Unread, External

\* What a session loads is a function from assets to rights or "unread".
LEMMA LoadTyped ==
  ASSUME TypeOK, NEW w \in Workers, NEW i \in Items
  PROVE  Load(w, i) \in [Assets -> Rights \union {Unread}]
  BY DEF Load, TypeOK, Unread

\* The steps of a prep worker keep the types, given what its claim guarantees.
LEMMA WorkerTyped ==
  ASSUME TypeOK, NEW w \in Workers, WorkerClaim(w), WorkerStep(w)
  PROVE  TypeOK'
<1> USE PipelineAssumption DEF TypeOK, notWorkers, streamVars, outsideVars
<1>1. ASSUME NEW i \in Items, PrepLock(w, i) PROVE TypeOK'
  BY <1>1, LoadTyped DEF PrepLock, WorkerPc
<1>2. CASE PrepCommit(w)
  <2>1. wItem[w] \in Items
    BY <1>2 DEF PrepCommit, WorkerClaim, Busy
  <2> QED BY <1>2, <2>1 DEF PrepCommit, WorkerPc, PrepStates, PlanStates
<1>3. CASE NothingToPrepare(w)
  BY <1>3 DEF NothingToPrepare, NothingSeen, WorkerPc, Unread
<1>4. CASE Normalize(w)
  BY <1>4 DEF Normalize, WorkerPc
<1>5. CASE FinishItem(w)
  <2>1. wItem[w] \in Items
    BY <1>5 DEF FinishItem, WorkerClaim, Busy
  <2> QED BY <1>5, <2>1 DEF FinishItem, WorkerPc, PrepStates
<1>6. CASE PrepareFails(w)
  BY <1>6 DEF PrepareFails, Failed, WorkerPc, PrepStates
<1>7. ASSUME NEW p \in Plans, ClosePlan(w, p) PROVE TypeOK'
  BY <1>7 DEF ClosePlan, PlanStates
<1>8. CASE EndCycle(w)
  BY <1>8 DEF EndCycle, WorkerPc
<1> QED BY <1>1, <1>2, <1>3, <1>4, <1>5, <1>6, <1>7, <1>8 DEF WorkerStep

\* The steps of a streamer keep the types.
LEMMA StreamerTyped ==
  ASSUME TypeOK, NEW s \in Streamers, StreamerClaim(s), StreamerStep(s)
  PROVE  TypeOK'
<1> USE PipelineAssumption DEF TypeOK, notStreamers, workerVars, outsideVars
<1>1. ASSUME NEW i \in Items, AirLock(s, i) PROVE TypeOK'
  BY <1>1 DEF AirLock, StreamerPc
<1>2. CASE AirCommit(s)
  <2>1. sItem[s] \in Items
    BY <1>2 DEF AirCommit, StreamerClaim, Holding
  <2> QED BY <1>2, <2>1 DEF AirCommit, StreamerPc, StreamStates, PlanStates
<1>3. ASSUME NEW status \in {"skipped", "failed", "completed"}, Leaves(s, status)
      PROVE  TypeOK'
  BY <1>3 DEF Leaves, Settled, StreamerPc, StreamStates
<1>4. CASE StartPlay(s)
  BY <1>4 DEF StartPlay, StreamerPc
<1>5. CASE PlayCompletesThenCleanup(s)
  BY <1>5 DEF PlayCompletesThenCleanup, Settled, StreamerPc, StreamStates
<1>6. CASE CleanupItem(s)
  BY <1>6 DEF CleanupItem, StreamerPc
<1> QED BY <1>1, <1>2, <1>3, <1>4, <1>5, <1>6
        DEF StreamerStep, SkipMissing, PlayFails, PlayCompletes

\* Approve requests and outside events keep the types.
LEMMA OthersTyped ==
  ASSUME TypeOK, (\E r \in Requests : RequestStep(r)) \/ Outside
  PROVE  TypeOK'
<1> USE PipelineAssumption DEF TypeOK, workerVars, streamVars, outsideVars
<1>1. ASSUME NEW r \in Requests, NEW p \in Plans, ApproveRead(r, p) PROVE TypeOK'
  BY <1>1 DEF ApproveRead
<1>2. ASSUME NEW r \in Requests, ApproveCommit(r) PROVE TypeOK'
  BY <1>2 DEF ApproveCommit, PlanStates
<1>3. ASSUME NEW a \in Assets, NEW status \in Rights, PatchRights(a, status) PROVE TypeOK'
  BY <1>3 DEF PatchRights, Happens, External
<1>4. ASSUME NEW i \in Items, Requeue(i) PROVE TypeOK'
  BY <1>4 DEF Requeue, Happens, External, PrepStates
<1>5. ASSUME NEW i \in Items, RemovePrepared(i) PROVE TypeOK'
  BY <1>5 DEF RemovePrepared, Happens, External
<1>6. ASSUME NEW w \in Workers, WorkerCrash(w) PROVE TypeOK'
  BY <1>6 DEF WorkerCrash, Crash, Happens, External, NothingSeen, Unread, WorkerPc
<1>7. ASSUME NEW s \in Streamers, StreamerCrash(s) PROVE TypeOK'
  BY <1>7 DEF StreamerCrash, Crash, Happens, External, StreamerPc
<1> QED BY <1>1, <1>2, <1>3, <1>4, <1>5, <1>6, <1>7 DEF RequestStep, Outside

-----------------------------------------------------------------------------
(* The inductive invariant: what the row locks guarantee their holders,    *)
(* exclusive claims, and preparation before airing.  Each part needs the   *)
(* others: a claim survives a step of another worker only because no two   *)
(* workers hold the same item, and that is so because of the locks.        *)

Inductive ==
    /\ TypeOK
    /\ ClaimsHold
    /\ ExclusivePrep
    /\ ExclusiveAir
    /\ AiredWasPrepared

\* Nothing is claimed initially.
LEMMA InitInductive == Init => Inductive
<1> SUFFICES ASSUME Init PROVE Inductive
  OBVIOUS
<1> QED BY InitTyped
        DEF Init, Inductive, ClaimsHold, WorkerClaim, StreamerClaim, Busy, Holding,
            ExclusivePrep, ExclusiveAir, AiredWasPrepared

\* A worker's step keeps every worker's claim.
LEMMA WorkerKeepsWorkerClaims ==
  ASSUME Inductive, NEW w \in Workers, WorkerStep(w), NEW v \in Workers
  PROVE  WorkerClaim(v)'
<1> USE PipelineAssumption
    DEF Inductive, TypeOK, ClaimsHold, WorkerClaim, Busy, notWorkers, streamVars, outsideVars
<1>1. ASSUME NEW i \in Items, PrepLock(w, i) PROVE WorkerClaim(v)'
  BY <1>1 DEF PrepLock, FirstToPrepare, PrepClaimable
<1>2. CASE PrepCommit(w)
  <2>1. CASE v = w
    BY <1>2, <2>1 DEF PrepCommit
  <2>2. CASE v # w
    BY <1>2, <2>2 DEF PrepCommit, ExclusivePrep
  <2> QED BY <2>1, <2>2
<1>3. CASE NothingToPrepare(w)
  BY <1>3 DEF NothingToPrepare
<1>4. CASE Normalize(w)
  BY <1>4 DEF Normalize
<1>5. CASE FinishItem(w)
  BY <1>5 DEF FinishItem, ExclusivePrep
<1>6. CASE PrepareFails(w)
  BY <1>6 DEF PrepareFails, Failed, ExclusivePrep
<1>7. ASSUME NEW p \in Plans, ClosePlan(w, p) PROVE WorkerClaim(v)'
  BY <1>7 DEF ClosePlan
<1>8. CASE EndCycle(w)
  BY <1>8 DEF EndCycle
<1> QED BY <1>1, <1>2, <1>3, <1>4, <1>5, <1>6, <1>7, <1>8 DEF WorkerStep

\* A worker's step keeps every streamer's claim.
LEMMA WorkerKeepsStreamerClaims ==
  ASSUME Inductive, NEW w \in Workers, WorkerStep(w), NEW s \in Streamers
  PROVE  StreamerClaim(s)'
<1> USE PipelineAssumption
    DEF Inductive, TypeOK, ClaimsHold, StreamerClaim, Holding, notWorkers, streamVars,
        outsideVars, OnAirStates
<1>1. ASSUME NEW i \in Items, PrepLock(w, i) PROVE StreamerClaim(s)'
  BY <1>1 DEF PrepLock, FirstToPrepare, PrepClaimable
<1>2. CASE PrepCommit(w)
  BY <1>2 DEF PrepCommit, WorkerClaim, Busy
<1>3. CASE NothingToPrepare(w)
  BY <1>3 DEF NothingToPrepare
<1>4. CASE Normalize(w)
  BY <1>4 DEF Normalize
<1>5. CASE FinishItem(w)
  BY <1>5 DEF FinishItem, WorkerClaim, Busy
<1>6. CASE PrepareFails(w)
  BY <1>6 DEF PrepareFails, Failed, WorkerClaim, Busy
<1>7. ASSUME NEW p \in Plans, ClosePlan(w, p) PROVE StreamerClaim(s)'
  BY <1>7 DEF ClosePlan
<1>8. CASE EndCycle(w)
  BY <1>8 DEF EndCycle
<1> QED BY <1>1, <1>2, <1>3, <1>4, <1>5, <1>6, <1>7, <1>8 DEF WorkerStep

\* A streamer's step keeps every worker's claim.
LEMMA StreamerKeepsWorkerClaims ==
  ASSUME Inductive, NEW s \in Streamers, StreamerStep(s), NEW w \in Workers
  PROVE  WorkerClaim(w)'
<1> USE PipelineAssumption
    DEF Inductive, TypeOK, ClaimsHold, WorkerClaim, Busy, notStreamers, workerVars, outsideVars
<1>1. ASSUME NEW i \in Items, AirLock(s, i) PROVE WorkerClaim(w)'
  BY <1>1 DEF AirLock, FirstToAir, AirClaimable
<1>2. CASE AirCommit(s)
  BY <1>2 DEF AirCommit, StreamerClaim, Holding
<1>3. ASSUME NEW status, Leaves(s, status) PROVE WorkerClaim(w)'
  BY <1>3 DEF Leaves
<1>4. CASE StartPlay(s)
  BY <1>4 DEF StartPlay
<1>5. CASE PlayCompletesThenCleanup(s)
  BY <1>5 DEF PlayCompletesThenCleanup
<1>6. CASE CleanupItem(s)
  BY <1>6 DEF CleanupItem
<1> QED BY <1>1, <1>2, <1>3, <1>4, <1>5, <1>6
        DEF StreamerStep, SkipMissing, PlayFails, PlayCompletes

\* A streamer's step keeps every streamer's claim.
LEMMA StreamerKeepsStreamerClaims ==
  ASSUME Inductive, NEW s \in Streamers, StreamerStep(s), NEW t \in Streamers
  PROVE  StreamerClaim(t)'
<1> USE PipelineAssumption
    DEF Inductive, TypeOK, ClaimsHold, StreamerClaim, Holding, notStreamers, workerVars,
        outsideVars, OnAirStates
<1>1. ASSUME NEW i \in Items, AirLock(s, i) PROVE StreamerClaim(t)'
  BY <1>1 DEF AirLock, FirstToAir, AirClaimable
<1>2. CASE AirCommit(s)
  BY <1>2 DEF AirCommit, ExclusiveAir
<1>3. ASSUME NEW status, Leaves(s, status), spc[s] \in {"claimed", "play"}
      PROVE  StreamerClaim(t)'
  BY <1>3 DEF Leaves, Settled, ExclusiveAir
<1>4. CASE StartPlay(s)
  BY <1>4 DEF StartPlay
<1>5. CASE PlayCompletesThenCleanup(s)
  BY <1>5 DEF PlayCompletesThenCleanup, Settled, ExclusiveAir
<1>6. CASE CleanupItem(s)
  BY <1>6 DEF CleanupItem
<1> QED BY <1>1, <1>2, <1>3, <1>4, <1>5, <1>6
        DEF StreamerStep, SkipMissing, PlayFails, PlayCompletes

\* Approve requests, reviews, repairs and restarts keep every claim.
LEMMA OthersKeepClaims ==
  ASSUME Inductive, (\E r \in Requests : RequestStep(r)) \/ Outside
  PROVE  ClaimsHold'
<1> USE PipelineAssumption
    DEF Inductive, TypeOK, ClaimsHold, WorkerClaim, StreamerClaim, Busy, Holding,
        workerVars, streamVars, outsideVars, OnAirStates
<1>1. ASSUME NEW r \in Requests, NEW p \in Plans, ApproveRead(r, p) PROVE ClaimsHold'
  BY <1>1 DEF ApproveRead
<1>2. ASSUME NEW r \in Requests, ApproveCommit(r) PROVE ClaimsHold'
  BY <1>2 DEF ApproveCommit
<1>3. ASSUME NEW a \in Assets, NEW status \in Rights, PatchRights(a, status) PROVE ClaimsHold'
  BY <1>3 DEF PatchRights
<1>4. ASSUME NEW i \in Items, Requeue(i) PROVE ClaimsHold'
  BY <1>4 DEF Requeue
<1>5. ASSUME NEW i \in Items, RemovePrepared(i) PROVE ClaimsHold'
  BY <1>5 DEF RemovePrepared
<1>6. ASSUME NEW w \in Workers, WorkerCrash(w) PROVE ClaimsHold'
  BY <1>6 DEF WorkerCrash, Crash
<1>7. ASSUME NEW s \in Streamers, StreamerCrash(s) PROVE ClaimsHold'
  BY <1>7 DEF StreamerCrash, Crash
<1> QED BY <1>1, <1>2, <1>3, <1>4, <1>5, <1>6, <1>7 DEF RequestStep, Outside

\* Exclusive preparation is kept by every step.
LEMMA KeepsExclusivePrep ==
  ASSUME Inductive, Next
  PROVE  ExclusivePrep'
<1> SUFFICES ASSUME NEW v \in Workers, NEW w \in Workers,
                    (Busy(v) /\ Busy(w) /\ wItem[v] = wItem[w])'
             PROVE  v = w
  BY DEF ExclusivePrep
<1> USE DEF Inductive, TypeOK, ExclusivePrep, Busy, notWorkers, workerVars
<1>1. ASSUME NEW x \in Workers, WorkerStep(x) PROVE v = w
  <2> USE DEF ClaimsHold, WorkerClaim
  <2>1. ASSUME NEW i \in Items, PrepLock(x, i) PROVE v = w
    BY <2>1, PipelineAssumption DEF PrepLock, FirstToPrepare, PrepClaimable
  <2>2. CASE PrepCommit(x)
    BY <2>2 DEF PrepCommit
  <2>3. CASE NothingToPrepare(x)
    BY <2>3 DEF NothingToPrepare
  <2>4. CASE Normalize(x)
    BY <2>4 DEF Normalize
  <2>5. CASE FinishItem(x) \/ PrepareFails(x)
    BY <2>5 DEF FinishItem, PrepareFails
  <2>6. ASSUME NEW p \in Plans, ClosePlan(x, p) PROVE v = w
    BY <2>6 DEF ClosePlan
  <2>7. CASE EndCycle(x)
    BY <2>7 DEF EndCycle
  <2> QED BY <1>1, <2>1, <2>2, <2>3, <2>4, <2>5, <2>6, <2>7 DEF WorkerStep
<1>2. ASSUME NEW s \in Streamers, StreamerStep(s) PROVE v = w
  BY <1>2 DEF StreamerStep, AirLock, AirCommit, SkipMissing, StartPlay, PlayFails,
              PlayCompletes, PlayCompletesThenCleanup, CleanupItem, Leaves, notStreamers
<1>3. ASSUME NEW r \in Requests, RequestStep(r) PROVE v = w
  BY <1>3 DEF RequestStep, ApproveRead, ApproveCommit
<1>4. CASE Outside
  BY <1>4 DEF Outside, PatchRights, Requeue, RemovePrepared, WorkerCrash, StreamerCrash, Crash
<1> QED BY <1>1, <1>2, <1>3, <1>4 DEF Next

\* Exclusive airing is kept by every step.
LEMMA KeepsExclusiveAir ==
  ASSUME Inductive, Next
  PROVE  ExclusiveAir'
<1> SUFFICES ASSUME NEW s \in Streamers, NEW t \in Streamers,
                    (Holding(s) /\ Holding(t) /\ sItem[s] = sItem[t])'
             PROVE  s = t
  BY DEF ExclusiveAir
<1> USE DEF Inductive, TypeOK, ExclusiveAir, Holding, notStreamers, streamVars
<1>1. ASSUME NEW x \in Streamers, StreamerStep(x) PROVE s = t
  <2> USE DEF ClaimsHold, StreamerClaim
  <2>1. ASSUME NEW i \in Items, AirLock(x, i) PROVE s = t
    <3>1. /\ stream[i] = "queued"
          /\ rowLock[PlanOf[i]] = Null
          /\ spc' = [spc EXCEPT ![x] = "locked"]
          /\ sItem' = [sItem EXCEPT ![x] = i]
      BY <2>1 DEF AirLock, FirstToAir, AirClaimable
    <3>2. \A y \in Streamers : spc[y] # "poll" => sItem[y] # i
      BY <3>1, PipelineAssumption DEF StreamerPc
    <3> QED BY <3>1, <3>2
  <2>2. CASE AirCommit(x)
    BY <2>2 DEF AirCommit
  <2>3. ASSUME NEW status, Leaves(x, status) PROVE s = t
    BY <2>3 DEF Leaves
  <2>4. CASE StartPlay(x)
    BY <2>4 DEF StartPlay
  <2>5. CASE PlayCompletesThenCleanup(x)
    BY <2>5 DEF PlayCompletesThenCleanup
  <2>6. CASE CleanupItem(x)
    BY <2>6 DEF CleanupItem
  <2> QED BY <1>1, <2>1, <2>2, <2>3, <2>4, <2>5, <2>6
          DEF StreamerStep, SkipMissing, PlayFails, PlayCompletes
<1>2. ASSUME NEW w \in Workers, WorkerStep(w) PROVE s = t
  BY <1>2 DEF WorkerStep, PrepLock, PrepCommit, NothingToPrepare, Normalize, FinishItem,
              PrepareFails, ClosePlan, EndCycle, notWorkers
<1>3. ASSUME NEW r \in Requests, RequestStep(r) PROVE s = t
  BY <1>3 DEF RequestStep, ApproveRead, ApproveCommit
<1>4. CASE Outside
  BY <1>4 DEF Outside, PatchRights, Requeue, RemovePrepared, WorkerCrash, StreamerCrash, Crash
<1> QED BY <1>1, <1>2, <1>3, <1>4 DEF Next

\* An item's preparation is over once it has been on air: a worker holds it as
\* queued or preparing, an operator as failed, a streamer only as ready.
LEMMA KeepsAiredWasPrepared ==
  ASSUME Inductive, Next
  PROVE  AiredWasPrepared'
<1> SUFFICES ASSUME NEW i \in Items, stream'[i] # "queued" PROVE prep'[i] = "ready"
  BY DEF AiredWasPrepared
<1> USE DEF Inductive, TypeOK, AiredWasPrepared
<1>1. ASSUME NEW w \in Workers, WorkerStep(w) PROVE prep'[i] = "ready"
  <2>1. WorkerClaim(w) /\ stream' = stream
    BY <1>1 DEF ClaimsHold, WorkerStep, PrepLock, PrepCommit, NothingToPrepare, Normalize,
                FinishItem, PrepareFails, ClosePlan, EndCycle, notWorkers
  <2>2. CASE PrepCommit(w)
    BY <2>1, <2>2 DEF PrepCommit, WorkerClaim, Busy
  <2>3. CASE FinishItem(w)
    BY <2>1, <2>3 DEF FinishItem, WorkerClaim, Busy
  <2>4. CASE PrepareFails(w)
    BY <2>1, <2>4 DEF PrepareFails, Failed, WorkerClaim, Busy
  <2>5. CASE prep' = prep
    BY <2>1, <2>5
  <2> QED BY <1>1, <2>2, <2>3, <2>4, <2>5
          DEF WorkerStep, PrepLock, NothingToPrepare, Normalize, ClosePlan, EndCycle
<1>2. ASSUME NEW s \in Streamers, StreamerStep(s) PROVE prep'[i] = "ready"
  <2>1. StreamerClaim(s) /\ prep' = prep
    BY <1>2 DEF ClaimsHold, StreamerStep, AirLock, AirCommit, SkipMissing, StartPlay, PlayFails,
                PlayCompletes, PlayCompletesThenCleanup, CleanupItem, Leaves, notStreamers
  <2>2. CASE AirCommit(s)
    BY <2>1, <2>2 DEF AirCommit, StreamerClaim, Holding
  <2>3. ASSUME NEW status, stream' = Settled(s, status), spc[s] \in {"claimed", "play"}
        PROVE  prep'[i] = "ready"
    BY <2>1, <2>3 DEF Settled, StreamerClaim, Holding
  <2>4. CASE stream' = stream
    BY <2>1, <2>4
  <2> QED BY <1>2, <2>2, <2>3, <2>4
          DEF StreamerStep, AirLock, SkipMissing, StartPlay, PlayFails, PlayCompletes,
              PlayCompletesThenCleanup, CleanupItem, Leaves
<1>3. ASSUME NEW r \in Requests, RequestStep(r) PROVE prep'[i] = "ready"
  BY <1>3 DEF RequestStep, ApproveRead, ApproveCommit
<1>4. CASE Outside
  BY <1>4 DEF Outside, PatchRights, Requeue, RemovePrepared, WorkerCrash, StreamerCrash, Crash
<1> QED BY <1>1, <1>2, <1>3, <1>4 DEF Next

\* Every step keeps the inductive invariant.
LEMMA KeepsInductive == Inductive /\ [Next]_vars => Inductive'
<1> SUFFICES ASSUME Inductive, [Next]_vars PROVE Inductive'
  OBVIOUS
<1>1. CASE Next
  <2>1. TypeOK'
    BY <1>1, WorkerTyped, StreamerTyped, OthersTyped DEF Next, Inductive, ClaimsHold
  <2>2. ClaimsHold'
    BY <1>1, WorkerKeepsWorkerClaims, WorkerKeepsStreamerClaims, StreamerKeepsWorkerClaims,
       StreamerKeepsStreamerClaims, OthersKeepClaims DEF Next, ClaimsHold
  <2> QED BY <1>1, <2>1, <2>2, KeepsExclusivePrep, KeepsExclusiveAir, KeepsAiredWasPrepared
          DEF Inductive
<1>2. CASE UNCHANGED vars
  BY <1>2 DEF vars, workerVars, streamVars, outsideVars, Inductive, TypeOK, ClaimsHold,
              WorkerClaim, StreamerClaim, Busy, Holding, ExclusivePrep, ExclusiveAir,
              AiredWasPrepared
<1> QED BY <1>1, <1>2

\* The inductive invariant holds in every reachable state.
THEOREM InductiveHolds == Spec => []Inductive
  BY InitInductive, KeepsInductive, PTL DEF Spec

\* Every variable keeps its type, for any sets of workers, streamers and items.
THEOREM Typing == Spec => []TypeOK
<1>1. Inductive => TypeOK
  BY DEF Inductive
<1> QED BY <1>1, InductiveHolds, PTL

\* The locking claims hold what they promise their holders.
THEOREM ClaimsAlwaysHold == Spec => []ClaimsHold
<1>1. Inductive => ClaimsHold
  BY DEF Inductive
<1> QED BY <1>1, InductiveHolds, PTL

\* No two prep cycles ever work on the same item.
THEOREM PrepIsExclusive == Spec => []ExclusivePrep
<1>1. Inductive => ExclusivePrep
  BY DEF Inductive
<1> QED BY <1>1, InductiveHolds, PTL

\* No two streamers ever hold the same item.
THEOREM AirIsExclusive == Spec => []ExclusiveAir
<1>1. Inductive => ExclusiveAir
  BY DEF Inductive
<1> QED BY <1>1, InductiveHolds, PTL

\* Nothing airs that was not prepared, and what has aired stays prepared.
THEOREM PreparedBeforeAir == Spec => []AiredWasPrepared
<1>1. Inductive => AiredWasPrepared
  BY DEF Inductive
<1> QED BY <1>1, InductiveHolds, PTL

-----------------------------------------------------------------------------
(* Pipeline implements Broadcast.                                          *)

Opened == {p \in Plans : planStatus[p] # "draft"}

\* A plan that is not a draft never becomes one, and while nothing else happens
\* to the items a change of plan status opens plans or is invisible.
LEMMA PlanStepOpens ==
  ASSUME TypeOK, UNCHANGED <<prep, stream>>, NEW p \in Plans, NEW status \in PlanStates,
         status # "draft", planStatus' = [planStatus EXCEPT ![p] = status]
  PROVE  Promise!Open(p)
  BY DEF Promise!Open, TypeOK, PhaseOf, Preparation

\* A step that changes neither status column nor any plan's draftness stutters.
LEMMA Stutter ==
  ASSUME UNCHANGED <<prep, stream>>, Opened' = Opened
  PROVE  UNCHANGED Promise!vars
  BY DEF Promise!vars, Opened, PhaseOf, Preparation

\* The initial states of Pipeline map to the initial state of Broadcast.
LEMMA InitMaps == Init => Promise!Init
  BY DEF Init, Promise!Init, PhaseOf, Preparation

\* An item's phase moves when its prep status does, while it has not aired.
LEMMA PrepMoves ==
  ASSUME TypeOK, NEW i \in Items, stream[i] = "queued", stream' = stream, Opened' = Opened,
         NEW status \in PrepStates, prep' = [prep EXCEPT ![i] = status]
  PROVE  Promise!Move(i, Preparation[prep[i]], Preparation[status])
  BY DEF Promise!Move, TypeOK, Opened, PhaseOf, PrepStates, StreamStates

\* An item's phase moves when its stream status leaves queued or streaming.
LEMMA StreamMoves ==
  ASSUME TypeOK, NEW i \in Items, prep' = prep, Opened' = Opened,
         NEW status \in StreamStates \ {"queued"}, stream' = [stream EXCEPT ![i] = status]
  PROVE  Promise!Move(i, PhaseOf(i), IF status = "streaming" THEN "onair" ELSE status)
  BY DEF Promise!Move, TypeOK, Opened, PhaseOf, StreamStates

\* A worker's step prepares, delivers or spoils one item, opens a plan, or is
\* invisible.
LEMMA WorkerMaps ==
  ASSUME Inductive, NEW w \in Workers, WorkerStep(w)
  PROVE  [Promise!Next]_Promise!vars
<1> USE DEF Inductive, notWorkers
<1>1. WorkerClaim(w)
  BY DEF ClaimsHold
<1>2. CASE PrepCommit(w)
  <2> DEFINE i == wItem[w]
  <2>1. /\ i \in Items
        /\ prep[i] = "queued"
        /\ planStatus[PlanOf[i]] # "draft"
    BY <1>1, <1>2 DEF PrepCommit, WorkerClaim, Busy
  <2>2. stream[i] = "queued" /\ stream' = stream
    BY <1>2, <2>1 DEF PrepCommit, AiredWasPrepared
  <2>3. Opened' = Opened /\ PlanOf[i] \in Opened
    BY <1>2, <2>1, PipelineAssumption DEF PrepCommit, Opened, TypeOK
  <2>4. prep' = [prep EXCEPT ![i] = "preparing"]
    BY <1>2 DEF PrepCommit
  <2>5. Promise!Move(i, Preparation["queued"], Preparation["preparing"])
    BY <2>1, <2>2, <2>3, <2>4, PrepMoves DEF PrepStates
  <2>6. Promise!Prepare(i)
    BY <2>3, <2>5 DEF Promise!Prepare, Preparation, Opened
  <2> QED BY <2>1, <2>6 DEF Promise!Next, Promise!ItemStep
<1>3. ASSUME NEW status \in {"ready", "failed"}, wpc[w] \in {"prepare", "normalized"},
             prep' = [prep EXCEPT ![wItem[w]] = status],
             UNCHANGED <<planStatus, stream>>
      PROVE  Promise!Next
  <2> DEFINE i == wItem[w]
  <2>1. i \in Items /\ prep[i] = "preparing"
    BY <1>1, <1>3 DEF WorkerClaim, Busy
  <2>2. stream[i] = "queued" /\ Opened' = Opened
    BY <1>3, <2>1 DEF AiredWasPrepared, Opened
  <2>3. Promise!Move(i, Preparation["preparing"], Preparation[status])
    BY <1>3, <2>1, <2>2, PrepMoves DEF PrepStates
  <2>4. Promise!Deliver(i) \/ Promise!Spoil(i)
    BY <1>3, <2>3 DEF Promise!Deliver, Promise!Spoil, Preparation
  <2> QED BY <2>1, <2>4 DEF Promise!Next, Promise!ItemStep
<1>4. ASSUME NEW p \in Plans, ClosePlan(w, p) PROVE [Promise!Next]_Promise!vars
  <2>1. CASE AllReady(p)
    BY <1>4, <2>1, PlanStepOpens DEF ClosePlan, PlanStates, Promise!Next
  <2>2. CASE ~AllReady(p)
    BY <1>4, <2>2, Stutter DEF ClosePlan, Opened
  <2> QED BY <2>1, <2>2
<1>5. CASE UNCHANGED <<planStatus, prep, stream>>
  BY <1>5, Stutter DEF Opened
<1> QED BY <1>2, <1>3, <1>4, <1>5
        DEF WorkerStep, PrepLock, NothingToPrepare, Normalize, FinishItem, PrepareFails, Failed,
            EndCycle

\* A streamer's step airs one item, takes one off the air, or is invisible.
LEMMA StreamerMaps ==
  ASSUME Inductive, NEW s \in Streamers, StreamerStep(s)
  PROVE  [Promise!Next]_Promise!vars
<1> USE DEF Inductive, notStreamers
<1>1. StreamerClaim(s)
  BY DEF ClaimsHold
<1>2. CASE AirCommit(s)
  <2> DEFINE i == sItem[s]
  <2>1. /\ i \in Items
        /\ prep[i] = "ready"
        /\ stream[i] = "queued"
        /\ planStatus[PlanOf[i]] # "draft"
    BY <1>1, <1>2 DEF AirCommit, StreamerClaim, Holding, OnAirStates
  <2>2. Opened' = Opened /\ PlanOf[i] \in Opened
    BY <1>2, <2>1, PipelineAssumption DEF AirCommit, Opened, TypeOK
  <2>3. stream' = [stream EXCEPT ![i] = "streaming"] /\ prep' = prep
    BY <1>2 DEF AirCommit
  <2>4. Promise!Move(i, PhaseOf(i), "onair")
    BY <2>1, <2>2, <2>3, StreamMoves DEF StreamStates
  <2>5. Promise!Air(i)
    BY <2>1, <2>2, <2>4 DEF Promise!Air, PhaseOf, Preparation, Opened
  <2> QED BY <2>1, <2>5 DEF Promise!Next, Promise!ItemStep
<1>3. ASSUME NEW status \in {"skipped", "failed", "completed"}, spc[s] \in {"claimed", "play"},
             stream' = Settled(s, status), UNCHANGED <<planStatus, prep>>
      PROVE  Promise!Next
  <2> DEFINE i == sItem[s]
  <2>1. i \in Items /\ stream[i] = "streaming"
    BY <1>1, <1>3 DEF StreamerClaim, Holding
  <2>2. Opened' = Opened
    BY <1>3 DEF Opened
  <2>3. Promise!Move(i, "onair", status)
    BY <1>3, <2>1, <2>2, StreamMoves DEF Settled, StreamStates, PhaseOf
  <2> QED BY <2>1, <2>3 DEF Promise!Leave, Promise!Outcomes, Promise!Next, Promise!ItemStep
<1>4. CASE UNCHANGED <<planStatus, prep, stream>>
  BY <1>4, Stutter DEF Opened
<1> QED BY <1>2, <1>3, <1>4
        DEF StreamerStep, AirLock, SkipMissing, StartPlay, PlayFails, PlayCompletes,
            PlayCompletesThenCleanup, CleanupItem, Leaves

\* An approval opens a plan, a re-queue retries an item, the rest is invisible.
LEMMA OthersMap ==
  ASSUME Inductive, (\E r \in Requests : RequestStep(r)) \/ Outside
  PROVE  [Promise!Next]_Promise!vars
<1> USE DEF Inductive
<1>1. ASSUME NEW r \in Requests, ApproveCommit(r) PROVE Promise!Next
  <2>1. reads[r] \in Plans
    BY <1>1, PipelineAssumption DEF ApproveCommit, TypeOK
  <2> QED BY <1>1, <2>1, PlanStepOpens DEF ApproveCommit, PlanStates, Promise!Next
<1>2. ASSUME NEW i \in Items, Requeue(i) PROVE Promise!Next
  <2>1. stream[i] = "queued" /\ Opened' = Opened /\ stream' = stream
    BY <1>2 DEF Requeue, AiredWasPrepared, Opened
  <2>2. Promise!Move(i, Preparation["failed"], Preparation["queued"])
    BY <1>2, <2>1, PrepMoves DEF Requeue, PrepStates
  <2> QED BY <2>2 DEF Promise!Retry, Preparation, Promise!Next, Promise!ItemStep
<1>3. CASE UNCHANGED <<planStatus, prep, stream>>
  BY <1>3, Stutter DEF Opened
<1> QED BY <1>1, <1>2, <1>3
        DEF RequestStep, ApproveRead, Outside, PatchRights, RemovePrepared, WorkerCrash,
            StreamerCrash, Crash

\* The pipeline keeps the promise of Broadcast: every item moves through the
\* phases of its life one by one, opened plans only, on air at most once.
THEOREM PipelineKeepsPromise == Spec => KeepsPromise
<1>1. Inductive /\ [Next]_vars => [Promise!Next]_Promise!vars
  <2> SUFFICES ASSUME Inductive, [Next]_vars PROVE [Promise!Next]_Promise!vars
    OBVIOUS
  <2>1. CASE UNCHANGED vars
    BY <2>1, Stutter DEF vars, Opened
  <2> QED BY <2>1, WorkerMaps, StreamerMaps, OthersMap DEF Next
<1> QED BY <1>1, InitMaps, InductiveHolds, PTL DEF Spec, KeepsPromise, Promise!Spec

-----------------------------------------------------------------------------
(* Plan level: drafts are untouched, ready plans are complete.             *)

\* What a worker's step does to one item and to the plans: the item it holds
\* moves on from queued or preparing, and a plan is set to ready only when it
\* is complete.
LEMMA WorkerEffect ==
  ASSUME Inductive, NEW w \in Workers, WorkerStep(w)
  PROVE  /\ stream' = stream
         /\ \A i \in Items : prep'[i] # prep[i] =>
              /\ prep[i] \in {"queued", "preparing"}
              /\ prep[i] = "queued" => planStatus[PlanOf[i]] # "draft"
         /\ \A i \in files' \ files : i \in Items /\ prep[i] = "preparing"
         /\ \A p \in Plans : planStatus'[p] # planStatus[p] =>
              planStatus'[p] = "preparing" \/ (planStatus'[p] = "ready" /\ AllReady(p))
<1> USE DEF Inductive, TypeOK, notWorkers
<1>1. WorkerClaim(w)
  BY DEF ClaimsHold
<1>2. CASE PrepCommit(w)
  BY <1>1, <1>2, PipelineAssumption DEF PrepCommit, WorkerClaim, Busy
<1>3. CASE FinishItem(w) \/ PrepareFails(w)
  BY <1>1, <1>3 DEF FinishItem, PrepareFails, Failed, WorkerClaim, Busy
<1>4. ASSUME NEW p \in Plans, ClosePlan(w, p)
      PROVE  /\ UNCHANGED <<prep, files, stream>>
             /\ \A q \in Plans : planStatus'[q] # planStatus[q] =>
                  planStatus'[q] = "ready" /\ AllReady(q)
  BY <1>4 DEF ClosePlan
<1>5. CASE UNCHANGED <<planStatus, prep, files, stream>>
  BY <1>5
<1> QED BY <1>2, <1>3, <1>4, <1>5
        DEF WorkerStep, PrepLock, NothingToPrepare, Normalize, EndCycle

\* What a streamer's step does to one item and to the plans: an item moves from
\* ready and queued to the air and off it, and a plan only ever to streaming.
LEMMA StreamerEffect ==
  ASSUME Inductive, NEW s \in Streamers, StreamerStep(s)
  PROVE  /\ prep' = prep
         /\ \A i \in files \ files' : stream[i] = "completed"
         /\ files' \subseteq files
         /\ \A i \in Items : stream'[i] # stream[i] =>
              \/ stream[i] = "queued" /\ planStatus[PlanOf[i]] # "draft"
              \/ stream[i] = "streaming"
         /\ \A p \in Plans : planStatus'[p] # planStatus[p] => planStatus'[p] = "streaming"
<1> USE DEF Inductive, TypeOK, notStreamers
<1>1. StreamerClaim(s)
  BY DEF ClaimsHold
<1>2. CASE AirCommit(s)
  BY <1>1, <1>2, PipelineAssumption DEF AirCommit, StreamerClaim, Holding, OnAirStates
<1>3. ASSUME NEW status, stream' = Settled(s, status), spc[s] \in {"claimed", "play"}
      PROVE  \A i \in Items : stream'[i] # stream[i] => stream[i] = "streaming"
  BY <1>1, <1>3 DEF Settled, StreamerClaim, Holding
<1>4. CASE CleanupItem(s)
  BY <1>1, <1>4 DEF CleanupItem, FileOf, StreamerClaim, Holding
<1> QED BY <1>2, <1>3, <1>4
        DEF StreamerStep, AirLock, SkipMissing, StartPlay, PlayFails, PlayCompletes,
            PlayCompletesThenCleanup, Leaves

\* Every step leaves the items of draft plans untouched.
LEMMA KeepsDraftUntouched ==
  ASSUME Inductive, DraftUntouched, Next
  PROVE  DraftUntouched'
<1> USE PipelineAssumption DEF Inductive, TypeOK, DraftUntouched
<1>1. ASSUME NEW w \in Workers, WorkerStep(w) PROVE DraftUntouched'
  BY <1>1, WorkerEffect
<1>2. ASSUME NEW s \in Streamers, StreamerStep(s) PROVE DraftUntouched'
  BY <1>2, StreamerEffect
<1>3. ASSUME NEW r \in Requests, RequestStep(r) PROVE DraftUntouched'
  BY <1>3 DEF RequestStep, ApproveRead, ApproveCommit
<1>4. CASE Outside
  BY <1>4 DEF Outside, PatchRights, Requeue, RemovePrepared, WorkerCrash, StreamerCrash, Crash
<1> QED BY <1>1, <1>2, <1>3, <1>4 DEF Next

\* The approval gate: nothing happens to the items of a plan in draft.
THEOREM DraftsStayUntouched == Spec => []DraftUntouched
<1>1. Init => DraftUntouched
  BY DEF Init, DraftUntouched
<1>2. Inductive /\ DraftUntouched /\ [Next]_vars => DraftUntouched'
  BY KeepsDraftUntouched DEF vars, DraftUntouched
<1> QED BY <1>1, <1>2, InductiveHolds, PTL DEF Spec

\* Every step keeps ready plans complete.
LEMMA KeepsReadyPlanComplete ==
  ASSUME Inductive, ReadyPlanComplete, Next
  PROVE  ReadyPlanComplete'
<1> USE PipelineAssumption DEF Inductive, TypeOK, ReadyPlanComplete
<1>1. ASSUME NEW w \in Workers, WorkerStep(w) PROVE ReadyPlanComplete'
  BY <1>1, WorkerEffect DEF AllReady
<1>2. ASSUME NEW s \in Streamers, StreamerStep(s) PROVE ReadyPlanComplete'
  BY <1>2, StreamerEffect
<1>3. ASSUME NEW r \in Requests, RequestStep(r) PROVE ReadyPlanComplete'
  BY <1>3 DEF RequestStep, ApproveRead, ApproveCommit
<1>4. CASE Outside
  BY <1>4 DEF Outside, PatchRights, Requeue, RemovePrepared, WorkerCrash, StreamerCrash, Crash
<1> QED BY <1>1, <1>2, <1>3, <1>4 DEF Next

\* A plan that says ready has every item ready.
THEOREM ReadyPlansAreComplete == Spec => []ReadyPlanComplete
<1>1. Init => ReadyPlanComplete
  BY DEF Init, ReadyPlanComplete
<1>2. Inductive /\ ReadyPlanComplete /\ [Next]_vars => ReadyPlanComplete'
  BY KeepsReadyPlanComplete DEF vars, ReadyPlanComplete
<1> QED BY <1>1, <1>2, InductiveHolds, PTL DEF Spec
=============================================================================
