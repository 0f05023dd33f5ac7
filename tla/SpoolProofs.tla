----------------------------- MODULE SpoolProofs -----------------------------
(***************************************************************************)
(* Proofs about Spool, for any items and assets and any outside events:    *)
(* the types; that sources are read whole as long as no two workers fetch  *)
(* the same asset at once (the run spool_torn shows two that do); and that *)
(* what is needed is kept and what is kept is referenced.                  *)
(***************************************************************************)
EXTENDS Spool, TLAPS

\* A worker that has an item has its target.
Targeted ==
    \A w \in Workers : pc[w] # "idle" => item[w] \in Items /\ target[w] \in Assets

\* The streamer cleans up after an item.
Cleaning == spc # "idle" => sItem \in Items

Typed == TypeOK /\ Targeted /\ Cleaning

\* What is at an asset's own name is whole or absent, and so is ".part" between
\* the end of the writing and the move; before, it is the worker's own.
NamesWhole ==
    /\ \A a \in Assets : dest[a] \in {"whole", "absent"}
    /\ \A w \in Workers : pc[w] = "write" => part[target[w]] \in {w, "absent"}
    /\ \A w \in Workers : pc[w] = "replace" => part[target[w]] \in {"whole", "absent"}
    /\ \A w \in Workers, a \in Assets : part[a] = w => pc[w] = "write" /\ target[w] = a

\* No two workers fetch the same asset at the same time.
Fetching(w) == pc[w] \in {"open", "write", "replace"}
FetchApart ==
    \A v, w \in Workers : Fetching(v) /\ Fetching(w) /\ target[v] = target[w] => v = w

-----------------------------------------------------------------------------
(* Every variable keeps its type.                                          *)

\* The initial state is well typed.
LEMMA InitTyped == Init => Typed
<1> SUFFICES ASSUME Init PROVE Typed
  OBVIOUS
<1>1. TypeOK
  BY SpoolAssumption DEF Init, TypeOK, Contents, NothingKnown, External
<1>2. Targeted /\ Cleaning
  BY DEF Init, Targeted, Cleaning
<1> QED BY <1>1, <1>2 DEF Typed

\* A source of an item is an asset.
LEMMA SourceIsAsset ==
  ASSUME NEW i \in Items
  PROVE  VideoOf[i] \in Assets /\ Soundtrack(i) \subseteq Assets
  BY SpoolAssumption DEF Soundtrack

\* What becomes of the files when a writing ends is still a content.
LEMMA SettleTyped ==
  ASSUME NEW file \in [Assets -> Contents], NEW w \in Workers, NEW end \in Contents
  PROVE  /\ Settle(file, w, end) \in [Assets -> Contents]
         /\ \A a \in Assets : Settle(file, w, end)[a] = IF file[a] = w THEN end ELSE file[a]
  BY DEF Settle

\* The steps of a prep worker keep the types.
LEMMA WorkerTyped ==
  ASSUME Typed, NEW w \in Workers, WorkerStep(w)
  PROVE  Typed'
<1> USE DEF Typed, TypeOK, Goto, OnlyFiles, itemVars, fileVars, workerVars, streamerVars, Contents
<1>1. ASSUME NEW i \in Items, PrepClaim(w, i) PROVE Typed'
  <2>1. known' \in [Workers -> [Assets -> {"none", "stored", "unread"}]]
    BY <1>1 DEF PrepClaim
  <2>2. TypeOK'
    BY <1>1, <2>1, SourceIsAsset DEF PrepClaim
  <2>3. Targeted' /\ Cleaning'
    BY <1>1, SourceIsAsset DEF PrepClaim, Targeted, Cleaning
  <2> QED BY <2>2, <2>3
<1>2. CASE EndCycle(w)
  BY <1>2 DEF EndCycle, Targeted, Cleaning, NothingKnown
<1>3. CASE UseStored(w)
  BY <1>3 DEF UseStored, Targeted, Cleaning
<1>4. CASE StartFetch(w)
  BY <1>4 DEF StartFetch, Targeted, Cleaning
<1>5. CASE Open(w)
  BY <1>5 DEF Open, Targeted, Cleaning
<1>6. CASE WriteEnds(w)
  <2>1. part' \in [Assets -> Contents] /\ dest' \in [Assets -> Contents]
    BY <1>6, SettleTyped DEF WriteEnds
  <2> QED BY <1>6, <2>1 DEF WriteEnds, Targeted, Cleaning
<1>7. CASE Replace(w)
  <2>1. part[target[w]] \in Contents
    BY <1>7 DEF Replace, Targeted
  <2> QED BY <1>7, <2>1 DEF Replace, Targeted, Cleaning
<1>8. CASE StorePath(w)
  <2>1. target[w] \in Assets
    BY <1>8 DEF StorePath, Targeted
  <2> QED BY <1>8, <2>1 DEF StorePath, Targeted, Cleaning
<1>9. CASE NormalizeThenMusic(w)
  BY <1>9, SourceIsAsset DEF NormalizeThenMusic, Targeted, Cleaning
<1>10. CASE FinishItem(w)
  BY <1>10 DEF FinishItem, Targeted, Cleaning
<1>11. CASE FetchFails(w)
  BY <1>11, SettleTyped DEF FetchFails, Fail, Failed, Targeted, Cleaning
<1>12. CASE PrepareFails(w)
  BY <1>12 DEF PrepareFails, Fail, Failed, Targeted, Cleaning
<1> QED
  BY <1>1, <1>2, <1>3, <1>4, <1>5, <1>6, <1>7, <1>8, <1>9, <1>10, <1>11, <1>12 DEF WorkerStep

\* The steps of the streamer keep the types.
LEMMA StreamerTyped ==
  ASSUME Typed, StreamerStep
  PROVE  Typed'
<1> USE DEF Typed, TypeOK, itemVars, fileVars, workerVars
<1>1. ASSUME NEW i \in Items, AirClaim(i) PROVE Typed'
  BY <1>1, SourceIsAsset DEF AirClaim, Targeted, Cleaning
<1>2. CASE PlayEnds("completed", "count") \/ PlayEnds("failed", "idle")
  BY <1>2 DEF PlayEnds, Targeted, Cleaning
<1>3. CASE CountActive
  BY <1>3 DEF CountActive, Targeted, Cleaning
<1>4. CASE UnlinkDownload
  BY <1>4 DEF UnlinkDownload, Targeted, Cleaning, Contents
<1>5. CASE ForgetPath
  BY <1>5 DEF ForgetPath, Targeted, Cleaning
<1> QED BY <1>1, <1>2, <1>3, <1>4, <1>5 DEF StreamerStep

\* An outside event is counted.
LEMMA HappensTyped ==
  ASSUME TypeOK, NEW e \in External, Happens(e)
  PROVE  used' \in [External -> Nat]
<1>1. used[e] + 1 \in Nat
  BY DEF TypeOK
<1> QED BY <1>1 DEF Happens, TypeOK

\* The outside events keep the types.
LEMMA OutsideTyped ==
  ASSUME Typed, Outside \/ UNCHANGED vars
  PROVE  Typed'
<1> USE DEF Typed, TypeOK, itemVars, fileVars, workerVars, streamerVars
<1>1. ASSUME NEW i \in Items, Plan(i) \/ Requeue(i) PROVE Typed'
  <2>1. used' \in [External -> Nat]
    BY <1>1, HappensTyped DEF Plan, Requeue, External
  <2> QED BY <1>1, <2>1 DEF Plan, Requeue, Targeted, Cleaning
<1>2. ASSUME NEW a \in Assets, RemoveDownload(a) PROVE Typed'
  <2>1. used' \in [External -> Nat]
    BY <1>2, HappensTyped DEF RemoveDownload, External
  <2> QED BY <1>2, <2>1 DEF RemoveDownload, Targeted, Cleaning, Contents
<1>3. ASSUME NEW w \in Workers, WorkerCrash(w) PROVE Typed'
  <2>1. used' \in [External -> Nat]
    BY <1>3, HappensTyped DEF WorkerCrash, External
  <2> QED BY <1>3, <2>1, SettleTyped
          DEF WorkerCrash, Goto, Targeted, Cleaning, Contents, NothingKnown
<1>4. CASE StreamerCrash
  <2>1. used' \in [External -> Nat]
    BY <1>4, HappensTyped DEF StreamerCrash, External
  <2> QED BY <1>4, <2>1 DEF StreamerCrash, Targeted, Cleaning
<1>5. CASE StartSweep
  <2>1. used' \in [External -> Nat]
    BY <1>5, HappensTyped DEF StartSweep, External
  <2> QED BY <1>5, <2>1 DEF StartSweep, Targeted, Cleaning
<1>6. ASSUME NEW a \in Assets, SweepDownload(a) \/ SweepPart(a) PROVE Typed'
  BY <1>6 DEF SweepDownload, SweepPart, Targeted, Cleaning, Contents
<1>7. CASE EndSweep
  BY <1>7 DEF EndSweep, Targeted, Cleaning
<1>8. CASE UNCHANGED vars
  BY <1>8 DEF vars, Targeted, Cleaning
<1> QED BY <1>1, <1>2, <1>3, <1>4, <1>5, <1>6, <1>7, <1>8 DEF Outside, Sweeper

\* Types are kept by every behaviour, with any number of workers.
THEOREM TypedHolds == Spec => []Typed
<1>1. Typed /\ [Next]_vars => Typed'
  BY WorkerTyped, StreamerTyped, OutsideTyped DEF Next
<1> QED BY InitTyped, <1>1, PTL DEF Spec

\* Every variable keeps its type.
THEOREM Typing == Spec => []TypeOK
<1>1. Typed => TypeOK
  BY DEF Typed
<1> QED BY <1>1, TypedHolds, PTL

-----------------------------------------------------------------------------
(* Whole sources.                                                          *)

\* While it fetches, a worker that has the asset to itself is alone at ".part",
\* apart from deletions.
LEMMA WorkerKeepsWhole ==
  ASSUME Typed, NamesWhole, FetchApart, NEW w \in Workers, WorkerStep(w)
  PROVE  NamesWhole'
<1> USE SpoolAssumption DEF Typed, TypeOK, NamesWhole, FetchApart, Fetching, Goto, OnlyFiles, fileVars
<1>0. \A a \in Assets : dest[a] # w
  OBVIOUS
<1>1. ASSUME NEW i \in Items, PrepClaim(w, i) PROVE NamesWhole'
  BY <1>1 DEF PrepClaim
<1>2. CASE EndCycle(w)
  BY <1>2 DEF EndCycle
<1>3. CASE UseStored(w)
  BY <1>3 DEF UseStored
<1>4. CASE StartFetch(w)
  BY <1>4 DEF StartFetch
<1>5. CASE Open(w)
  <2>1. target[w] \in Assets
    BY <1>5 DEF Open, Targeted
  <2>2. /\ part' = [part EXCEPT ![target[w]] = w] /\ dest' = dest
        /\ pc' = [pc EXCEPT ![w] = "write"] /\ target' = target
    BY <1>5 DEF Open
  <2>3. \A v \in Workers \ {w} : Fetching(v) => target[v] # target[w]
    BY <1>5 DEF Open
  <2> QED BY <2>1, <2>2, <2>3
<1>6. CASE WriteEnds(w)
  <2>1. dest' = dest
    BY <1>6, <1>0 DEF WriteEnds, Settle
  <2>2. \A a \in Assets : part'[a] = IF part[a] = w THEN "whole" ELSE part[a]
    BY <1>6 DEF WriteEnds, Settle
  <2>3. target' = target /\ pc' = [pc EXCEPT ![w] = "replace"] /\ pc[w] = "write"
    BY <1>6 DEF WriteEnds
  <2>4. \A v \in Workers : pc[v] \in {"write", "replace"} => target[v] \in Assets
    BY DEF Targeted
  <2>5. \A v \in Workers : pc'[v] = "write" => part'[target'[v]] \in {v, "absent"}
    BY <2>2, <2>3, <2>4
  <2>6. \A v \in Workers : pc'[v] = "replace" => part'[target'[v]] \in {"whole", "absent"}
    BY <2>2, <2>3, <2>4
  <2>7. \A v \in Workers, a \in Assets : part'[a] = v => pc'[v] = "write" /\ target'[v] = a
    BY <2>2, <2>3
  <2> QED BY <2>1, <2>5, <2>6, <2>7
<1>7. CASE Replace(w)
  BY <1>7 DEF Replace, Targeted
<1>8. CASE StorePath(w)
  BY <1>8 DEF StorePath
<1>9. CASE NormalizeThenMusic(w)
  BY <1>9 DEF NormalizeThenMusic
<1>10. CASE FinishItem(w)
  BY <1>10 DEF FinishItem
<1>11. CASE FetchFails(w)
  <2>1. dest' = dest
    BY <1>11, <1>0 DEF FetchFails, Settle
  <2>2. \A a \in Assets : part[a] = w => a = target[w]
    BY <1>11 DEF FetchFails
  <2> QED BY <1>11, <2>1, <2>2 DEF FetchFails, Fail, Targeted
<1>12. CASE PrepareFails(w)
  BY <1>12 DEF PrepareFails, Fail
<1> QED
  BY <1>1, <1>2, <1>3, <1>4, <1>5, <1>6, <1>7, <1>8, <1>9, <1>10, <1>11, <1>12 DEF WorkerStep

\* The streamer, the operator and the sweeper only ever delete; a crash tears
\* ".part" and sends the worker back.
LEMMA OthersKeepWhole ==
  ASSUME Typed, NamesWhole, StreamerStep \/ Outside \/ UNCHANGED vars
  PROVE  NamesWhole'
<1> USE SpoolAssumption
        DEF Typed, TypeOK, NamesWhole, itemVars, fileVars, workerVars, streamerVars
<1>1. CASE StreamerStep
  BY <1>1 DEF StreamerStep, AirClaim, PlayEnds, CountActive, UnlinkDownload, ForgetPath
<1>2. ASSUME NEW i \in Items, Plan(i) \/ Requeue(i) PROVE NamesWhole'
  BY <1>2 DEF Plan, Requeue
<1>3. ASSUME NEW a \in Assets, RemoveDownload(a) PROVE NamesWhole'
  BY <1>3 DEF RemoveDownload
<1>4. ASSUME NEW w \in Workers, WorkerCrash(w) PROVE NamesWhole'
  <2>1. dest' = dest
    BY <1>4 DEF WorkerCrash, Settle
  <2>2. \A a \in Assets : part'[a] = IF part[a] = w THEN "torn" ELSE part[a]
    BY <1>4 DEF WorkerCrash, Settle
  <2>3. pc' = [pc EXCEPT ![w] = "idle"] /\ target' = target
    BY <1>4 DEF WorkerCrash, Goto
  <2>4. \A v \in Workers : pc[v] \in {"write", "replace"} => target[v] \in Assets
    BY DEF Targeted
  <2>5. \A v \in Workers : pc'[v] = "write" => part'[target'[v]] \in {v, "absent"}
    BY <2>2, <2>3, <2>4
  <2>6. \A v \in Workers : pc'[v] = "replace" => part'[target'[v]] \in {"whole", "absent"}
    BY <2>2, <2>3, <2>4
  <2>7. \A v \in Workers, a \in Assets : part'[a] = v => pc'[v] = "write" /\ target'[v] = a
    BY <2>2, <2>3
  <2> QED BY <2>1, <2>5, <2>6, <2>7
<1>5. CASE StreamerCrash
  BY <1>5 DEF StreamerCrash
<1>6. CASE StartSweep
  BY <1>6 DEF StartSweep
<1>7. ASSUME NEW a \in Assets, SweepDownload(a) PROVE NamesWhole'
  BY <1>7 DEF SweepDownload
<1>8. ASSUME NEW a \in Assets, SweepPart(a) PROVE NamesWhole'
  BY <1>8 DEF SweepPart
<1>9. CASE EndSweep \/ UNCHANGED vars
  BY <1>9 DEF EndSweep, vars
<1> QED BY <1>1, <1>2, <1>3, <1>4, <1>5, <1>6, <1>7, <1>8, <1>9 DEF Outside, Sweeper

\* As long as no two workers fetch the same asset at the same time, nobody reads
\* a file that is being written or was given up, whatever crashes, cleanups and
\* re-queues happen: it takes two fetches of one asset to tear a source.
THEOREM ApartWorkersReadWhole == Spec /\ []FetchApart => []SourceIsWhole
<1>1. Init => NamesWhole
  BY SpoolAssumption DEF Init, NamesWhole
<1>2. Typed /\ NamesWhole /\ FetchApart /\ [Next]_vars => NamesWhole'
  BY WorkerKeepsWhole, OthersKeepWhole DEF Next
<1>3. Typed /\ NamesWhole => SourceIsWhole
  BY DEF Typed, Targeted, NamesWhole, SourceIsWhole
<1> QED BY <1>1, <1>2, <1>3, TypedHolds, PTL DEF Spec

\* A single prep worker has nobody to meet.
THEOREM LoneWorkerReadsWhole ==
  ASSUME \A v, w \in Workers : v = w
  PROVE  Spec => []SourceIsWhole
<1>1. FetchApart
  BY DEF FetchApart
<1> QED BY <1>1, ApartWorkersReadWhole, PTL

-----------------------------------------------------------------------------
(* What is needed is kept, and what is kept is referenced.                 *)

\* Every claimed item has one worker, which treats one of its sources; only
\* prepared items go on air; a sweep has been counted.
Claimed ==
    /\ \A w \in Workers : pc[w] # "idle" =>
          prep[item[w]] = "preparing" /\ target[w] \in Sources(item[w])
    /\ \A v, w \in Workers : pc[v] # "idle" /\ pc[w] # "idle" /\ item[v] = item[w] => v = w
    /\ \A i \in Items : prep[i] # "ready" => stream[i] = "queued"
    /\ spc # "idle" => prep[sItem] = "ready"
    /\ sweep # Null => used["sweep"] > 0

\* Nobody prepares, or is still to prepare, an item with this video.
Settled(a) == \A i \in Items : VideoOf[i] = a => prep[i] \notin {"queued", "preparing"}

Untouched == used["plan"] + used["requeue"] = 0

\* What the streamer has found unreferenced stays so.
Doomed == Untouched /\ spc \in {"unlink", "forget"} => Settled(VideoOf[sItem])

\* NeededIsKept, from the moment the file has its name.
Kept ==
    used["plan"] + used["requeue"] + used["remove"] + used["sweep"] = 0 =>
        \A w \in Workers : pc[w] \in {"store", "use"} => dest[target[w]] # "absent"

\* A path that a session knows is still stored while an item needs it, and
\* NoOrphan.
Referenced ==
    used["crash"] + used["plan"] + used["requeue"] = 0 =>
        /\ \A w \in Workers, i \in Items : \A a \in Sources(i) :
              known[w][a] = "stored" /\ prep[i] \in {"queued", "preparing"} => path[a] = "stored"
        /\ spc = "forget" => dest[VideoOf[sItem]] = "absent"
        /\ NoOrphan

\* No asset is shown in one item and mixed into another: the planner takes its
\* videos and its music by their kind.
NoVideoIsMusic == \A i, j \in Items : VideoOf[i] # MusicOf[j]

\* The claims are kept by the steps of a worker.
LEMMA WorkerKeepsClaims ==
  ASSUME Typed, Claimed, NEW w \in Workers, WorkerStep(w)
  PROVE  Claimed'
<1> USE DEF Typed, TypeOK, Targeted, Cleaning, Claimed, Goto, OnlyFiles, itemVars, fileVars, streamerVars
<1>1. ASSUME NEW i \in Items, PrepClaim(w, i) PROVE Claimed'
  BY <1>1 DEF PrepClaim, Sources
<1>2. CASE EndCycle(w) \/ UseStored(w) \/ StartFetch(w) \/ Open(w) \/ WriteEnds(w) \/ Replace(w) \/ StorePath(w)
  <2>1. /\ UNCHANGED <<prep, stream, item, target, spc, sItem, sweep, used>>
        /\ pc[w] = "idle" => pc' = pc
        /\ \A v \in Workers \ {w} : pc'[v] = pc[v]
    BY <1>2 DEF EndCycle, UseStored, StartFetch, Open, WriteEnds, Replace, StorePath
  <2> QED BY <2>1
<1>3. CASE NormalizeThenMusic(w)
  BY <1>3 DEF NormalizeThenMusic, Sources
<1>4. CASE FinishItem(w)
  BY <1>4 DEF FinishItem
<1>5. CASE FetchFails(w) \/ PrepareFails(w)
  BY <1>5 DEF FetchFails, PrepareFails, Fail, Failed
<1> QED BY <1>1, <1>2, <1>3, <1>4, <1>5 DEF WorkerStep

\* The claims are kept by everybody else.
LEMMA OthersKeepClaims ==
  ASSUME Typed, Claimed, StreamerStep \/ Outside \/ UNCHANGED vars
  PROVE  Claimed'
<1> USE DEF Typed, TypeOK, Targeted, Cleaning, Claimed, itemVars, fileVars, workerVars, streamerVars
<1>1. CASE StreamerStep
  BY <1>1 DEF StreamerStep, AirClaim, PlayEnds, CountActive, UnlinkDownload, ForgetPath
<1>2. ASSUME NEW i \in Items, Plan(i) \/ Requeue(i) PROVE Claimed'
  BY <1>2 DEF Plan, Requeue, Happens, External
<1>3. ASSUME NEW a \in Assets, RemoveDownload(a) PROVE Claimed'
  BY <1>3 DEF RemoveDownload, Happens, External
<1>4. ASSUME NEW w \in Workers, WorkerCrash(w) PROVE Claimed'
  BY <1>4 DEF WorkerCrash, Happens, External, Goto
<1>5. CASE StreamerCrash
  BY <1>5 DEF StreamerCrash, Happens, External
<1>6. CASE StartSweep
  BY <1>6 DEF StartSweep, Happens, External
<1>7. CASE EndSweep \/ (\E a \in Assets : SweepDownload(a) \/ SweepPart(a)) \/ UNCHANGED vars
  BY <1>7 DEF EndSweep, SweepDownload, SweepPart, vars
<1> QED BY <1>1, <1>2, <1>3, <1>4, <1>5, <1>6, <1>7 DEF Outside, Sweeper

\* The claims hold in every behaviour.
LEMMA ClaimsHold == Spec => []Claimed
<1>1. Init => Claimed
  BY SpoolAssumption DEF Init, Claimed
<1>2. Typed /\ Claimed /\ [Next]_vars => Claimed'
  BY WorkerKeepsClaims, OthersKeepClaims DEF Next
<1> QED BY <1>1, <1>2, TypedHolds, PTL DEF Spec

\* Workers meet over a file only if two items have a source in common: where
\* none do, any number of workers read whole sources.
THEOREM DisjointItemsReadWhole ==
  ASSUME \A i, j \in Items : i # j => Sources(i) \intersect Sources(j) = {}
  PROVE  Spec => []SourceIsWhole
<1>1. Typed /\ Claimed => FetchApart
  <2> SUFFICES ASSUME Typed, Claimed, NEW v \in Workers, NEW w \in Workers,
                      Fetching(v), Fetching(w), target[v] = target[w]
               PROVE  v = w
    BY DEF FetchApart
  <2>1. /\ item[v] \in Items /\ target[v] \in Sources(item[v])
        /\ item[w] \in Items /\ target[w] \in Sources(item[w])
    BY DEF Fetching, Typed, Targeted, Claimed
  <2>2. item[v] = item[w]
    BY <2>1
  <2> QED BY <2>2 DEF Fetching, Claimed
<1> QED BY <1>1, TypedHolds, ClaimsHold, ApartWorkersReadWhole, PTL

\* What has happened stays counted.
LEMMA UsedGrows ==
  ASSUME Typed, [Next]_vars
  PROVE  \A e \in External : used'[e] >= used[e] /\ used[e] \in Nat /\ used'[e] \in Nat
<1>1. CASE used' = used
  BY <1>1 DEF Typed, TypeOK
<1>2. CASE \E f \in External : Happens(f)
  <2>1. PICK f \in External : Happens(f)
    BY <1>2
  <2>2. used'[f] = used[f] + 1 /\ \A e \in External \ {f} : used'[e] = used[e]
    BY <2>1 DEF Happens, Typed, TypeOK
  <2> QED BY <2>2 DEF Typed, TypeOK
<1>3. ASSUME NEW w \in Workers, WorkerStep(w) PROVE used' = used
  BY <1>3 DEF WorkerStep, PrepClaim, EndCycle, UseStored, StartFetch, Open, WriteEnds, Replace, StorePath,
              NormalizeThenMusic, FinishItem, FetchFails, PrepareFails, Fail, OnlyFiles
<1>4. CASE StreamerStep
  BY <1>1, <1>4 DEF StreamerStep, AirClaim, PlayEnds, CountActive, UnlinkDownload, ForgetPath
<1>5. CASE Outside
  BY <1>1, <1>2, <1>5 DEF Outside, Sweeper, Plan, Requeue, RemoveDownload, WorkerCrash, StreamerCrash,
                          StartSweep, SweepDownload, SweepPart, EndSweep, External
<1> QED BY <1>1, <1>3, <1>4, <1>5 DEF Next, vars

\* Unless somebody plans or re-queues, an item that is not to be prepared will not be.
LEMMA SettledStays ==
  ASSUME Typed, Claimed, [Next]_vars, Untouched', NEW a \in Assets, Settled(a)
  PROVE  Settled(a)'
<1> USE DEF Typed, TypeOK, Settled
<1>1. Untouched
  BY UsedGrows DEF Untouched, External
<1>2. ASSUME NEW w \in Workers, WorkerStep(w) PROVE Settled(a)'
  BY <1>2 DEF WorkerStep, PrepClaim, EndCycle, UseStored, StartFetch, Open, WriteEnds, Replace, StorePath,
              NormalizeThenMusic, FinishItem, FetchFails, PrepareFails, Fail, Failed, OnlyFiles, itemVars
<1>3. ASSUME ~\E w \in Workers : WorkerStep(w) PROVE prep' = prep
  <2>1. ASSUME NEW i \in Items, Plan(i) \/ Requeue(i) PROVE FALSE
    <3>1. PICK e \in {"plan", "requeue"} : Happens(e)
      BY <2>1 DEF Plan, Requeue
    <3>2. used'[e] = used[e] + 1
      BY <3>1 DEF Happens, External
    <3> QED BY <3>1, <3>2, <1>1, UsedGrows DEF Untouched, External
  <2> QED BY <1>3, <2>1
         DEF Next, vars, itemVars, StreamerStep, AirClaim, PlayEnds, CountActive, UnlinkDownload, ForgetPath,
             Outside, Sweeper, RemoveDownload, WorkerCrash, StreamerCrash, StartSweep, SweepDownload,
             SweepPart, EndSweep
<1> QED BY <1>2, <1>3

\* The streamer keeps what it has found about the video of its item.
LEMMA NextDoomed == Typed /\ Claimed /\ Doomed /\ [Next]_vars => Doomed'
<1> SUFFICES ASSUME Typed, Claimed, Doomed, [Next]_vars, Untouched', spc' \in {"unlink", "forget"}
             PROVE  Settled(VideoOf[sItem])'
  BY DEF Doomed, Settled
<1>1. Untouched
  BY UsedGrows DEF Untouched, External
<1>2. sItem' = sItem /\ sItem \in Items /\ spc # "idle"
  <2>1. \A w \in Workers : WorkerStep(w) => UNCHANGED <<spc, sItem>>
    BY DEF WorkerStep, PrepClaim, EndCycle, UseStored, StartFetch, Open, WriteEnds, Replace, StorePath,
           NormalizeThenMusic, FinishItem, FetchFails, PrepareFails, Fail, OnlyFiles, streamerVars
  <2>2. StreamerStep => sItem' = sItem /\ spc # "idle"
    BY DEF StreamerStep, AirClaim, PlayEnds, CountActive, UnlinkDownload, ForgetPath
  <2>3. Outside => spc' = "idle" \/ UNCHANGED <<spc, sItem>>
    BY DEF Outside, Sweeper, Plan, Requeue, RemoveDownload, WorkerCrash, StreamerCrash, StartSweep,
           SweepDownload, SweepPart, EndSweep, streamerVars
  <2> QED BY <2>1, <2>2, <2>3 DEF Next, vars, streamerVars, Typed, Cleaning
<1>3. VideoOf[sItem] \in Assets
  BY <1>2, SourceIsAsset
<1>4. CASE spc \in {"unlink", "forget"}
  BY <1>1, <1>2, <1>3, <1>4, SettledStays DEF Doomed, Settled
<1>5. CASE spc \notin {"unlink", "forget"}
  <2>1. CountActive
    <3>1. spc' # spc
      BY <1>5
    <3>2. \A w \in Workers : WorkerStep(w) => UNCHANGED spc
      BY DEF WorkerStep, PrepClaim, EndCycle, UseStored, StartFetch, Open, WriteEnds, Replace, StorePath,
             NormalizeThenMusic, FinishItem, FetchFails, PrepareFails, Fail, OnlyFiles, streamerVars
    <3>3. Outside => spc' = "idle" \/ UNCHANGED spc
      BY DEF Outside, Sweeper, Plan, Requeue, RemoveDownload, WorkerCrash, StreamerCrash, StartSweep,
             SweepDownload, SweepPart, EndSweep, streamerVars
    <3> QED BY <1>5, <3>1, <3>2, <3>3
           DEF Next, vars, streamerVars, StreamerStep, AirClaim, PlayEnds, UnlinkDownload, ForgetPath
  <2>2. prep' = prep /\ Unreferenced(sItem)
    BY <2>1 DEF CountActive, itemVars
  <2>3. \A j \in Items : VideoOf[j] = VideoOf[sItem] => prep[j] \notin {"queued", "preparing"}
    BY <1>2, <2>2 DEF Unreferenced, Needs, Claimed
  <2> QED BY <1>2, <2>2, <2>3 DEF Settled
<1> QED BY <1>4, <1>5

\* A sum of naturals is zero only if each of them is.
LEMMA NothingInSum ==
  ASSUME NEW k \in Nat, NEW l \in Nat, NEW m \in Nat, NEW n \in Nat, k + l + m + n = 0
  PROVE  k = 0 /\ l = 0 /\ m = 0 /\ n = 0
  OBVIOUS

\* A worker never deletes a download.
LEMMA WorkerKeepsFiles ==
  ASSUME Typed, NEW w \in Workers, WorkerStep(w), NEW a \in Assets, dest[a] # "absent"
  PROVE  dest'[a] # "absent"
<1> USE SpoolAssumption DEF Typed, TypeOK, Targeted, Contents, OnlyFiles, fileVars
<1>1. CASE WriteEnds(w)
  BY <1>1 DEF WriteEnds, Settle
<1>2. CASE Replace(w)
  BY <1>2 DEF Replace
<1>3. CASE FetchFails(w)
  BY <1>3 DEF FetchFails, Settle
<1>4. CASE UNCHANGED dest
  BY <1>4
<1> QED BY <1>1, <1>2, <1>3, <1>4
       DEF WorkerStep, PrepClaim, EndCycle, UseStored, StartFetch, Open, StorePath, NormalizeThenMusic,
           FinishItem, PrepareFails, Fail

\* What the streamer deletes is no source of an item that is to be prepared.
LEMMA DoomedIsNoSource ==
  ASSUME Typed, Doomed, NoVideoIsMusic, Untouched, spc \in {"unlink", "forget"},
         NEW i \in Items, prep[i] \in {"queued", "preparing"}
  PROVE  VideoOf[sItem] \notin Sources(i)
  BY SpoolAssumption DEF Typed, Cleaning, Doomed, Settled, NoVideoIsMusic, Sources, Soundtrack

\* The source a worker uses is kept by its own steps.
LEMMA WorkerKeepsKept ==
  ASSUME Typed, NEW w \in Workers, WorkerStep(w),
         \A v \in Workers : pc[v] \in {"store", "use"} => dest[target[v]] # "absent"
  PROVE  \A v \in Workers : pc'[v] \in {"store", "use"} => dest'[target'[v]] # "absent"
<1>1. SUFFICES ASSUME NEW v \in Workers, pc'[v] \in {"store", "use"} PROVE dest'[target'[v]] # "absent"
  OBVIOUS
<1>2. CASE pc[v] \in {"store", "use"} /\ target'[v] = target[v]
  BY <1>2, WorkerKeepsFiles DEF Typed, Targeted
<1>3. CASE ~(pc[v] \in {"store", "use"} /\ target'[v] = target[v])
  <2> USE DEF Typed, TypeOK, Targeted, Goto
  <2>1. v = w /\ (UseStored(w) \/ Replace(w))
    BY <1>1, <1>3 DEF WorkerStep, PrepClaim, EndCycle, UseStored, StartFetch, Open, WriteEnds, Replace,
           StorePath, NormalizeThenMusic, FinishItem, FetchFails, PrepareFails, Fail, OnlyFiles
  <2> QED BY <2>1 DEF UseStored, Replace, InSpool, OnlyFiles, fileVars
<1> QED BY <1>2, <1>3

\* The source a worker uses is kept by every step.
LEMMA NextKept ==
  ASSUME Typed, Claimed, Doomed, Kept, NoVideoIsMusic, [Next]_vars, Claimed'
  PROVE  Kept'
<1> SUFFICES ASSUME (used["plan"] + used["requeue"] + used["remove"] + used["sweep"] = 0)'
             PROVE  (\A w \in Workers : pc[w] \in {"store", "use"} => dest[target[w]] # "absent")'
  BY DEF Kept
<1>1. \A e \in External \ {"crash"} : used[e] = 0 /\ used'[e] = 0
  <2>1. \A e \in External : used'[e] >= used[e] /\ used[e] \in Nat /\ used'[e] \in Nat
    BY UsedGrows
  <2>2. \A e \in {"plan", "requeue", "remove", "sweep"} : used[e] \in Nat /\ used'[e] \in Nat /\ used'[e] >= used[e]
    BY <2>1 DEF External
  <2>3. used'["plan"] + used'["requeue"] + used'["remove"] + used'["sweep"] = 0
    OBVIOUS
  <2>4. used'["plan"] = 0 /\ used'["requeue"] = 0 /\ used'["remove"] = 0 /\ used'["sweep"] = 0
    <3>1. /\ used'["plan"] \in Nat /\ used'["requeue"] \in Nat
          /\ used'["remove"] \in Nat /\ used'["sweep"] \in Nat
      BY <2>2
    <3> DEFINE k == used'["plan"]
           l == used'["requeue"]
           m == used'["remove"]
           n == used'["sweep"]
    <3>2. k \in Nat /\ l \in Nat /\ m \in Nat /\ n \in Nat /\ k + l + m + n = 0
      BY <2>3, <3>1
    <3> HIDE DEF k, l, m, n
    <3>3. k = 0 /\ l = 0 /\ m = 0 /\ n = 0
      BY <3>2, NothingInSum
    <3> QED BY <3>3 DEF k, l, m, n
  <2>5. used["plan"] = 0 /\ used["requeue"] = 0 /\ used["remove"] = 0 /\ used["sweep"] = 0
    BY <2>2, <2>4
  <2> QED BY <2>4, <2>5 DEF External
<1>2. \A w \in Workers : pc[w] \in {"store", "use"} => dest[target[w]] # "absent"
  BY <1>1 DEF Kept, External
<1>3. sweep = Null /\ sweep' = Null /\ Untouched
  BY <1>1 DEF Claimed, Untouched, External
<1>4. ASSUME NEW w \in Workers, WorkerStep(w) PROVE \A v \in Workers : pc'[v] \in {"store", "use"} => dest'[target'[v]] # "absent"
  BY <1>2, <1>4, WorkerKeepsKept
<1>5. CASE UnlinkDownload
  <2>1. \A w \in Workers : pc[w] \in {"store", "use"} => target[w] # VideoOf[sItem]
    BY <1>3, <1>5, DoomedIsNoSource DEF UnlinkDownload, Claimed, Typed, Targeted
  <2> QED BY <1>2, <1>5, <2>1 DEF UnlinkDownload, workerVars, Typed, TypeOK, Targeted
<1>6. ASSUME NEW w \in Workers, WorkerCrash(w) PROVE \A v \in Workers : pc'[v] \in {"store", "use"} => dest'[target'[v]] # "absent"
  <2>1. ASSUME NEW v \in Workers, pc'[v] \in {"store", "use"} PROVE dest'[target[v]] # "absent"
    <3>1. v # w /\ dest[target[v]] # "absent"
      BY <1>2, <1>6, <2>1 DEF WorkerCrash, Goto, Typed, TypeOK
    <3> QED BY <1>6, <3>1, <2>1 DEF WorkerCrash, Settle, Goto, Typed, TypeOK, Targeted
  <2> QED BY <1>6, <2>1 DEF WorkerCrash
<1>7. ASSUME NEW a \in Assets, RemoveDownload(a) PROVE FALSE
  BY <1>1, <1>7 DEF RemoveDownload, Happens, External, Typed, TypeOK
<1>8. CASE UNCHANGED <<pc, target, dest>>
  BY <1>2, <1>8
<1> QED BY <1>3, <1>4, <1>5, <1>6, <1>7, <1>8
       DEF Next, vars, StreamerStep, AirClaim, PlayEnds, CountActive, ForgetPath, Outside, Sweeper, Plan, Requeue,
           StreamerCrash, StartSweep, SweepDownload, SweepPart, EndSweep, fileVars, workerVars

\* While nobody plans, re-queues, removes or sweeps, no source is deleted under
\* the hands of the worker that is about to read it.
THEOREM NeededStays ==
  ASSUME NoVideoIsMusic
  PROVE  Spec => []NeededIsKept
<1>1. Init => Claimed /\ Doomed /\ Kept
  BY SpoolAssumption DEF Init, Claimed, Doomed, Kept
<1>2. Typed /\ Typed' /\ Claimed /\ Doomed /\ Kept /\ [Next]_vars => (Claimed /\ Doomed /\ Kept)'
  BY WorkerKeepsClaims, OthersKeepClaims, NextDoomed, NextKept DEF Next
<1>3. Typed /\ Kept => NeededIsKept
  BY DEF Kept, NeededIsKept
<1> QED BY <1>1, <1>2, <1>3, TypedHolds, PTL DEF Spec

\* While nothing crashes or comes in, what a worker does keeps every known path
\* stored and every download referenced.
LEMMA WorkerKeepsReferenced ==
  ASSUME Typed, Claimed, Doomed, NoVideoIsMusic, Untouched, used["crash"] = 0, Referenced,
         NEW w \in Workers, WorkerStep(w)
  PROVE  Referenced'
<1> USE SpoolAssumption DEF Typed, TypeOK, Targeted
<1> DEFINE Stored == \A v \in Workers, i \in Items : \A a \in Sources(i) :
                known[v][a] = "stored" /\ prep[i] \in {"queued", "preparing"} => path[a] = "stored"
           Gone == spc = "forget" => dest[VideoOf[sItem]] = "absent"
           Owned == \A a \in Assets : path[a] = "none" /\ dest[a] # "absent" =>
                        \E v \in Workers : pc[v] = "store" /\ target[v] = a
<1>0. Stored /\ Gone /\ Owned
  BY DEF Referenced, NoOrphan, Untouched, External
<1>1. \A i \in Items : Sources(i) \subseteq Assets
  BY SourceIsAsset DEF Sources
<1>2. Stored'
  <2>1. CASE \E i \in Items : PrepClaim(w, i)
    BY <1>0, <1>1, <2>1 DEF PrepClaim
  <2>2. CASE EndCycle(w)
    BY <1>0, <1>1, <2>2 DEF EndCycle, NothingKnown, itemVars
  <2>3. CASE StorePath(w)
    BY <1>0, <1>1, <2>3 DEF StorePath, itemVars
  <2>4. CASE FinishItem(w) \/ PrepareFails(w) \/ FetchFails(w)
    BY <1>0, <1>1, <2>4 DEF FinishItem, PrepareFails, FetchFails, Fail, Failed
  <2>5. CASE UNCHANGED <<known, prep, path>>
    BY <1>0, <2>5
  <2> QED BY <2>1, <2>2, <2>3, <2>4, <2>5
         DEF WorkerStep, UseStored, StartFetch, Open, WriteEnds, Replace, NormalizeThenMusic, OnlyFiles, itemVars
<1>3. UNCHANGED <<spc, sItem>>
  BY DEF WorkerStep, PrepClaim, EndCycle, UseStored, StartFetch, Open, WriteEnds, Replace, StorePath,
         NormalizeThenMusic, FinishItem, FetchFails, PrepareFails, Fail, OnlyFiles, streamerVars
<1>4. Gone'
  <2>1. SUFFICES ASSUME spc = "forget" PROVE dest'[VideoOf[sItem]] = "absent"
    BY <1>3
  <2>2. dest[VideoOf[sItem]] = "absent" /\ VideoOf[sItem] \in Assets
    BY <1>0, <2>1, SourceIsAsset DEF Cleaning
  <2>3. CASE Replace(w)
    <3>1. target[w] # VideoOf[sItem]
      BY <2>1, <2>3, DoomedIsNoSource DEF Replace, Claimed
    <3> QED BY <2>2, <2>3, <3>1 DEF Replace
  <2>4. CASE WriteEnds(w) \/ FetchFails(w)
    BY <2>2, <2>4 DEF WriteEnds, FetchFails, Settle
  <2>5. CASE UNCHANGED dest
    BY <2>2, <2>5
  <2> QED BY <2>3, <2>4, <2>5
         DEF WorkerStep, PrepClaim, EndCycle, UseStored, StartFetch, Open, StorePath, NormalizeThenMusic,
             FinishItem, PrepareFails, Fail, OnlyFiles, fileVars
<1>5. Owned'
  <2>1. SUFFICES ASSUME NEW a \in Assets, path'[a] = "none", dest'[a] # "absent"
                 PROVE  \E v \in Workers : pc'[v] = "store" /\ target'[v] = a
    OBVIOUS
  <2>2. path[a] = "none"
    BY <2>1 DEF WorkerStep, PrepClaim, EndCycle, UseStored, StartFetch, Open, WriteEnds, Replace, StorePath,
           NormalizeThenMusic, FinishItem, FetchFails, PrepareFails, Fail, OnlyFiles
  <2>3. CASE Replace(w)
    <3>1. CASE a = target[w]
      BY <2>3, <3>1 DEF Replace, Goto, OnlyFiles
    <3>2. CASE a # target[w]
      <4>1. PICK v \in Workers : pc[v] = "store" /\ target[v] = a
        BY <1>0, <2>1, <2>2, <2>3, <3>2 DEF Replace
      <4> QED BY <2>3, <4>1 DEF Replace, Goto, OnlyFiles
    <3> QED BY <3>1, <3>2
  <2>4. CASE StorePath(w)
    <3>1. a # target[w]
      <4>1. CASE known[w][target[w]] = "stored"
        <5>1. prep[item[w]] = "preparing" /\ target[w] \in Sources(item[w])
          BY <2>4 DEF StorePath, Claimed
        <5>2. path[target[w]] = "stored"
          BY <1>0, <2>4, <4>1, <5>1 DEF StorePath
        <5> QED BY <2>2, <5>2
      <4>2. CASE known[w][target[w]] # "stored"
        BY <2>1, <2>4, <4>2 DEF StorePath
      <4> QED BY <4>1, <4>2
    <3>2. PICK v \in Workers : pc[v] = "store" /\ target[v] = a
      BY <1>0, <2>1, <2>2, <2>4 DEF StorePath, fileVars
    <3> QED BY <2>4, <3>1, <3>2 DEF StorePath, Goto
  <2>5. CASE ~Replace(w) /\ ~StorePath(w)
    <3>1. dest[a] # "absent"
      BY <2>1, <2>5 DEF WorkerStep, PrepClaim, EndCycle, UseStored, StartFetch, Open, WriteEnds,
             NormalizeThenMusic, FinishItem, FetchFails, PrepareFails, Fail, OnlyFiles, fileVars, Settle
    <3>2. PICK v \in Workers : pc[v] = "store" /\ target[v] = a
      BY <1>0, <2>2, <3>1
    <3>3. pc[w] # "store"
      BY <2>5 DEF WorkerStep, PrepClaim, EndCycle, UseStored, StartFetch, Open, WriteEnds,
             NormalizeThenMusic, FinishItem, FetchFails, PrepareFails
    <3>4. \A u \in Workers \ {w} : pc'[u] = pc[u] /\ target'[u] = target[u]
      BY <2>5 DEF WorkerStep, PrepClaim, EndCycle, UseStored, StartFetch, Open, WriteEnds,
             NormalizeThenMusic, FinishItem, FetchFails, PrepareFails, Fail, OnlyFiles, Goto
    <3> QED BY <3>2, <3>3, <3>4
  <2> QED BY <2>3, <2>4, <2>5
<1> QED BY <1>2, <1>4, <1>5 DEF Referenced, NoOrphan

\* The streamer forgets a path only when the download is gone; the others that
\* delete, delete only.
LEMMA OthersKeepReferenced ==
  ASSUME Typed, Claimed, Doomed, NoVideoIsMusic, Untouched, used["crash"] = 0, used'["crash"] = 0, Untouched',
         Referenced, StreamerStep \/ Outside \/ UNCHANGED vars
  PROVE  Referenced'
<1> USE SpoolAssumption DEF Typed, TypeOK, Targeted, Cleaning
<1> DEFINE Stored == \A v \in Workers, i \in Items : \A a \in Sources(i) :
                known[v][a] = "stored" /\ prep[i] \in {"queued", "preparing"} => path[a] = "stored"
           Gone == spc = "forget" => dest[VideoOf[sItem]] = "absent"
           Owned == \A a \in Assets : path[a] = "none" /\ dest[a] # "absent" =>
                        \E v \in Workers : pc[v] = "store" /\ target[v] = a
<1>0. Stored /\ Gone /\ Owned
  BY DEF Referenced, NoOrphan, Untouched, External
<1>1. SUFFICES Stored' /\ Gone' /\ Owned'
  BY DEF Referenced, NoOrphan
<1>2. CASE UnlinkDownload
  BY <1>0, <1>2, SourceIsAsset DEF UnlinkDownload, itemVars, workerVars
<1>3. CASE ForgetPath
  <2>1. \A i \in Items : prep[i] \in {"queued", "preparing"} => VideoOf[sItem] \notin Sources(i)
    BY <1>3, DoomedIsNoSource DEF ForgetPath
  <2>2. \A i \in Items : Sources(i) \subseteq Assets
    BY SourceIsAsset DEF Sources
  <2>3. Stored'
    BY <1>0, <1>3, <2>1, <2>2 DEF ForgetPath, itemVars, workerVars
  <2>4. Gone' /\ Owned'
    BY <1>0, <1>3 DEF ForgetPath, fileVars, workerVars
  <2> QED BY <2>3, <2>4
<1>4. ASSUME NEW a \in Assets, RemoveDownload(a) \/ SweepDownload(a) PROVE Stored' /\ Gone' /\ Owned'
  BY <1>0, <1>4, SourceIsAsset DEF RemoveDownload, SweepDownload, itemVars, workerVars, streamerVars
<1>5. ASSUME Happens("plan") \/ Happens("requeue") \/ Happens("crash") PROVE FALSE
  BY <1>5 DEF Happens, Untouched, External
<1>6. CASE UNCHANGED <<prep, path, dest, pc, target, known>> /\ spc' # "forget"
  BY <1>0, <1>6
<1>7. CASE UNCHANGED <<prep, path, dest, pc, target, known, spc, sItem>>
  BY <1>0, <1>7
<1> QED BY <1>2, <1>3, <1>4, <1>5, <1>6, <1>7
       DEF vars, StreamerStep, AirClaim, PlayEnds, CountActive, Outside, Sweeper, Plan, Requeue, WorkerCrash,
           StreamerCrash, StartSweep, SweepPart, EndSweep, itemVars, fileVars, workerVars, streamerVars

\* Every step keeps what is referenced.
LEMMA NextReferenced ==
  ASSUME Typed, Claimed, Doomed, Referenced, NoVideoIsMusic, [Next]_vars
  PROVE  Referenced'
<1>1. CASE (used["crash"] + used["plan"] + used["requeue"] = 0)'
  <2>1. \A e \in External : used'[e] >= used[e] /\ used[e] \in Nat /\ used'[e] \in Nat
    BY UsedGrows
  <2>2. \A e \in {"crash", "plan", "requeue"} : used[e] \in Nat /\ used'[e] \in Nat /\ used'[e] >= used[e]
    BY <2>1 DEF External
  <2>3. used'["crash"] = 0 /\ used'["plan"] = 0 /\ used'["requeue"] = 0
    <3>1. used'["crash"] \in Nat /\ used'["plan"] \in Nat /\ used'["requeue"] \in Nat
      BY <2>2
    <3>2. used'["crash"] + used'["plan"] + used'["requeue"] + 0 = 0
      BY <1>1, <3>1
    <3> QED BY <3>1, <3>2, NothingInSum
  <2>4. used["crash"] = 0 /\ Untouched /\ Untouched'
    BY <2>2, <2>3 DEF Untouched
  <2> QED BY <2>3, <2>4, WorkerKeepsReferenced, OthersKeepReferenced DEF Next
<1>2. CASE ~(used["crash"] + used["plan"] + used["requeue"] = 0)'
  BY <1>2 DEF Referenced
<1> QED BY <1>1, <1>2

\* While nothing crashes, is planned or re-queued, every download is referenced
\* by its asset or by the worker that has just moved it there.
THEOREM NothingOrphaned ==
  ASSUME NoVideoIsMusic
  PROVE  Spec => []NoOrphan
<1>1. Init => Claimed /\ Doomed /\ Referenced
  BY SpoolAssumption, SourceIsAsset DEF Init, Claimed, Doomed, Referenced, NoOrphan, NothingKnown, Sources
<1>2. Typed /\ Claimed /\ Doomed /\ Referenced /\ [Next]_vars => (Claimed /\ Doomed /\ Referenced)'
  BY WorkerKeepsClaims, OthersKeepClaims, NextDoomed, NextReferenced DEF Next
<1>3. Referenced => NoOrphan
  BY DEF Referenced, NoOrphan
<1> QED BY <1>1, <1>2, <1>3, TypedHolds, PTL DEF Spec
=============================================================================
