----------------------------- MODULE DailyProofs -----------------------------
(***************************************************************************)
(* Proofs about Daily, for any sessions and what they are cast for, sites, *)
(* links, budgets and faults: what is added, counted, reported and         *)
(* blocked, and that sessions waiting for rows never wait in a chain.      *)
(***************************************************************************)
EXTENDS Daily, FiniteSetTheorems, TLAPS

-----------------------------------------------------------------------------
(* Types.                                                                  *)

\* A session is at a job of its own, or over with the last.
Placed ==
    \A s \in Sessions :
        /\ pc[s] = "over" <=> job[s] = "over"
        /\ IF kind[s] = "daily" THEN job[s] \in Daily \union {"over"} ELSE job[s] \in {kind[s], "over"}

Typed == TypeOK /\ Placed

LEMMA Kinship ==
  ASSUME TypeOK, NEW s \in Sessions
  PROVE  kind[s] \in Kinds
  BY AcquisitionAssumption DEF TypeOK

LEMMA FollowingType ==
  ASSUME NEW j \in Daily
  PROVE  Following[j] \in (Daily \union {"over"}) \ {"adjust"}
  BY DEF Daily, Following

LEMMA FirstJobType ==
  ASSUME NEW k \in Kinds
  PROVE  /\ FirstJob[k] \in Jobs
         /\ IF k = "daily" THEN FirstJob[k] = "adjust" ELSE FirstJob[k] = k
  BY DEF Kinds, Jobs, Daily, FirstJob

LEMMA AfterType ==
  ASSUME Typed, NEW s \in Sessions, job[s] # "over"
  PROVE  /\ After(s) \in Jobs \union {"over"}
         /\ kind[s] = "daily" => After(s) \in Daily \union {"over"}
         /\ kind[s] # "daily" => After(s) = "over"
  BY FollowingType DEF Typed, Placed, After, Jobs

\* TypeOK, by what the variables are for.
TablesTyped ==
    /\ candidates \in SUBSET Ids
    /\ direct \in SUBSET Ids
    /\ runs \in [Sessions -> [status : Statuses, found : Nat]]
    /\ enriched \in SUBSET Ids
    /\ rights \in [Ids -> {"pending_review", "approved_for_stream", "blocked"}]
    /\ lineups \in [Sessions -> {"none", "draft", "emitted"}]
    /\ reported \in BOOLEAN
PendingTyped ==
    /\ added \in [Sessions -> SUBSET Links]
    /\ run \in [Sessions -> Statuses]
    /\ locked \in [Sessions -> SUBSET Ids]
    /\ tuned \in [Sessions -> BOOLEAN]
PlaceTyped ==
    /\ job \in [Sessions -> Jobs \union {"over"}]
    /\ pc \in [Sessions -> {"off", "ready", "underway", "recording", "over", "dead"}]
    /\ errors \in [Sessions -> SUBSET Jobs]
    /\ broken \in [Sessions -> BOOLEAN]
    /\ Placed
WorkTyped ==
    /\ todo \in [Sessions -> SUBSET Links]
    /\ found \in [Sessions -> Nat]
    /\ sites \in [Sessions -> SUBSET Sites]
    /\ site \in [Sessions -> Sites \union {Null}]
    /\ searches \in [Sessions -> 0..Searches]
    /\ count \in [Sessions -> 0..Budget]
    /\ batch \in [Sessions -> SUBSET Ids]
    /\ sawReport \in [Sessions -> BOOLEAN]
HistoryTyped ==
    /\ kind \in Casts
    /\ known \in [Sessions -> SUBSET Ids]
    /\ vetoed \in SUBSET Ids
    /\ outside \in 0..Limit

LEMMA TypedParts == Typed <=> TablesTyped /\ PendingTyped /\ PlaceTyped /\ WorkTyped /\ HistoryTyped
  BY DEF Typed, TypeOK, TablesTyped, PendingTyped, PlaceTyped, WorkTyped, HistoryTyped

LEMMA InitTyped == Init => Typed
<1> SUFFICES ASSUME Init PROVE Typed
  OBVIOUS
<1>1. kind \in Casts /\ kind \in [Sessions -> Kinds]
  BY AcquisitionAssumption DEF Init
<1>2. TablesTyped
  BY DEF Init, TablesTyped, Statuses
<1>3. PendingTyped
  BY DEF Init, PendingTyped, Statuses
<1>4. PlaceTyped
  <2>1. ASSUME NEW s \in Sessions
        PROVE  /\ FirstJob[kind[s]] \in Jobs
               /\ IF kind[s] = "daily" THEN FirstJob[kind[s]] = "adjust" ELSE FirstJob[kind[s]] = kind[s]
    BY <1>1, FirstJobType
  <2>2. job \in [Sessions -> Jobs \union {"over"}]
    BY <2>1 DEF Init
  <2>3. Placed
    BY <2>1, <1>1 DEF Init, Placed, Daily, Kinds, Jobs
  <2> QED BY <2>2, <2>3 DEF Init, PlaceTyped
<1>5. WorkTyped
  BY AcquisitionAssumption DEF Init, WorkTyped
<1>6. HistoryTyped
  BY <1>1, AcquisitionAssumption DEF Init, HistoryTyped
<1> QED BY <1>2, <1>3, <1>4, <1>5, <1>6, TypedParts

LEMMA CommitTyped ==
  ASSUME Typed, NEW s \in Sessions, run' \in [Sessions -> Statuses], Commit(s)
  PROVE  /\ enriched' \in SUBSET Ids /\ lineups' \in [Sessions -> {"none", "draft", "emitted"}]
              /\ reported' \in BOOLEAN => TablesTyped'
         /\ PendingTyped'
<1> USE DEF Typed, TypeOK
<1>1. candidates' \in SUBSET Ids
  BY DEF Commit, Visible, Own, Ids
<1>2. runs' \in [Sessions -> [status : Statuses, found : Nat]]
  <2>1. Total(s) \in Nat
    BY DEF Total
  <2> QED BY <2>1 DEF Commit
<1>3. rights' \in [Ids -> {"pending_review", "approved_for_stream", "blocked"}]
  BY DEF Commit
<1>4. direct' = direct
  BY DEF Commit
<1>5. PendingTyped'
  BY DEF Commit, PendingTyped
<1> QED BY <1>1, <1>2, <1>3, <1>4, <1>5 DEF TablesTyped

LEMMA RollbackTyped ==
  ASSUME Typed, NEW s \in Sessions, Rollback(s)
  PROVE  TablesTyped' /\ PendingTyped'
<1> USE DEF Typed, TypeOK, Rollback, ForgetsRows
<1>1. direct' \in SUBSET Ids
  OBVIOUS
<1>2. runs[s].status \in Statuses
  OBVIOUS
<1>3. PendingTyped'
  BY <1>2 DEF PendingTyped
<1> QED BY <1>1, <1>3 DEF TablesTyped

LEMMA EntersTyped ==
  ASSUME Typed, NEW s \in Sessions, pc[s] \in {"off", "ready", "underway"}, kind' = kind,
         NEW p \in {"ready", "underway", "recording"}, Enters(s, p)
  PROVE  PlaceTyped'
  BY DEF Typed, TypeOK, Placed, PlaceTyped, Enters

LEMMA LeavesTyped ==
  ASSUME Typed, NEW s \in Sessions, Alive(s), NEW failures \in SUBSET Jobs, Leaves(s, failures)
  PROVE  /\ broken' \in [Sessions -> BOOLEAN] => PlaceTyped'
         /\ WorkTyped'
         /\ HistoryTyped'
<1>1. job[s] # "over" /\ job[s] \in Jobs
  BY DEF Typed, TypeOK, Placed, Alive
<1>2. /\ After(s) \in Jobs \union {"over"}
      /\ kind[s] = "daily" => After(s) \in Daily \union {"over"}
      /\ kind[s] # "daily" => After(s) = "over"
  BY <1>1, AfterType
<1>3. Placed'
  BY <1>2 DEF Typed, TypeOK, Placed, Leaves, history
<1>4. job' \in [Sessions -> Jobs \union {"over"}] /\ errors' \in [Sessions -> SUBSET Jobs]
  BY <1>2 DEF Typed, TypeOK, Leaves
<1>5. pc' \in [Sessions -> {"off", "ready", "underway", "recording", "over", "dead"}]
  BY DEF Typed, TypeOK, Leaves
<1>6. WorkTyped'
  BY AcquisitionAssumption DEF Typed, TypeOK, Leaves, Forgets, WorkTyped
<1>7. HistoryTyped'
  BY DEF Typed, TypeOK, Leaves, history, HistoryTyped
<1> QED BY <1>3, <1>4, <1>5, <1>6, <1>7 DEF PlaceTyped

LEMMA PartsTyped == TablesTyped' /\ PendingTyped' /\ PlaceTyped' /\ WorkTyped' /\ HistoryTyped' => Typed'
  BY DEF Typed, TypeOK, TablesTyped, PendingTyped, PlaceTyped, WorkTyped, HistoryTyped

LEMMA KeepsTyped ==
  ASSUME Typed
  PROVE  /\ UNCHANGED tables => TablesTyped'
         /\ UNCHANGED pending => PendingTyped'
         /\ UNCHANGED <<place, kind>> => PlaceTyped'
         /\ UNCHANGED working => WorkTyped'
         /\ UNCHANGED history => HistoryTyped'
  BY DEF Typed, TypeOK, Placed, TablesTyped, PendingTyped, PlaceTyped, WorkTyped, HistoryTyped,
         tables, pending, place, working, browsing, history

LEMMA RaisesTyped ==
  ASSUME Typed, NEW s \in Sessions, Alive(s), Raises(s)
  PROVE  Typed'
<1>1. {job[s]} \in SUBSET Jobs
  BY DEF Typed, TypeOK, Placed, Alive
<1>2. broken' \in [Sessions -> BOOLEAN]
  BY DEF Typed, TypeOK, Raises
<1>3. PlaceTyped' /\ WorkTyped' /\ HistoryTyped'
  BY <1>1, <1>2, LeavesTyped DEF Raises
<1>4. TablesTyped' /\ PendingTyped'
  BY RollbackTyped, KeepsTyped DEF Raises
<1> QED BY <1>3, <1>4, PartsTyped

LEMMA RefusedTyped ==
  ASSUME Typed, NEW s \in Sessions, Alive(s), IsRefused(s)
  PROVE  Typed'
<1>1. {job[s]} \in SUBSET Jobs
  BY DEF Typed, TypeOK, Placed, Alive
<1>2. broken' \in [Sessions -> BOOLEAN]
  BY DEF Typed, TypeOK, IsRefused
<1>3. PlaceTyped' /\ WorkTyped' /\ HistoryTyped'
  BY <1>1, <1>2, LeavesTyped DEF IsRefused
<1>4. TablesTyped' /\ PendingTyped'
  BY RollbackTyped DEF IsRefused
<1> QED BY <1>3, <1>4, PartsTyped

LEMMA SucceedsTyped ==
  ASSUME Typed, NEW s \in Sessions, Alive(s), Succeeds(s)
  PROVE  PlaceTyped' /\ WorkTyped' /\ HistoryTyped'
<1>1. broken' \in [Sessions -> BOOLEAN]
  BY DEF Typed, TypeOK, Succeeds
<1> QED BY <1>1, LeavesTyped DEF Succeeds

LEMMA AddTyped ==
  ASSUME Typed, NEW s \in Sessions, NEW l \in Links, NEW authorized \in BOOLEAN, Add(s, l, authorized)
  PROVE  TablesTyped' /\ PendingTyped' /\ found' \in [Sessions -> Nat]
<1>1. direct' \in SUBSET Ids
  BY DEF Typed, TypeOK, Add, Ids
<1>2. added' \in [Sessions -> SUBSET Links]
  BY DEF Typed, TypeOK, Add
<1> QED BY <1>1, <1>2 DEF Typed, TypeOK, Add, TablesTyped, PendingTyped

LEMMA CompletesTyped ==
  ASSUME Typed, NEW s \in Sessions, Alive(s), Completes(s)
  PROVE  Typed'
<1>1. run' \in [Sessions -> Statuses]
  BY DEF Typed, TypeOK, Completes, Statuses
<1>2. PlaceTyped' /\ WorkTyped' /\ HistoryTyped'
  BY SucceedsTyped DEF Completes
<1>3. TablesTyped' /\ PendingTyped'
  BY <1>1, CommitTyped DEF Completes, Typed, TypeOK
<1> QED BY <1>2, <1>3, PartsTyped

LEMMA DiscoveryTyped ==
  ASSUME Typed, NEW s \in Sessions, DiscoveryStep(s)
  PROVE  Typed'
<1> USE DEF At, Browsing, OnSite, Simulating, Treated, AddNothing, tables, pending, place, browsing, history
<1>1. CASE BrowseBegin(s)
  <2>1. TablesTyped' /\ PendingTyped' /\ HistoryTyped'
    BY <1>1 DEF Typed, TypeOK, BrowseBegin, Begins, TablesTyped, PendingTyped, HistoryTyped, Statuses
  <2>2. PlaceTyped'
    BY <1>1, EntersTyped DEF BrowseBegin, Begins
  <2>3. WorkTyped'
    BY <1>1 DEF Typed, TypeOK, BrowseBegin, WorkTyped
  <2> QED BY <2>1, <2>2, <2>3, PartsTyped
<1>2. ASSUME NEW d \in Sites, OpenSite(s, d) PROVE Typed'
  <2>1. TablesTyped' /\ PendingTyped' /\ PlaceTyped' /\ HistoryTyped'
    BY <1>2, KeepsTyped DEF OpenSite
  <2>2. /\ site' \in [Sessions -> Sites \union {Null}]
        /\ searches' \in [Sessions -> 0..Searches]
        /\ count' \in [Sessions -> 0..Budget]
    <3>1. CASE UNCHANGED <<site, searches, count>>
      BY <3>1 DEF Typed, TypeOK
    <3>2. CASE /\ site' = [site EXCEPT ![s] = d]
               /\ searches' = [searches EXCEPT ![s] = Searches]
               /\ count' = [count EXCEPT ![s] = 0]
      BY <3>2, AcquisitionAssumption DEF Typed, TypeOK
    <3> QED BY <1>2, <3>1, <3>2 DEF OpenSite
  <2>3. WorkTyped'
    BY <1>2, <2>2 DEF Typed, TypeOK, OpenSite, WorkTyped
  <2> QED BY <2>1, <2>3, PartsTyped
<1>3. CASE Search(s)
  <2>1. TablesTyped' /\ PendingTyped' /\ PlaceTyped' /\ HistoryTyped'
    BY <1>3, KeepsTyped DEF Search
  <2>0. PICK loaded \in BOOLEAN, hits \in SUBSET Links :
              IF loaded
              THEN count' = [count EXCEPT ![s] = @ + 1] /\ todo' = [todo EXCEPT ![s] = hits]
              ELSE UNCHANGED <<count, todo>>
    BY <1>3 DEF Search, Listings, Loads
  <2>2. count[s] + 1 \in 0..Budget /\ searches[s] - 1 \in 0..Searches
    BY <1>3, AcquisitionAssumption DEF Typed, TypeOK, Search, Spent
  <2>3. count' \in [Sessions -> 0..Budget] /\ todo' \in [Sessions -> SUBSET Links]
    BY <2>0, <2>2 DEF Typed, TypeOK
  <2>4. searches' \in [Sessions -> 0..Searches]
    BY <1>3, <2>2 DEF Typed, TypeOK, Search
  <2>5. WorkTyped'
    BY <1>3, <2>3, <2>4 DEF Typed, TypeOK, Search, WorkTyped
  <2> QED BY <2>1, <2>5, PartsTyped
<1>4. ASSUME NEW l \in Links, PassBy(s, l) PROVE Typed'
  <2>1. TablesTyped' /\ PendingTyped' /\ PlaceTyped' /\ HistoryTyped'
    BY <1>4, KeepsTyped DEF PassBy
  <2>2. count' \in [Sessions -> 0..Budget]
    BY <1>4, AcquisitionAssumption DEF Typed, TypeOK, PassBy, Spent
  <2>3. WorkTyped'
    BY <1>4, <2>2 DEF Typed, TypeOK, PassBy, WorkTyped
  <2> QED BY <2>1, <2>3, PartsTyped
<1>5. ASSUME NEW l \in Links, Inspect(s, l) PROVE Typed'
  <2>0. PICK authorized \in BOOLEAN : Add(s, l, authorized)
    BY <1>5 DEF Inspect, Shown
  <2>1. TablesTyped' /\ PendingTyped' /\ found' \in [Sessions -> Nat]
    BY <2>0, AddTyped
  <2>2. PlaceTyped' /\ HistoryTyped'
    BY <1>5, KeepsTyped DEF Inspect
  <2>3. count' \in [Sessions -> 0..Budget]
    BY <1>5, AcquisitionAssumption DEF Typed, TypeOK, Inspect, Spent
  <2>4. WorkTyped'
    BY <1>5, <2>1, <2>3 DEF Typed, TypeOK, Inspect, WorkTyped
  <2> QED BY <2>1, <2>2, <2>4, PartsTyped
<1>6. ASSUME NEW l \in Links, StopListing(s, l) PROVE Typed'
  <2>1. TablesTyped' /\ PendingTyped' /\ PlaceTyped' /\ HistoryTyped'
    BY <1>6, KeepsTyped DEF StopListing
  <2>2. WorkTyped'
    BY <1>6 DEF Typed, TypeOK, StopListing, WorkTyped
  <2> QED BY <2>1, <2>2, PartsTyped
<1>7. CASE LeaveSite(s)
  <2>1. TablesTyped' /\ PendingTyped' /\ PlaceTyped' /\ HistoryTyped'
    BY <1>7, KeepsTyped DEF LeaveSite
  <2>2. WorkTyped'
    BY <1>7 DEF Typed, TypeOK, LeaveSite, WorkTyped
  <2> QED BY <2>1, <2>2, PartsTyped
<1>8. CASE BrowseFinish(s) \/ SimulateFinish(s) \/ ProfileRecord(s)
  BY <1>8, CompletesTyped DEF BrowseFinish, SimulateFinish, ProfileRecord, Alive
<1>9. CASE BrowserFails(s) \/ ProfileRaises(s)
  BY <1>9, RaisesTyped DEF BrowserFails, ProfileRaises, Alive
<1>10. ASSUME NEW l \in Links, SimulateRaises(s, l) PROVE Typed'
  BY <1>10, RaisesTyped DEF SimulateRaises, Alive
<1>11. CASE SimulateBegin(s)
  <2>1. TablesTyped' /\ PendingTyped' /\ HistoryTyped'
    BY <1>11 DEF Typed, TypeOK, SimulateBegin, Begins, TablesTyped, PendingTyped, HistoryTyped, Statuses
  <2>2. PlaceTyped'
    BY <1>11, EntersTyped DEF SimulateBegin, Begins
  <2>3. WorkTyped'
    BY <1>11, AcquisitionAssumption DEF Typed, TypeOK, SimulateBegin, WorkTyped
  <2> QED BY <2>1, <2>2, <2>3, PartsTyped
<1>12. ASSUME NEW l \in Links, SimulateSkip(s, l) PROVE Typed'
  <2>1. TablesTyped' /\ PendingTyped' /\ PlaceTyped' /\ HistoryTyped'
    BY <1>12, KeepsTyped DEF SimulateSkip
  <2>2. WorkTyped'
    BY <1>12 DEF Typed, TypeOK, SimulateSkip, WorkTyped
  <2> QED BY <2>1, <2>2, PartsTyped
<1>13. ASSUME NEW l \in Links, Simulate(s, l) PROVE Typed'
  <2>0. (l \in Direct) \in BOOLEAN
    OBVIOUS
  <2>1. TablesTyped' /\ PendingTyped' /\ found' \in [Sessions -> Nat]
    BY <1>13, <2>0, AddTyped DEF Simulate
  <2>2. PlaceTyped' /\ HistoryTyped'
    BY <1>13, KeepsTyped DEF Simulate
  <2>3. WorkTyped'
    BY <1>13, <2>1 DEF Typed, TypeOK, Simulate, WorkTyped
  <2> QED BY <2>1, <2>2, <2>3, PartsTyped
<1>14. ASSUME NEW d \in Sites, ProfileBegin(s, d) PROVE Typed'
  <2>1. TablesTyped' /\ PendingTyped' /\ HistoryTyped'
    BY <1>14, KeepsTyped DEF ProfileBegin
  <2>2. PlaceTyped'
    BY <1>14, EntersTyped DEF ProfileBegin
  <2>3. todo' \in [Sessions -> SUBSET Links]
    BY <1>14 DEF Typed, TypeOK, ProfileBegin, Listings
  <2>4. WorkTyped'
    BY <1>14, <2>3 DEF Typed, TypeOK, ProfileBegin, WorkTyped
  <2> QED BY <2>1, <2>2, <2>4, PartsTyped
<1>15. ASSUME NEW l \in Links, ProfileAdd(s, l) PROVE Typed'
  <2>0. PICK authorized \in BOOLEAN : Add(s, l, authorized)
    BY <1>15 DEF ProfileAdd, Shown
  <2>1. TablesTyped' /\ PendingTyped' /\ found' \in [Sessions -> Nat]
    BY <2>0, AddTyped
  <2>2. PlaceTyped' /\ HistoryTyped'
    BY <1>15, KeepsTyped DEF ProfileAdd
  <2>3. WorkTyped'
    BY <1>15, <2>1 DEF Typed, TypeOK, ProfileAdd, WorkTyped
  <2> QED BY <2>1, <2>2, <2>3, PartsTyped
<1>16. CASE ProfileCommit(s)
  <2>1. run' \in [Sessions -> Statuses] /\ enriched' \in SUBSET Ids
        /\ lineups' \in [Sessions -> {"none", "draft", "emitted"}] /\ reported' \in BOOLEAN
    BY <1>16 DEF ProfileCommit, Typed, TypeOK
  <2>2. TablesTyped' /\ PendingTyped'
    BY <1>16, <2>1, CommitTyped DEF ProfileCommit
  <2>3. PlaceTyped'
    BY <1>16, EntersTyped DEF ProfileCommit
  <2>4. WorkTyped' /\ HistoryTyped'
    BY <1>16, KeepsTyped DEF ProfileCommit
  <2> QED BY <2>2, <2>3, <2>4, PartsTyped
<1>17. CASE ProfileCutShort(s)
  <2>1. TablesTyped' /\ PendingTyped' /\ HistoryTyped'
    BY <1>17, KeepsTyped DEF ProfileCutShort
  <2>2. PlaceTyped'
    BY <1>17, EntersTyped DEF ProfileCutShort
  <2>3. WorkTyped'
    BY <1>17 DEF Typed, TypeOK, ProfileCutShort, WorkTyped
  <2> QED BY <2>1, <2>2, <2>3, PartsTyped
<1> QED
  BY <1>1, <1>2, <1>3, <1>4, <1>5, <1>6, <1>7, <1>8, <1>9, <1>10, <1>11, <1>12, <1>13, <1>14,
     <1>15, <1>16, <1>17 DEF DiscoveryStep

LEMMA DailyTyped ==
  ASSUME Typed, NEW s \in Sessions, DailyStep(s)
  PROVE  Typed'
<1> USE DEF At, UnchangedTables, tables, pending, place, browsing, history
<1>1. CASE AdjustNothing(s) \/ Adjusted(s) \/ Polish(s)
  BY <1>1, SucceedsTyped, KeepsTyped, PartsTyped DEF AdjustNothing, Adjusted, Polish, Alive
<1>2. CASE AdjustRaises(s) \/ EmptyShelf(s)
  BY <1>2, RaisesTyped DEF AdjustRaises, EmptyShelf, Alive
<1>3. CASE AdjustFlush(s)
  <2>1. PlaceTyped' /\ WorkTyped' /\ HistoryTyped'
    BY <1>3, KeepsTyped DEF AdjustFlush
  <2>2. TablesTyped' /\ PendingTyped'
    BY <1>3 DEF Typed, TypeOK, AdjustFlush, TablesTyped, PendingTyped
  <2> QED BY <2>1, <2>2, PartsTyped
<1>12. CASE AdjustWeight(s)
  <2>1. TablesTyped' /\ PendingTyped' /\ WorkTyped' /\ HistoryTyped'
    BY <1>12, KeepsTyped DEF AdjustWeight
  <2>2. PlaceTyped'
    BY <1>12, EntersTyped DEF AdjustWeight
  <2> QED BY <2>1, <2>2, PartsTyped
<1>4. CASE EnrichSelect(s)
  <2>1. TablesTyped' /\ PendingTyped' /\ HistoryTyped'
    BY <1>4, KeepsTyped DEF EnrichSelect
  <2>2. PlaceTyped'
    BY <1>4, EntersTyped DEF EnrichSelect
  <2>3. Enrichable(s) \in SUBSET Ids
    BY DEF Typed, TypeOK, Enrichable, Visible, Own, Ids
  <2>4. WorkTyped'
    BY <1>4, <2>3 DEF Typed, TypeOK, EnrichSelect, WorkTyped
  <2> QED BY <2>1, <2>2, <2>4, PartsTyped
<1>5. CASE EnrichCommit(s)
  <2>1. PlaceTyped' /\ WorkTyped' /\ HistoryTyped'
    BY <1>5, SucceedsTyped DEF EnrichCommit, Alive
  <2>2. enriched' \in SUBSET Ids /\ run' \in [Sessions -> Statuses]
        /\ lineups' \in [Sessions -> {"none", "draft", "emitted"}] /\ reported' \in BOOLEAN
    BY <1>5 DEF Typed, TypeOK, EnrichCommit
  <2>3. TablesTyped' /\ PendingTyped'
    BY <1>5, <2>2, CommitTyped DEF EnrichCommit
  <2> QED BY <2>1, <2>3, PartsTyped
<1>6. CASE EnrichRefused(s) \/ ReportRefused(s)
  BY <1>6, RefusedTyped DEF EnrichRefused, ReportRefused, Alive
<1>7. CASE ApproveSelect(s)
  <2>1. TablesTyped' /\ PendingTyped' /\ HistoryTyped'
    BY <1>7, KeepsTyped DEF ApproveSelect
  <2>2. PlaceTyped'
    BY <1>7, EntersTyped DEF ApproveSelect
  <2>3. Approvable(s) \in SUBSET Ids
    BY DEF Typed, TypeOK, Approvable, Visible, Own, Ids
  <2>4. WorkTyped'
    BY <1>7, <2>3 DEF Typed, TypeOK, ApproveSelect, WorkTyped
  <2> QED BY <2>1, <2>2, <2>4, PartsTyped
<1>8. CASE ApproveFlush(s)
  <2>1. PlaceTyped' /\ WorkTyped' /\ HistoryTyped'
    BY <1>8, SucceedsTyped DEF ApproveFlush, Alive
  <2>2. TablesTyped' /\ PendingTyped'
    BY <1>8 DEF Typed, TypeOK, ApproveFlush, TablesTyped, PendingTyped
  <2> QED BY <2>1, <2>2, PartsTyped
<1>9. CASE MakeLineup(s) \/ Compile(s)
  <2>1. PlaceTyped' /\ WorkTyped' /\ HistoryTyped'
    BY <1>9, SucceedsTyped DEF MakeLineup, Compile, Alive
  <2>2. enriched' \in SUBSET Ids /\ run' \in [Sessions -> Statuses]
        /\ lineups' \in [Sessions -> {"none", "draft", "emitted"}] /\ reported' \in BOOLEAN
    BY <1>9 DEF Typed, TypeOK, MakeLineup, Compile
  <2>3. TablesTyped' /\ PendingTyped'
    BY <1>9, <2>2, CommitTyped DEF MakeLineup, Compile
  <2> QED BY <2>1, <2>3, PartsTyped
<1>10. CASE ReportRead(s)
  <2>1. TablesTyped' /\ PendingTyped' /\ HistoryTyped'
    BY <1>10, KeepsTyped DEF ReportRead
  <2>2. PlaceTyped'
    BY <1>10, EntersTyped DEF ReportRead
  <2>3. WorkTyped'
    BY <1>10 DEF Typed, TypeOK, ReportRead, WorkTyped
  <2> QED BY <2>1, <2>2, <2>3, PartsTyped
<1>11. CASE ReportWrite(s)
  <2>1. PlaceTyped' /\ WorkTyped' /\ HistoryTyped'
    BY <1>11, SucceedsTyped DEF ReportWrite, Alive
  <2>2. enriched' \in SUBSET Ids /\ run' \in [Sessions -> Statuses]
        /\ lineups' \in [Sessions -> {"none", "draft", "emitted"}] /\ reported' \in BOOLEAN
    BY <1>11 DEF Typed, TypeOK, ReportWrite
  <2>3. TablesTyped' /\ PendingTyped'
    BY <1>11, <2>2, CommitTyped DEF ReportWrite
  <2> QED BY <2>1, <2>3, PartsTyped
<1> QED
  BY <1>1, <1>2, <1>3, <1>4, <1>5, <1>6, <1>7, <1>8, <1>9, <1>10, <1>11, <1>12 DEF DailyStep

LEMMA NextTyped == Typed /\ [Next]_vars => Typed'
<1> SUFFICES ASSUME Typed, [Next]_vars PROVE Typed'
  OBVIOUS
<1>1. ASSUME NEW s \in Sessions, Start(s) PROVE Typed'
  <2>1. TablesTyped' /\ PendingTyped' /\ WorkTyped' /\ HistoryTyped'
    BY <1>1, KeepsTyped DEF Start
  <2>2. PlaceTyped'
    BY <1>1, EntersTyped DEF Start, history
  <2> QED BY <2>1, <2>2, PartsTyped
<1>2. ASSUME NEW s \in Sessions, PassOver(s) PROVE Typed'
  BY <1>2, SucceedsTyped, KeepsTyped, PartsTyped DEF PassOver, Alive
<1>3. ASSUME NEW s \in Sessions, Collapse(s) PROVE Typed'
  BY <1>3, RaisesTyped DEF Collapse
<1>4. ASSUME NEW s \in Sessions, Breaks(s) PROVE Typed'
  <2>1. TablesTyped' /\ PendingTyped'
    BY <1>4, RollbackTyped DEF Breaks
  <2>2. PlaceTyped' /\ WorkTyped' /\ HistoryTyped'
    BY <1>4, AcquisitionAssumption
       DEF Typed, TypeOK, Placed, Breaks, FromOutside, PlaceTyped, WorkTyped, HistoryTyped, working, browsing
  <2> QED BY <2>1, <2>2, PartsTyped
<1>5. ASSUME NEW s \in Sessions, Dies(s) PROVE Typed'
  <2>1. TablesTyped' /\ PendingTyped'
    BY <1>5, RollbackTyped DEF Dies
  <2>2. PlaceTyped' /\ HistoryTyped'
    BY <1>5, AcquisitionAssumption
       DEF Typed, TypeOK, Placed, Dies, Alive, FromOutside, PlaceTyped, HistoryTyped
  <2>3. WorkTyped'
    BY <1>5, AcquisitionAssumption DEF Typed, TypeOK, Dies, Forgets, WorkTyped
  <2> QED BY <2>1, <2>2, <2>3, PartsTyped
<1>6. ASSUME NEW c \in Ids, NEW verdict \in {"approved_for_stream", "blocked"}, Decide(c, verdict)
      PROVE  Typed'
  <2>1. PendingTyped' /\ PlaceTyped' /\ WorkTyped'
    BY <1>6, KeepsTyped DEF Decide
  <2>2. TablesTyped'
    BY <1>6 DEF Typed, TypeOK, Decide, TablesTyped
  <2>3. HistoryTyped'
    BY <1>6, AcquisitionAssumption DEF Typed, TypeOK, Decide, FromOutside, HistoryTyped
  <2> QED BY <2>1, <2>2, <2>3, PartsTyped
<1>7. CASE UNCHANGED vars
  BY <1>7, KeepsTyped, PartsTyped DEF vars, place, history
<1> QED
  BY <1>1, <1>2, <1>3, <1>4, <1>5, <1>6, <1>7, DiscoveryTyped, DailyTyped DEF Next, Proceeds

\* The type invariant: the tables, what a session has pending and where it is
\* keep their ranges; the pages of a site and the faults stay below their limits.
THEOREM Typing == Spec => []TypeOK
<1>1. Typed => TypeOK
  BY DEF Typed
<1> QED BY <1>1, InitTyped, NextTyped, PTL DEF Spec

-----------------------------------------------------------------------------
(* A block lasts.                                                          *)

\* No orchestration has a blocked candidate in hand: it has neither selected
\* it nor approved it without having committed.
Vetoed ==
    \A c \in vetoed :
        /\ rights[c] = "blocked"
        /\ \A s \in Sessions :
              c \notin locked[s] /\ (At(s, "approve", "underway") => c \notin batch[s])

\* A step that takes nothing more in hand, approves nothing more, and blocks
\* nothing, keeps it.
HandsKept ==
    \A t \in Sessions :
        At(t, "approve", "underway")' => At(t, "approve", "underway") /\ batch'[t] = batch[t]
RightsKept ==
    /\ vetoed' = vetoed
    /\ \A c \in vetoed : rights'[c] = "blocked" /\ \A t \in Sessions : c \notin locked'[t]

LEMMA VetoKept == Vetoed /\ HandsKept /\ RightsKept => Vetoed'
  BY DEF Vetoed, HandsKept, RightsKept, At

LEMMA HandsEntered ==
  ASSUME Typed, NEW s \in Sessions, NEW p \in {"ready", "underway", "recording"}, Enters(s, p),
         job[s] # "approve", \A t \in Sessions \ {s} : batch'[t] = batch[t]
  PROVE  HandsKept
  BY DEF Typed, TypeOK, Enters, HandsKept, At

LEMMA HandsLeft ==
  ASSUME Typed, NEW s \in Sessions, NEW failures, Leaves(s, failures),
         \A t \in Sessions \ {s} : broken'[t] = broken[t]
  PROVE  HandsKept
  BY DEF Typed, TypeOK, Leaves, Forgets, HandsKept, At

LEMMA RightsCommitted ==
  ASSUME Typed, Vetoed, NEW s \in Sessions, Commit(s), vetoed' = vetoed
  PROVE  RightsKept
  BY DEF Typed, TypeOK, Commit, Vetoed, RightsKept

LEMMA RightsRolledBack ==
  ASSUME Typed, Vetoed, NEW s \in Sessions, Rollback(s), vetoed' = vetoed
  PROVE  RightsKept
  BY DEF Typed, TypeOK, Rollback, ForgetsRows, Vetoed, RightsKept

LEMMA VetoRaises ==
  ASSUME Typed, Vetoed, NEW s \in Sessions, Raises(s) \/ IsRefused(s)
  PROVE  Vetoed'
<1>1. vetoed' = vetoed
  BY DEF Raises, IsRefused, Leaves, history
<1>2. RightsKept
  BY <1>1, RightsRolledBack DEF Raises, IsRefused, RightsKept, Vetoed, tables, pending
<1>3. \A t \in Sessions \ {s} : broken'[t] = broken[t]
  BY DEF Typed, TypeOK, Raises, IsRefused
<1>4. HandsKept
  BY <1>3, HandsLeft DEF Raises, IsRefused
<1> QED BY <1>2, <1>4, VetoKept

LEMMA VetoCompletes ==
  ASSUME Typed, Vetoed, NEW s \in Sessions, Succeeds(s),
         Commit(s) \/ UNCHANGED <<rights, locked>>
  PROVE  Vetoed'
<1>1. vetoed' = vetoed
  BY DEF Succeeds, Leaves, history
<1>2. RightsKept
  BY <1>1, RightsCommitted DEF RightsKept, Vetoed
<1>3. HandsKept
  BY HandsLeft DEF Succeeds
<1> QED BY <1>2, <1>3, VetoKept

LEMMA NextVetoed == Typed /\ Vetoed /\ [Next]_vars => Vetoed'
<1> SUFFICES ASSUME Typed, Vetoed, [Next]_vars PROVE Vetoed'
  OBVIOUS
<1> USE DEF At, tables, pending, place, working, browsing, history
<1>1. ASSUME NEW s \in Sessions, DiscoveryStep(s) PROVE Vetoed'
  <2> USE DEF Browsing, OnSite, Simulating, AddNothing, Add
  <2>1. CASE BrowseBegin(s) \/ SimulateBegin(s)
    <3>1. RightsKept
      BY <2>1 DEF BrowseBegin, SimulateBegin, Begins, RightsKept, Vetoed
    <3>2. HandsKept
      BY <2>1, HandsEntered DEF BrowseBegin, SimulateBegin, Begins
    <3> QED BY <3>1, <3>2, VetoKept
  <2>2. CASE \/ \E d \in Sites : OpenSite(s, d)
             \/ Search(s)
             \/ \E l \in Links : PassBy(s, l) \/ Inspect(s, l) \/ StopListing(s, l)
             \/ LeaveSite(s)
             \/ \E l \in Links : SimulateSkip(s, l) \/ Simulate(s, l) \/ ProfileAdd(s, l)
    <3>1. RightsKept
      BY <2>2 DEF OpenSite, Search, PassBy, Inspect, StopListing, LeaveSite, SimulateSkip, Simulate,
                  ProfileAdd, RightsKept, Vetoed
    <3>2. HandsKept
      BY <2>2 DEF OpenSite, Search, PassBy, Inspect, StopListing, LeaveSite, SimulateSkip, Simulate,
                  ProfileAdd, HandsKept
    <3> QED BY <3>1, <3>2, VetoKept
  <2>3. CASE BrowseFinish(s) \/ SimulateFinish(s) \/ ProfileRecord(s)
    BY <2>3, VetoCompletes DEF BrowseFinish, SimulateFinish, ProfileRecord, Completes
  <2>4. CASE BrowserFails(s) \/ ProfileRaises(s) \/ \E l \in Links : SimulateRaises(s, l)
    BY <2>4, VetoRaises DEF BrowserFails, ProfileRaises, SimulateRaises
  <2>5. CASE (\E d \in Sites : ProfileBegin(s, d)) \/ ProfileCutShort(s)
    <3>1. RightsKept
      BY <2>5 DEF ProfileBegin, ProfileCutShort, RightsKept, Vetoed
    <3>2. HandsKept
      BY <2>5, HandsEntered DEF ProfileBegin, ProfileCutShort
    <3> QED BY <3>1, <3>2, VetoKept
  <2>6. CASE ProfileCommit(s)
    <3>1. RightsKept
      BY <2>6, RightsCommitted DEF ProfileCommit
    <3>2. HandsKept
      BY <2>6, HandsEntered DEF ProfileCommit
    <3> QED BY <3>1, <3>2, VetoKept
  <2> QED BY <1>1, <2>1, <2>2, <2>3, <2>4, <2>5, <2>6 DEF DiscoveryStep
<1>2. ASSUME NEW s \in Sessions, DailyStep(s) PROVE Vetoed'
  <2> USE DEF UnchangedTables
  <2>1. CASE AdjustNothing(s) \/ Adjusted(s) \/ EnrichCommit(s) \/ MakeLineup(s) \/ Polish(s) \/ Compile(s) \/ ReportWrite(s)
    BY <2>1, VetoCompletes DEF AdjustNothing, Adjusted, EnrichCommit, MakeLineup, Polish, Compile, ReportWrite
  <2>2. CASE AdjustRaises(s) \/ EnrichRefused(s) \/ EmptyShelf(s) \/ ReportRefused(s)
    BY <2>2, VetoRaises DEF AdjustRaises, EnrichRefused, EmptyShelf, ReportRefused
  <2>3. CASE AdjustWeight(s) \/ EnrichSelect(s) \/ ReportRead(s)
    <3>1. RightsKept
      BY <2>3 DEF AdjustWeight, EnrichSelect, ReportRead, RightsKept, Vetoed
    <3>2. HandsKept
      BY <2>3, HandsEntered DEF AdjustWeight, EnrichSelect, ReportRead, Typed, TypeOK
    <3> QED BY <3>1, <3>2, VetoKept
  <2>6. CASE AdjustFlush(s)
    <3>1. RightsKept /\ HandsKept
      BY <2>6 DEF AdjustFlush, RightsKept, HandsKept, Vetoed
    <3> QED BY <3>1, VetoKept
  <2>4. CASE ApproveSelect(s)
    <3>1. \A c \in vetoed : c \notin Approvable(s)
      BY DEF Vetoed, Approvable
    <3> QED BY <2>4, <3>1 DEF ApproveSelect, Enters, Typed, TypeOK, Vetoed
  <2>5. CASE ApproveFlush(s)
    <3>1. HandsKept
      BY <2>5, HandsLeft DEF ApproveFlush, Succeeds
    <3>2. RightsKept
      BY <2>5 DEF ApproveFlush, Succeeds, Leaves, Typed, TypeOK, Vetoed, RightsKept
    <3> QED BY <3>1, <3>2, VetoKept
  <2> QED BY <1>2, <2>1, <2>2, <2>3, <2>4, <2>5, <2>6 DEF DailyStep
<1>3. ASSUME NEW s \in Sessions, Start(s) PROVE Vetoed'
  BY <1>3 DEF Start, Enters, Typed, TypeOK, Vetoed
<1>4. ASSUME NEW s \in Sessions, PassOver(s) \/ Collapse(s) PROVE Vetoed'
  BY <1>4, VetoRaises, VetoCompletes DEF PassOver, Collapse
<1>5. ASSUME NEW s \in Sessions, Breaks(s) \/ Dies(s) PROVE Vetoed'
  <2>1. RightsKept
    BY <1>5, RightsRolledBack DEF Breaks, Dies
  <2>2. HandsKept
    BY <1>5 DEF Breaks, Dies, Forgets, HandsKept, Typed, TypeOK
  <2> QED BY <2>1, <2>2, VetoKept
<1>6. ASSUME NEW c \in Ids, NEW verdict \in {"approved_for_stream", "blocked"}, Decide(c, verdict)
      PROVE  Vetoed'
  BY <1>6 DEF Decide, InHand, Typed, TypeOK, Vetoed
<1>7. CASE UNCHANGED vars
  BY <1>7 DEF vars, Vetoed
<1> QED BY <1>1, <1>2, <1>3, <1>4, <1>5, <1>6, <1>7 DEF Next, Proceeds

\* Whatever orchestrations and calls interleave, fail and are repeated, a
\* candidate blocked while nobody had it in hand stays blocked.
THEOREM BlockStays == Spec => []BlocksLast
<1>1. Init => Vetoed
  BY DEF Init, Vetoed
<1>2. Vetoed => BlocksLast
  BY DEF Vetoed, BlocksLast
<1> QED BY <1>1, <1>2, InitTyped, NextTyped, NextVetoed, PTL DEF Spec

-----------------------------------------------------------------------------
(* Pages are added once.                                                   *)

\* The candidates, committed or not.
All == {c \in Ids : c \in candidates \/ c[2] \in added[c[1]]}

\* The session has not begun its discovery.
Fresh(s) == job[s] = "adjust" \/ (pc[s] \in {"off", "ready"} /\ job[s] \in {"browse", "simulate", "profile"})

\* What a session knew was committed, before its discovery it has added
\* nothing, and PagesOnce holds of what is not committed, too.
Apart ==
    /\ \A s \in Sessions : known[s] \subseteq candidates
    /\ \A c \in All : ~Fresh(c[1])
    /\ \A c, d \in All :
          c # d /\ LooksUp(c[1]) /\ LooksUp(d[1]) /\ PageOf[c[2]] = PageOf[d[2]] =>
              c[1] # d[1] /\ c \notin known[d[1]] /\ d \notin known[c[1]]

FreshKept == \A t \in Sessions : Fresh(t)' => Fresh(t)
RowsKept == All' \subseteq All /\ candidates \subseteq candidates'

LEMMA ApartKept == Typed /\ Apart /\ RowsKept /\ FreshKept /\ kind' = kind /\ known' = known => Apart'
<1> SUFFICES ASSUME Typed, Apart, RowsKept, FreshKept, kind' = kind, known' = known PROVE Apart'
  OBVIOUS
<1>1. \A c \in All' : c \in All /\ c[1] \in Sessions
  BY DEF RowsKept, All, Ids
<1>2. \A s \in Sessions : LooksUp(s)' = LooksUp(s)
  BY DEF LooksUp
<1>3. \A s \in Sessions : known'[s] \subseteq candidates'
  BY DEF Apart, RowsKept
<1>4. \A c \in All' : ~Fresh(c[1])'
  BY <1>1 DEF Apart, FreshKept
<1>5. \A c, d \in All' :
          c # d /\ LooksUp(c[1])' /\ LooksUp(d[1])' /\ PageOf[c[2]] = PageOf[d[2]] =>
              c[1] # d[1] /\ c \notin known'[d[1]] /\ d \notin known'[c[1]]
  BY <1>1, <1>2 DEF Apart
<1> QED BY <1>3, <1>4, <1>5 DEF Apart

LEMMA RowsUnchanged == UNCHANGED <<candidates, added>> => RowsKept
  BY DEF RowsKept, All

LEMMA RowsCommitted ==
  ASSUME Typed, NEW s \in Sessions, Commit(s)
  PROVE  RowsKept
  BY DEF Typed, TypeOK, Commit, Visible, Own, RowsKept, All, Ids

LEMMA RowsRolledBack ==
  ASSUME Typed, NEW s \in Sessions, Rollback(s)
  PROVE  RowsKept
  BY DEF Typed, TypeOK, Rollback, ForgetsRows, RowsKept, All, Ids

LEMMA FreshLeft ==
  ASSUME Typed, NEW s \in Sessions, Alive(s), NEW failures, Leaves(s, failures)
  PROVE  FreshKept
<1>1. \A t \in Sessions \ {s} : Fresh(t)' = Fresh(t)
  BY DEF Typed, TypeOK, Leaves, Fresh
<1>2. job'[s] = After(s)
  BY DEF Typed, TypeOK, Leaves
<1>3. CASE kind[s] # "daily"
  BY <1>1, <1>2, <1>3 DEF After, Fresh, FreshKept
<1>4. CASE kind[s] = "daily"
  <2>1. job[s] \in Daily
    BY <1>4 DEF Typed, TypeOK, Placed, Alive
  <2>2. job[s] # "adjust" => Following[job[s]] \notin {"adjust", "browse", "simulate", "profile"}
    BY <2>1 DEF Daily, Following
  <2> QED BY <1>1, <1>2, <1>4, <2>2 DEF After, Fresh, FreshKept
<1> QED BY <1>3, <1>4

LEMMA FreshEntered ==
  ASSUME Typed, NEW s \in Sessions, NEW p, Enters(s, p), pc[s] = "off" \/ p \in {"underway", "recording"}
  PROVE  FreshKept
  BY DEF Typed, TypeOK, Enters, Fresh, FreshKept

LEMMA ApartRaises ==
  ASSUME Typed, Apart, NEW s \in Sessions, Alive(s), Raises(s) \/ IsRefused(s)
  PROVE  Apart'
<1>1. kind' = kind /\ known' = known
  BY DEF Raises, IsRefused, Leaves, history
<1>2. RowsKept
  BY RowsUnchanged, RowsRolledBack DEF Raises, IsRefused, tables, pending
<1>3. FreshKept
  BY FreshLeft DEF Raises, IsRefused
<1> QED BY <1>1, <1>2, <1>3, ApartKept

LEMMA ApartCompletes ==
  ASSUME Typed, Apart, NEW s \in Sessions, Alive(s), Succeeds(s),
         Commit(s) \/ UNCHANGED <<candidates, added>>
  PROVE  Apart'
<1>1. kind' = kind /\ known' = known
  BY DEF Succeeds, Leaves, history
<1>2. RowsKept
  BY RowsUnchanged, RowsCommitted
<1>3. FreshKept
  BY FreshLeft DEF Succeeds
<1> QED BY <1>1, <1>2, <1>3, ApartKept

\* No session finds its own new row, or one that was there when it began.
LEMMA ApartAdds ==
  ASSUME Typed, Apart, NEW s \in Sessions, NEW l \in Links, NEW authorized, Add(s, l, authorized),
         ~Fresh(s), New(s, l) \/ ~LooksUp(s), UNCHANGED <<place, history>>
  PROVE  Apart'
<1> DEFINE n == <<s, l>>
<1>1. /\ n \in Ids /\ n[1] = s /\ n[2] = l
      /\ All' = All \union {n}
      /\ candidates' = candidates /\ kind' = kind /\ known' = known
  BY DEF Typed, TypeOK, Add, All, Ids, history
<1>2. \A t \in Sessions : (Fresh(t)' = Fresh(t)) /\ (LooksUp(t)' = LooksUp(t))
  BY DEF Fresh, LooksUp, place, history
<1>3. ASSUME LooksUp(s), NEW c \in All, PageOf[c[2]] = PageOf[l]
      PROVE  c[1] # s /\ c \notin candidates /\ n \notin candidates
  <2>1. Rows(s, l) = {}
    BY <1>3 DEF New
  <2>2. c \notin Visible(s) /\ n \notin Visible(s)
    BY <1>1, <1>3, <2>1 DEF Rows
  <2>3. c = <<c[1], c[2]>>
    BY DEF All, Ids
  <2> QED BY <2>2, <2>3 DEF Visible, Own, All
<1>4. \A t \in Sessions : known'[t] \subseteq candidates'
  BY <1>1 DEF Apart
<1>5. \A c \in All' : ~Fresh(c[1])'
  BY <1>1, <1>2 DEF Apart, All, Ids
<1>6. ASSUME NEW c \in All', NEW d \in All', c # d, LooksUp(c[1])', LooksUp(d[1])',
             PageOf[c[2]] = PageOf[d[2]]
      PROVE  c[1] # d[1] /\ c \notin known'[d[1]] /\ d \notin known'[c[1]]
  <2>1. c[1] \in Sessions /\ d[1] \in Sessions
    BY DEF All, Ids
  <2>2. LooksUp(c[1]) /\ LooksUp(d[1])
    BY <1>2, <1>6, <2>1
  <2>3. CASE c \in All /\ d \in All
    BY <1>1, <1>6, <2>2, <2>3 DEF Apart
  <2>4. CASE c = n /\ d \in All
    BY <1>1, <1>3, <1>6, <2>1, <2>2, <2>4 DEF Apart
  <2>5. CASE d = n /\ c \in All
    BY <1>1, <1>3, <1>6, <2>1, <2>2, <2>5 DEF Apart
  <2> QED BY <1>1, <1>6, <2>3, <2>4, <2>5
<1> QED BY <1>4, <1>5, <1>6 DEF Apart

LEMMA ApartBegins ==
  ASSUME Typed, Apart, NEW s \in Sessions, Begins(s), Fresh(s)
  PROVE  Apart'
<1>1. FreshKept
  BY FreshEntered DEF Begins
<1>2. All' = All /\ candidates' = candidates /\ kind' = kind
  BY DEF Begins, All, tables
<1>3. \A t \in Sessions : known'[t] = IF t = s THEN candidates ELSE known[t]
  BY DEF Typed, TypeOK, Begins
<1>4. \A c \in All : c[1] \in Sessions /\ c[1] # s
  BY DEF Apart, All, Ids
<1> QED BY <1>1, <1>2, <1>3, <1>4 DEF Apart, FreshKept, LooksUp

LEMMA NextApart == Typed /\ Apart /\ [Next]_vars => Apart'
<1> SUFFICES ASSUME Typed, Apart, [Next]_vars PROVE Apart'
  OBVIOUS
<1> USE DEF At, tables, pending
<1>1. ASSUME NEW s \in Sessions, DiscoveryStep(s) PROVE Apart'
  <2> USE DEF Browsing, OnSite, Simulating, AddNothing
  <2>1. CASE BrowseBegin(s) \/ SimulateBegin(s)
    BY <2>1, ApartBegins DEF BrowseBegin, SimulateBegin, Fresh
  <2>2. CASE \/ \E d \in Sites : OpenSite(s, d)
             \/ Search(s)
             \/ \E l \in Links : PassBy(s, l) \/ StopListing(s, l)
             \/ LeaveSite(s)
             \/ \E l \in Links : SimulateSkip(s, l)
    <3>1. UNCHANGED <<place, history, candidates, added>>
      BY <2>2 DEF OpenSite, Search, PassBy, StopListing, LeaveSite, SimulateSkip
    <3>2. FreshKept /\ kind' = kind /\ known' = known
      BY <3>1 DEF Fresh, FreshKept, place, history
    <3> QED BY <3>1, <3>2, RowsUnchanged, ApartKept
  <2>3. ASSUME NEW l \in Links, Inspect(s, l) \/ Simulate(s, l) PROVE Apart'
    <3>1. ~Fresh(s)
      BY <2>3 DEF Inspect, Simulate, Fresh
    <3> QED BY <2>3, <3>1, ApartAdds DEF Inspect, Simulate
  <2>4. ASSUME NEW l \in Links, ProfileAdd(s, l) PROVE Apart'
    <3>1. ~Fresh(s)
      BY <2>4 DEF ProfileAdd, Fresh
    <3>2. ~LooksUp(s)
      BY <2>4 DEF ProfileAdd, LooksUp, Typed, Placed, Daily
    <3> QED BY <2>4, <3>1, <3>2, ApartAdds DEF ProfileAdd
  <2>5. CASE BrowseFinish(s) \/ SimulateFinish(s) \/ ProfileRecord(s)
    BY <2>5, ApartCompletes DEF BrowseFinish, SimulateFinish, ProfileRecord, Completes, Alive
  <2>6. CASE BrowserFails(s) \/ ProfileRaises(s) \/ \E l \in Links : SimulateRaises(s, l)
    BY <2>6, ApartRaises DEF BrowserFails, ProfileRaises, SimulateRaises, Alive
  <2>7. CASE (\E d \in Sites : ProfileBegin(s, d)) \/ ProfileCutShort(s)
    <3>1. FreshKept
      BY <2>7, FreshEntered DEF ProfileBegin, ProfileCutShort
    <3>2. UNCHANGED <<history, candidates, added>>
      BY <2>7 DEF ProfileBegin, ProfileCutShort
    <3> QED BY <3>1, <3>2, RowsUnchanged, ApartKept DEF history
  <2>8. CASE ProfileCommit(s)
    <3>1. FreshKept
      BY <2>8, FreshEntered DEF ProfileCommit
    <3>2. RowsKept /\ UNCHANGED history
      BY <2>8, RowsCommitted DEF ProfileCommit
    <3> QED BY <3>1, <3>2, ApartKept DEF history
  <2> QED BY <1>1, <2>1, <2>2, <2>3, <2>4, <2>5, <2>6, <2>7, <2>8 DEF DiscoveryStep
<1>2. ASSUME NEW s \in Sessions, DailyStep(s) PROVE Apart'
  <2> USE DEF UnchangedTables, Alive
  <2>1. CASE AdjustNothing(s) \/ Adjusted(s) \/ EnrichCommit(s) \/ ApproveFlush(s) \/ MakeLineup(s)
             \/ Polish(s) \/ Compile(s) \/ ReportWrite(s)
    BY <2>1, ApartCompletes
       DEF AdjustNothing, Adjusted, EnrichCommit, ApproveFlush, MakeLineup, Polish, Compile, ReportWrite
  <2>2. CASE AdjustRaises(s) \/ EnrichRefused(s) \/ EmptyShelf(s) \/ ReportRefused(s)
    BY <2>2, ApartRaises DEF AdjustRaises, EnrichRefused, EmptyShelf, ReportRefused
  <2>3. CASE AdjustWeight(s) \/ EnrichSelect(s) \/ ApproveSelect(s) \/ ReportRead(s)
    <3>1. FreshKept
      BY <2>3, FreshEntered DEF AdjustWeight, EnrichSelect, ApproveSelect, ReportRead
    <3>2. UNCHANGED <<history, candidates, added>>
      BY <2>3 DEF AdjustWeight, EnrichSelect, ApproveSelect, ReportRead
    <3> QED BY <3>1, <3>2, RowsUnchanged, ApartKept DEF history
  <2>4. CASE AdjustFlush(s)
    <3>1. UNCHANGED <<place, history, candidates, added>>
      BY <2>4 DEF AdjustFlush
    <3>2. FreshKept
      BY <3>1 DEF Fresh, FreshKept, place, history
    <3> QED BY <3>1, <3>2, RowsUnchanged, ApartKept DEF history
  <2> QED BY <1>2, <2>1, <2>2, <2>3, <2>4 DEF DailyStep
<1>3. ASSUME NEW s \in Sessions, Start(s) PROVE Apart'
  <2>1. FreshKept
    BY <1>3, FreshEntered DEF Start
  <2> QED BY <1>3, <2>1, RowsUnchanged, ApartKept DEF Start, history
<1>4. ASSUME NEW s \in Sessions, PassOver(s) \/ Collapse(s) PROVE Apart'
  BY <1>4, ApartRaises, ApartCompletes DEF PassOver, Collapse, Alive
<1>5. ASSUME NEW s \in Sessions, Breaks(s) \/ Dies(s) PROVE Apart'
  <2>1. RowsKept
    BY <1>5, RowsRolledBack DEF Breaks, Dies
  <2>2. FreshKept /\ kind' = kind /\ known' = known
    BY <1>5 DEF Breaks, Dies, Alive, FreshKept, Fresh, Typed, TypeOK
  <2> QED BY <2>1, <2>2, ApartKept
<1>6. ASSUME NEW c \in Ids, NEW verdict \in {"approved_for_stream", "blocked"}, Decide(c, verdict)
      PROVE  Apart'
  <2>1. FreshKept
    BY <1>6 DEF Decide, place, FreshKept, Fresh
  <2> QED BY <1>6, <2>1, RowsUnchanged, ApartKept DEF Decide
<1>7. CASE UNCHANGED vars
  <2>1. FreshKept
    BY <1>7 DEF vars, place, FreshKept, Fresh
  <2> QED BY <1>7, <2>1, RowsUnchanged, ApartKept DEF vars, history
<1> QED BY <1>1, <1>2, <1>3, <1>4, <1>5, <1>6, <1>7 DEF Next, Proceeds

LEMMA InitApart == Init => Apart
<1>1. Init => All = {}
  BY DEF Init, All, Ids
<1> QED BY <1>1 DEF Init, Apart

\* Two look-ups find each other's page unless both began before the other
\* committed it, for every number of runs and whichever of them fail.
THEOREM PagesAddedOnce == Spec => []PagesOnce
<1>1. Typed /\ Apart => PagesOnce
  <2>1. Typed => candidates \subseteq All
    BY DEF Typed, TypeOK, All
  <2> QED BY <2>1 DEF Apart, PagesOnce
<1> QED BY <1>1, InitTyped, NextTyped, InitApart, NextApart, PTL DEF Spec

-----------------------------------------------------------------------------
(* The table of runs tells the truth.                                      *)

Mine(s) == {l \in Links : <<s, l>> \in candidates \/ l \in added[s]}
Open(s) == ~broken[s] /\ pc[s] \notin {"over", "dead"}
Discovers(s) == At(s, "browse", "underway") \/ At(s, "simulate", "underway")

\* What RunsTell says of one session.
RunTells(s) ==
    /\ runs[s].status = "completed" => runs[s].found = Cardinality(Of(s))
    /\ runs[s].status = "running" => "simulate" \in errors[s]
    /\ runs[s].status = "absent" => Of(s) = {} \/ kind[s] = "profile"

\* What a session counts is what it would commit, and its run is in the
\* state that its place and its failures say.
Counts(s) ==
    /\ RunTells(s)
    /\ Open(s) => found[s] = Cardinality(Mine(s))
    /\ Discovers(s) => run[s] = "running"
    /\ run[s] = "running" => Discovers(s) \/ "simulate" \in errors[s]
    /\ Open(s) /\ run[s] = "absent" /\ kind[s] # "profile" => Mine(s) = {}
    /\ At(s, "profile", "underway") => todo[s] \intersect Mine(s) = {}

RowsOfKept(t) == runs'[t] = runs[t] /\ run'[t] = run[t] /\ added'[t] = added[t] /\ Of(t)' = Of(t)
PlaceOfKept(t) ==
    /\ job'[t] = job[t] /\ pc'[t] = pc[t] /\ errors'[t] = errors[t] /\ broken'[t] = broken[t]
    /\ todo'[t] = todo[t] /\ found'[t] = found[t] /\ kind'[t] = kind[t]

LEMMA CountsKept ==
  ASSUME NEW t \in Sessions, Counts(t), RowsOfKept(t), PlaceOfKept(t)
  PROVE  Counts(t)'
<1>1. Mine(t)' = Mine(t)
  BY DEF Mine, Of, RowsOfKept
<1>2. RunTells(t)'
  BY DEF Counts, RunTells, RowsOfKept, PlaceOfKept
<1> QED BY <1>1, <1>2 DEF Counts, Open, Discovers, At, RowsOfKept, PlaceOfKept

LEMMA RowsOfOthersKept ==
  ASSUME Typed, NEW s \in Sessions, NEW t \in Sessions \ {s}, run'[t] = run[t], Commit(s) \/ Rollback(s)
  PROVE  RowsOfKept(t)
<1>1. Of(t)' = Of(t)
  BY DEF Commit, Rollback, ForgetsRows, Visible, Own, Of
<1> QED BY <1>1 DEF Typed, TypeOK, Commit, Rollback, ForgetsRows, RowsOfKept

LEMMA RunRolledBack ==
  ASSUME Typed, NEW s \in Sessions, NEW t \in Sessions \ {s}, Rollback(s)
  PROVE  run'[t] = run[t]
  BY DEF Typed, TypeOK, Rollback, ForgetsRows

LEMMA RowsOfAllKept ==
  ASSUME NEW t \in Sessions, UNCHANGED <<candidates, runs, run, added>>
  PROVE  RowsOfKept(t)
  BY DEF RowsOfKept, Of

LEMMA PlaceOfOthersLeft ==
  ASSUME Typed, NEW s \in Sessions, NEW t \in Sessions \ {s}, NEW failures, Leaves(s, failures),
         broken'[t] = broken[t]
  PROVE  PlaceOfKept(t)
  BY DEF Typed, TypeOK, Leaves, Forgets, history, PlaceOfKept

LEMMA PlaceLeft ==
  ASSUME Typed, NEW s \in Sessions, NEW failures \in SUBSET Jobs, Leaves(s, failures)
  PROVE  /\ job'[s] = After(s)
         /\ pc'[s] = IF After(s) = "over" THEN "over" ELSE "ready"
         /\ errors'[s] = errors[s] \union failures
         /\ found'[s] = found[s] /\ kind'[s] = kind[s] /\ ~Discovers(s)'
  BY DEF Typed, TypeOK, Leaves, Forgets, history, Discovers, At

\* A commit of the session makes what it counted true.
LEMMA CountsCommitted ==
  ASSUME Typed, NEW s \in Sessions, Counts(s), Open(s), Commit(s),
         run'[s] = "completed" \/ (run'[s] = run[s] /\ ~Discovers(s)),
         errors[s] \subseteq errors'[s], found'[s] = found[s], kind'[s] = kind[s], pc'[s] # "underway"
  PROVE  Counts(s)'
<1>1. Of(s)' = Mine(s) /\ Mine(s)' = Mine(s)
  BY DEF Typed, TypeOK, Commit, Visible, Own, Of, Mine
<1>2. runs'[s] = [status |-> run'[s], found |-> Total(s)]
  BY DEF Typed, TypeOK, Commit
<1>3. run'[s] \in Statuses
  BY DEF Typed, TypeOK, Statuses
<1>4. ~Discovers(s)' /\ ~At(s, "profile", "underway")'
  BY DEF Discovers, At
<1>5. RunTells(s)'
  BY <1>1, <1>2 DEF RunTells, Counts, Total
<1> QED BY <1>1, <1>4, <1>5 DEF Counts

\* A session that rolls back and is broken, over or dead counts no more.
LEMMA CountsRolledBack ==
  ASSUME Typed, NEW s \in Sessions, Counts(s), Rollback(s), ~Open(s)', pc'[s] \in {"over", "dead"} \/ broken'[s],
         errors[s] \subseteq errors'[s], kind'[s] = kind[s]
  PROVE  Counts(s)'
<1>1. Of(s)' = Of(s) /\ runs'[s] = runs[s] /\ run'[s] = runs[s].status
  BY DEF Typed, TypeOK, Rollback, ForgetsRows, Of
<1>2. ~Discovers(s)' /\ ~At(s, "profile", "underway")'
  BY DEF Discovers, At
<1>3. RunTells(s)'
  BY <1>1 DEF RunTells, Counts
<1> QED BY <1>1, <1>2, <1>3 DEF Counts, RunTells

LEMMA CountsLeft ==
  ASSUME Typed, NEW s \in Sessions, Counts(s), Alive(s),
         NEW failures \in SUBSET Jobs, Leaves(s, failures),
         UNCHANGED <<candidates, runs, run, added, broken>>,
         Discovers(s) => "simulate" \in failures
  PROVE  Counts(s)'
<1>1. Of(s)' = Of(s) /\ Mine(s)' = Mine(s) /\ runs'[s] = runs[s] /\ run'[s] = run[s]
  BY DEF Of, Mine
<1>2. /\ errors'[s] = errors[s] \union failures
      /\ found'[s] = found[s] /\ kind'[s] = kind[s] /\ ~Discovers(s)'
  BY PlaceLeft
<1>3. ~At(s, "profile", "underway")'
  BY PlaceLeft DEF At
<1>4. Open(s)' => Open(s)
  BY DEF Open, Alive
<1>5. RunTells(s)'
  BY <1>1, <1>2 DEF RunTells, Counts
<1> QED BY <1>1, <1>2, <1>3, <1>4, <1>5 DEF Counts, Open

LEMMA CountsRaises ==
  ASSUME Typed, NEW s \in Sessions, \A t \in Sessions : Counts(t), Alive(s), Raises(s) \/ IsRefused(s)
  PROVE  \A t \in Sessions : Counts(t)'
<1>1. {job[s]} \in SUBSET Jobs
  BY DEF Typed, TypeOK, Placed, Alive
<1>2. Leaves(s, {job[s]})
  BY DEF Raises, IsRefused
<1>3. /\ pc'[s] = IF After(s) = "over" THEN "over" ELSE "ready"
      /\ errors'[s] = errors[s] \union {job[s]} /\ kind'[s] = kind[s]
  BY <1>1, <1>2, PlaceLeft
<1>4. \A t \in Sessions \ {s} : broken'[t] = broken[t]
  BY DEF Raises, IsRefused, Typed, TypeOK
<1>5. \A t \in Sessions \ {s} : PlaceOfKept(t)
  BY <1>2, <1>4, PlaceOfOthersLeft
<1>6. CASE IsRefused(s) \/ (Raises(s) /\ After(s) = "over")
  <2>1. Rollback(s)
    BY <1>6 DEF Raises, IsRefused
  <2>2. \A t \in Sessions \ {s} : Counts(t)'
    BY <1>5, <2>1, RunRolledBack, RowsOfOthersKept, CountsKept
  <2>3. broken'[s] \/ pc'[s] = "over"
    BY <1>3, <1>6 DEF IsRefused, Typed, TypeOK
  <2>4. ~Open(s)'
    BY <2>3 DEF Open
  <2> QED BY <1>3, <2>1, <2>2, <2>3, <2>4, CountsRolledBack
<1>7. CASE Raises(s) /\ After(s) # "over"
  <2>1. UNCHANGED <<candidates, runs, run, added, broken>>
    BY <1>7 DEF Raises, tables, pending
  <2>2. \A t \in Sessions \ {s} : Counts(t)'
    BY <1>5, <2>1, RowsOfAllKept, CountsKept
  <2>3. Discovers(s) => "simulate" \in {job[s]}
    BY <1>7 DEF Discovers, At, After, Typed, Placed, Daily
  <2> QED BY <1>1, <1>2, <2>1, <2>2, <2>3, CountsLeft
<1> QED BY <1>6, <1>7

LEMMA CountsSucceeds ==
  ASSUME Typed, NEW s \in Sessions, \A t \in Sessions : Counts(t), Alive(s), ~Discovers(s), Succeeds(s),
         \/ Commit(s) /\ ~broken[s] /\ run' = run
         \/ UNCHANGED <<candidates, runs, run, added>>
  PROVE  \A t \in Sessions : Counts(t)'
<1>1. Leaves(s, {}) /\ broken' = broken
  BY DEF Succeeds
<1>2. \A t \in Sessions \ {s} : PlaceOfKept(t)
  BY <1>1, PlaceOfOthersLeft
<1>3. CASE UNCHANGED <<candidates, runs, run, added>>
  BY <1>1, <1>2, <1>3, RowsOfAllKept, CountsKept, CountsLeft
<1>4. CASE Commit(s) /\ ~broken[s] /\ run' = run
  <2>1. \A t \in Sessions \ {s} : Counts(t)'
    BY <1>2, <1>4, RowsOfOthersKept, CountsKept
  <2>2. Open(s)
    BY <1>4 DEF Alive, Open
  <2>3. /\ errors[s] \subseteq errors'[s] /\ found'[s] = found[s] /\ kind'[s] = kind[s]
        /\ pc'[s] # "underway"
    BY <1>1, PlaceLeft
  <2> QED BY <1>4, <2>1, <2>2, <2>3, CountsCommitted
<1> QED BY <1>3, <1>4

LEMMA CountsCompletes ==
  ASSUME Typed, NEW s \in Sessions, \A t \in Sessions : Counts(t), Alive(s), ~broken[s], Completes(s)
  PROVE  \A t \in Sessions : Counts(t)'
<1>1. Leaves(s, {}) /\ broken' = broken
  BY DEF Succeeds, Completes
<1>2. \A t \in Sessions \ {s} : PlaceOfKept(t)
  BY <1>1, PlaceOfOthersLeft
<1>3. run'[s] = "completed" /\ \A t \in Sessions \ {s} : run'[t] = run[t]
  BY DEF Completes, Typed, TypeOK
<1>4. \A t \in Sessions \ {s} : Counts(t)'
  BY <1>2, <1>3, RowsOfOthersKept, CountsKept DEF Completes
<1>5. Open(s)
  BY DEF Alive, Open
<1>6. /\ errors[s] \subseteq errors'[s] /\ found'[s] = found[s] /\ kind'[s] = kind[s]
      /\ pc'[s] # "underway"
  BY <1>1, PlaceLeft
<1> QED BY <1>3, <1>4, <1>5, <1>6, CountsCommitted DEF Completes

\* A new row is counted once.
LEMMA CountsAdds ==
  ASSUME Typed, NEW s \in Sessions, \A t \in Sessions : Counts(t), NEW l \in Links, NEW authorized,
         l \notin Mine(s), Add(s, l, authorized), Treated(s, l), UNCHANGED <<place, history>>,
         Discovers(s) \/ At(s, "profile", "underway")
  PROVE  \A t \in Sessions : Counts(t)'
<1>1. \A t \in Sessions \ {s} : Counts(t)'
  <2>1. \A t \in Sessions \ {s} : RowsOfKept(t) /\ PlaceOfKept(t)
    BY DEF Typed, TypeOK, Add, Treated, RowsOfKept, PlaceOfKept, Of, place, history
  <2> QED BY <2>1, CountsKept
<1>2. Mine(s)' = Mine(s) \union {l}
  BY DEF Typed, TypeOK, Add, Mine
<1>3. found'[s] = found[s] + 1
  BY DEF Typed, TypeOK, Add
<1>4. IsFiniteSet(Mine(s))
  BY AcquisitionAssumption, FS_Subset DEF Mine
<1>5. Cardinality(Mine(s)') = Cardinality(Mine(s)) + 1
  BY <1>2, <1>4, FS_AddElement
<1>6. Open(s)' = Open(s) /\ Discovers(s)' = Discovers(s)
      /\ At(s, "profile", "underway")' = At(s, "profile", "underway")
  BY DEF Open, Discovers, At, place
<1>7. run'[s] = run[s] /\ errors'[s] = errors[s] /\ kind'[s] = kind[s]
  BY DEF Add, place, history
<1>8. todo'[s] = todo[s] \ {l}
  BY DEF Treated, Typed, TypeOK
<1>9. RunTells(s)'
  BY DEF Counts, RunTells, Add, Of, place, history
<1>10. kind[s] # "profile" => run[s] = "running"
  BY DEF Counts, At, Typed, Placed, Daily
<1>11. Open(s)' => found'[s] = Cardinality(Mine(s)')
  BY <1>3, <1>5, <1>6 DEF Counts
<1>12. At(s, "profile", "underway")' => todo'[s] \intersect Mine(s)' = {}
  BY <1>2, <1>6, <1>8 DEF Counts
<1> QED BY <1>6, <1>7, <1>9, <1>10, <1>11, <1>12, <1>1 DEF Counts

LEMMA CountsQuiet ==
  ASSUME \A t \in Sessions : Counts(t), UNCHANGED <<candidates, runs, run, added, place, found, kind>>,
         \A t \in Sessions : job[t] = "profile" => todo'[t] \subseteq todo[t]
  PROVE  \A t \in Sessions : Counts(t)'
<1> SUFFICES ASSUME NEW t \in Sessions PROVE Counts(t)'
  OBVIOUS
<1>1. Mine(t)' = Mine(t) /\ Of(t)' = Of(t)
  BY DEF Mine, Of
<1>2. RunTells(t)'
  BY <1>1 DEF Counts, RunTells, place
<1> QED BY <1>1, <1>2 DEF Counts, Open, Discovers, At, place

LEMMA CountsEntered ==
  ASSUME Typed, NEW s \in Sessions, \A t \in Sessions : Counts(t),
         NEW p \in {"ready", "underway", "recording"}, Enters(s, p),
         UNCHANGED <<candidates, runs, run, added, found, kind>>,
         pc[s] \in {"off", "ready", "underway"}, pc[s] = "off" => p = "ready",
         job[s] \notin {"browse", "simulate"} \/ pc[s] = "off",
         job[s] = "profile" /\ p = "underway" => Mine(s) = {},
         \A t \in Sessions \ {s} : todo'[t] = todo[t]
  PROVE  \A t \in Sessions : Counts(t)'
<1>1. \A t \in Sessions \ {s} : Counts(t)'
  <2>1. \A t \in Sessions \ {s} : RowsOfKept(t) /\ PlaceOfKept(t)
    BY RowsOfAllKept DEF Typed, TypeOK, Enters, PlaceOfKept
  <2> QED BY <2>1, CountsKept
<1>2. Mine(s)' = Mine(s) /\ Of(s)' = Of(s)
  BY DEF Mine, Of
<1>3. pc'[s] = p /\ UNCHANGED <<job, errors, broken>>
  BY DEF Enters, Typed, TypeOK
<1>4. ~Discovers(s)' /\ ~Discovers(s) /\ (Open(s)' = Open(s))
  BY <1>3 DEF Discovers, At, Open
<1>5. At(s, "profile", "underway")' => Mine(s)' = {}
  BY <1>2, <1>3 DEF At
<1>6. RunTells(s)'
  BY <1>2, <1>3 DEF Counts, RunTells
<1> QED BY <1>1, <1>2, <1>3, <1>4, <1>5, <1>6 DEF Counts

LEMMA CountsBegins ==
  ASSUME Typed, NEW s \in Sessions, \A t \in Sessions : Counts(t), Begins(s),
         At(s, "browse", "ready") \/ At(s, "simulate", "ready"),
         found' = found, \A t \in Sessions \ {s} : todo'[t] = todo[t]
  PROVE  \A t \in Sessions : Counts(t)'
<1>1. \A t \in Sessions \ {s} : Counts(t)'
  <2>1. \A t \in Sessions \ {s} : RowsOfKept(t) /\ PlaceOfKept(t)
    BY DEF Typed, TypeOK, Begins, Enters, tables, Of, RowsOfKept, PlaceOfKept
  <2> QED BY <2>1, CountsKept
<1>2. Mine(s)' = Mine(s) /\ Of(s)' = Of(s)
  BY DEF Begins, tables, Mine, Of
<1>3. pc'[s] = "underway" /\ run'[s] = "running" /\ UNCHANGED <<job, errors, broken, kind, runs>>
  BY DEF Begins, Enters, tables, Typed, TypeOK
<1>4. Discovers(s)' /\ Open(s)' = Open(s) /\ ~At(s, "profile", "underway")'
  BY <1>3 DEF Discovers, At, Open
<1>5. RunTells(s)'
  BY <1>2, <1>3 DEF Counts, RunTells
<1> QED BY <1>1, <1>2, <1>3, <1>4, <1>5 DEF Counts

Counted == \A t \in Sessions : Counts(t)

LEMMA NextCounted == Typed /\ Apart /\ Counted /\ [Next]_vars => Counted'
<1> SUFFICES ASSUME Typed, Apart, \A t \in Sessions : Counts(t), [Next]_vars
             PROVE  \A t \in Sessions : Counts(t)'
  BY DEF Counted
<1> USE DEF At, tables, pending
<1>1. ASSUME NEW s \in Sessions, DiscoveryStep(s) PROVE \A t \in Sessions : Counts(t)'
  <2> USE DEF Browsing, OnSite, Simulating, AddNothing, history
  <2>1. CASE BrowseBegin(s) \/ SimulateBegin(s)
    BY <2>1, CountsBegins DEF BrowseBegin, SimulateBegin, Typed, TypeOK
  <2>2. CASE \/ \E d \in Sites : OpenSite(s, d)
             \/ Search(s)
             \/ \E l \in Links : PassBy(s, l) \/ StopListing(s, l)
             \/ LeaveSite(s)
             \/ \E l \in Links : SimulateSkip(s, l)
    <3>1. UNCHANGED <<candidates, runs, run, added, place, found, kind>>
      BY <2>2 DEF OpenSite, Search, PassBy, StopListing, LeaveSite, SimulateSkip
    <3>2. \A t \in Sessions : job[t] = "profile" => todo'[t] = todo[t]
      BY <2>2 DEF OpenSite, Search, PassBy, StopListing, LeaveSite, SimulateSkip, Treated, Typed, TypeOK
    <3> QED BY <3>1, <3>2, CountsQuiet
  <2>3. ASSUME NEW l \in Links, Inspect(s, l) \/ Simulate(s, l)
        PROVE  \A t \in Sessions : Counts(t)'
    <3>1. <<s, l>> \notin Visible(s)
      BY <2>3 DEF Inspect, Simulate, New, Rows
    <3>2. l \notin Mine(s)
      BY <3>1 DEF Mine, Visible, Own
    <3> QED BY <2>3, <3>2, CountsAdds DEF Inspect, Simulate, Discovers
  <2>4. ASSUME NEW l \in Links, ProfileAdd(s, l) PROVE \A t \in Sessions : Counts(t)'
    <3>1. l \notin Mine(s)
      BY <2>4 DEF ProfileAdd, Counts
    <3> QED BY <2>4, <3>1, CountsAdds DEF ProfileAdd
  <2>5. CASE BrowseFinish(s) \/ SimulateFinish(s) \/ ProfileRecord(s)
    BY <2>5, CountsCompletes DEF BrowseFinish, SimulateFinish, ProfileRecord, Alive
  <2>6. CASE BrowserFails(s) \/ ProfileRaises(s) \/ \E l \in Links : SimulateRaises(s, l)
    BY <2>6, CountsRaises DEF BrowserFails, ProfileRaises, SimulateRaises, Alive
  <2>7. ASSUME NEW d \in Sites, ProfileBegin(s, d) PROVE \A t \in Sessions : Counts(t)'
    <3>1. Mine(s) = {}
      BY <2>7 DEF ProfileBegin, Fresh, Apart, All, Mine, Ids
    <3> QED BY <2>7, <3>1, CountsEntered DEF ProfileBegin, Typed, TypeOK
  <2>8. CASE ProfileCutShort(s)
    BY <2>8, CountsEntered DEF ProfileCutShort, Typed, TypeOK
  <2>9. CASE ProfileCommit(s)
    <3>1. \A t \in Sessions \ {s} : Counts(t)'
      <4>1. \A t \in Sessions \ {s} : PlaceOfKept(t)
        BY <2>9 DEF ProfileCommit, Enters, working, browsing, PlaceOfKept, Typed, TypeOK
      <4> QED BY <2>9, <4>1, RowsOfOthersKept, CountsKept DEF ProfileCommit
    <3>2. Open(s) /\ ~Discovers(s)
      BY <2>9 DEF ProfileCommit, Open, Discovers
    <3>3. /\ errors'[s] = errors[s] /\ found'[s] = found[s] /\ kind'[s] = kind[s] /\ run'[s] = run[s]
          /\ pc'[s] # "underway"
      BY <2>9 DEF ProfileCommit, Enters, working, Typed, TypeOK
    <3> QED BY <2>9, <3>1, <3>2, <3>3, CountsCommitted DEF ProfileCommit
  <2> QED BY <1>1, <2>1, <2>2, <2>3, <2>4, <2>5, <2>6, <2>7, <2>8, <2>9 DEF DiscoveryStep
<1>2. ASSUME NEW s \in Sessions, DailyStep(s) PROVE \A t \in Sessions : Counts(t)'
  <2> USE DEF UnchangedTables, Alive
  <2>1. CASE AdjustNothing(s) \/ Adjusted(s) \/ EnrichCommit(s) \/ ApproveFlush(s) \/ MakeLineup(s)
             \/ Polish(s) \/ Compile(s) \/ ReportWrite(s)
    BY <2>1, CountsSucceeds
       DEF AdjustNothing, Adjusted, EnrichCommit, ApproveFlush, MakeLineup, Polish, Compile, ReportWrite, Discovers
  <2>2. CASE AdjustRaises(s) \/ EnrichRefused(s) \/ EmptyShelf(s) \/ ReportRefused(s)
    BY <2>2, CountsRaises DEF AdjustRaises, EnrichRefused, EmptyShelf, ReportRefused
  <2>3. CASE AdjustWeight(s) \/ EnrichSelect(s) \/ ApproveSelect(s) \/ ReportRead(s)
    BY <2>3, CountsEntered DEF AdjustWeight, EnrichSelect, ApproveSelect, ReportRead, working, history
  <2>4. CASE AdjustFlush(s)
    BY <2>4, CountsQuiet DEF AdjustFlush, working, history
  <2> QED BY <1>2, <2>1, <2>2, <2>3, <2>4 DEF DailyStep
<1>3. ASSUME NEW s \in Sessions, Start(s) PROVE \A t \in Sessions : Counts(t)'
  BY <1>3, CountsEntered DEF Start, working, history
<1>4. ASSUME NEW s \in Sessions, PassOver(s) \/ Collapse(s) PROVE \A t \in Sessions : Counts(t)'
  BY <1>4, CountsRaises, CountsSucceeds DEF PassOver, Collapse, Alive, NoLineup, Discovers
<1>5. ASSUME NEW s \in Sessions, Breaks(s) \/ Dies(s) PROVE \A t \in Sessions : Counts(t)'
  <2>1. \A t \in Sessions \ {s} : PlaceOfKept(t)
    BY <1>5 DEF Breaks, Dies, Forgets, working, PlaceOfKept, Typed, TypeOK
  <2>2. Rollback(s)
    BY <1>5 DEF Breaks, Dies
  <2>3. \A t \in Sessions \ {s} : Counts(t)'
    BY <2>1, <2>2, RunRolledBack, RowsOfOthersKept, CountsKept
  <2>4. /\ broken'[s] \/ pc'[s] = "dead"
        /\ errors'[s] = errors[s] /\ kind'[s] = kind[s]
    BY <1>5 DEF Breaks, Dies, Typed, TypeOK
  <2>5. ~Open(s)'
    BY <2>4 DEF Open
  <2> QED BY <2>2, <2>3, <2>4, <2>5, CountsRolledBack
<1>6. ASSUME NEW c \in Ids, NEW verdict \in {"approved_for_stream", "blocked"}, Decide(c, verdict)
      PROVE  \A t \in Sessions : Counts(t)'
  BY <1>6, CountsQuiet DEF Decide, working
<1>7. CASE UNCHANGED vars
  BY <1>7, CountsQuiet DEF vars, working, history
<1> QED BY <1>1, <1>2, <1>3, <1>4, <1>5, <1>6, <1>7 DEF Next, Proceeds

LEMMA InitCounted == Init => Counted
<1> SUFFICES ASSUME Init, NEW s \in Sessions PROVE Counts(s)
  BY DEF Counted
<1>1. Mine(s) = {} /\ Of(s) = {}
  BY DEF Init, Mine, Of
<1>2. ~Discovers(s) /\ ~At(s, "profile", "underway")
  BY DEF Init, Discovers, At
<1>3. Cardinality({}) = 0
  BY FS_EmptySet
<1> QED BY <1>1, <1>2, <1>3 DEF Init, Counts, RunTells

\* The table of runs tells the truth: for any number of sessions that fail in
\* any way, and any amount of candidates.
THEOREM RunsTellTruth == Spec => []RunsTell
<1>1. Typed /\ Counted => RunsTell
  <2> SUFFICES ASSUME Typed, Counted, NEW s \in Sessions
               PROVE  CASE runs[s].status = "completed" -> runs[s].found = Cardinality(Of(s))
                        [] runs[s].status = "running" -> "simulate" \in errors[s]
                        [] OTHER -> Of(s) = {} \/ kind[s] = "profile"
    BY DEF RunsTell
  <2>1. runs[s].status \in {"absent", "running", "completed"}
    BY DEF Typed, TypeOK, Statuses
  <2>2. RunTells(s)
    BY DEF Counted, Counts
  <2> QED BY <2>1, <2>2 DEF RunTells
<1> QED BY <1>1, InitTyped, NextTyped, InitApart, NextApart, InitCounted, NextCounted, PTL DEF Spec

-----------------------------------------------------------------------------
(* What an orchestration without errors has committed.                     *)

Going(s) == kind[s] = "daily" /\ errors[s] = {} /\ pc[s] # "dead" /\ (pc[s] = "over" \/ ~broken[s])
Reached(s, jobs) == Going(s) /\ job[s] \in jobs
Selected(s, j) == Reached(s, {j}) /\ pc[s] = "underway"
Decided(c) == c \in direct => rights[c] # "pending_review"

\* What is done when a job is reached, as far as nothing has failed.
Achieves(s) ==
    /\ Reached(s, {"enrich", "approve", "lineup", "polish", "compile", "report", "over"}) =>
          runs[s].status = "completed" /\ run[s] = "completed" /\ added[s] = {}
    /\ Selected(s, "enrich") => \A l \in Of(s) : <<s, l>> \in batch[s] \union enriched
    /\ Reached(s, {"approve", "lineup", "polish", "compile", "report", "over"}) =>
          \A l \in Of(s) : <<s, l>> \in enriched
    /\ Selected(s, "approve") => \A l \in Of(s) : Decided(<<s, l>>) \/ <<s, l>> \in batch[s]
    /\ Reached(s, {"lineup"}) => \A l \in Of(s) : Decided(<<s, l>>) \/ <<s, l>> \in locked[s]
    /\ Reached(s, {"polish", "compile", "report", "over"}) => \A l \in Of(s) : Decided(<<s, l>>)
    /\ Reached(s, {"polish", "compile"}) => lineups[s] # "none"
    /\ Reached(s, {"report", "over"}) => lineups[s] = "emitted"
    /\ Reached(s, {"over"}) => reported
Achieved == \A s \in Sessions : Achieves(s)

\* Nothing done for candidates of t is undone.
NothingUndone(t) ==
    /\ Of(t)' = Of(t)
    /\ enriched \subseteq enriched'
    /\ \A l \in Links : Decided(<<t, l>>) => Decided(<<t, l>>)'
    /\ reported => reported'
StateOfKept(t) ==
    /\ runs'[t] = runs[t] /\ run'[t] = run[t] /\ added'[t] = added[t]
    /\ locked'[t] = locked[t] /\ lineups'[t] = lineups[t]
WorkOfKept(t) ==
    /\ kind'[t] = kind[t] /\ job'[t] = job[t] /\ pc'[t] = pc[t]
    /\ errors'[t] = errors[t] /\ broken'[t] = broken[t] /\ batch'[t] = batch[t]

LEMMA AchievesKept ==
  ASSUME NEW t \in Sessions, Achieves(t), NothingUndone(t), StateOfKept(t), WorkOfKept(t)
  PROVE  Achieves(t)'
<1>1. \A jobs : Reached(t, jobs)' => Reached(t, jobs)
  BY DEF Reached, Going, WorkOfKept
<1>2. \A j : Selected(t, j)' => Selected(t, j)
  BY DEF Selected, Reached, Going, WorkOfKept
<1>3. \A l \in Of(t)' : l \in Links /\ l \in Of(t)
  BY DEF Of, NothingUndone
<1>4. \A l \in Links : Decided(<<t, l>>) => Decided(<<t, l>>)'
  BY DEF NothingUndone
<1> QED BY <1>1, <1>2, <1>3, <1>4 DEF Achieves, NothingUndone, StateOfKept, WorkOfKept

\* A session that has failed, is dead, or has not discovered promises nothing.
LEMMA NothingAchieved ==
  ASSUME NEW t \in Sessions, ~Going(t)' \/ job'[t] \in {"adjust", "browse", "simulate", "profile"}
  PROVE  Achieves(t)'
  BY DEF Achieves, Selected, Reached

LEMMA OthersWork ==
  ASSUME Typed, NEW s \in Sessions, NEW t \in Sessions \ {s}, NEW failures, Leaves(s, failures),
         broken'[t] = broken[t]
  PROVE  WorkOfKept(t)
  BY DEF Typed, TypeOK, Leaves, Forgets, history, WorkOfKept

LEMMA WellLeft ==
  ASSUME Typed, NEW s \in Sessions, Leaves(s, {})
  PROVE  /\ job'[s] = After(s) /\ errors'[s] = errors[s] /\ kind'[s] = kind[s]
         /\ pc'[s] = IF After(s) = "over" THEN "over" ELSE "ready"
<1>1. errors[s] \union {} = errors[s]
  OBVIOUS
<1>2. {} \in SUBSET Jobs
  OBVIOUS
<1> QED BY <1>1, <1>2, PlaceLeft

LEMMA UndoneByNobody ==
  ASSUME Typed, NEW s \in Sessions, NEW t \in Sessions \ {s}, Commit(s) \/ Rollback(s),
         run'[t] = run[t], enriched \subseteq enriched', reported => reported', lineups'[t] = lineups[t]
  PROVE  NothingUndone(t) /\ StateOfKept(t)
<1>1. Of(t)' = Of(t)
  BY DEF Commit, Rollback, ForgetsRows, Visible, Own, Of
<1>2. \A l \in Links : Decided(<<t, l>>) => Decided(<<t, l>>)'
  BY DEF Typed, TypeOK, Commit, Rollback, ForgetsRows, Decided, Ids
<1>3. StateOfKept(t)
  BY DEF Typed, TypeOK, Commit, Rollback, ForgetsRows, StateOfKept
<1> QED BY <1>1, <1>2, <1>3 DEF NothingUndone

LEMMA UndoneByNothing ==
  ASSUME NEW t \in Sessions, UNCHANGED <<candidates, direct, rights, enriched, reported>>
  PROVE  NothingUndone(t)
  BY DEF NothingUndone, Of, Decided

\* A job that fails leaves a failure.
LEMMA AchievesRaises ==
  ASSUME Typed, Achieved, NEW s \in Sessions, Alive(s), Raises(s) \/ IsRefused(s)
  PROVE  Achieved'
<1>1. {job[s]} \in SUBSET Jobs
  BY DEF Typed, TypeOK, Placed, Alive
<1>2. Leaves(s, {job[s]})
  BY DEF Raises, IsRefused
<1>3. errors'[s] # {}
  BY <1>1, <1>2, PlaceLeft
<1>4. Achieves(s)'
  BY <1>3, NothingAchieved DEF Going
<1>5. ASSUME NEW t \in Sessions \ {s} PROVE Achieves(t)'
  <2>1. broken'[t] = broken[t]
    BY DEF Raises, IsRefused, Typed, TypeOK
  <2>2. WorkOfKept(t)
    BY <1>2, <2>1, OthersWork
  <2>3. CASE Rollback(s)
    <3>1. run'[t] = run[t]
      BY <2>3, RunRolledBack
    <3>2. UNCHANGED <<enriched, reported, lineups>>
      BY <2>3 DEF Rollback, ForgetsRows
    <3> QED BY <2>2, <2>3, <3>1, <3>2, UndoneByNobody, AchievesKept DEF Achieved
  <2>4. CASE UNCHANGED <<tables, pending>>
    <3>1. NothingUndone(t) /\ StateOfKept(t)
      BY <2>4, UndoneByNothing DEF tables, pending, StateOfKept
    <3> QED BY <2>2, <3>1, AchievesKept DEF Achieved
  <2> QED BY <2>3, <2>4 DEF Raises, IsRefused
<1> QED BY <1>4, <1>5 DEF Achieved

LEMMA OthersAchieve ==
  ASSUME Typed, Achieved, NEW s \in Sessions, NEW t \in Sessions \ {s}, Succeeds(s), Commit(s),
         run'[t] = run[t], enriched \subseteq enriched', reported => reported', lineups'[t] = lineups[t]
  PROVE  Achieves(t)'
<1>1. WorkOfKept(t)
  BY OthersWork DEF Succeeds
<1>2. NothingUndone(t) /\ StateOfKept(t)
  BY UndoneByNobody
<1> QED BY <1>1, <1>2, AchievesKept DEF Achieved

\* A commit of the session: its own part, of what it has when it commits.
LEMMA OwnCommit ==
  ASSUME Typed, NEW s \in Sessions, Succeeds(s), Commit(s), job[s] \in Daily, kind[s] = "daily", ~broken[s]
  PROVE  /\ job'[s] = Following[job[s]]
         /\ \A jobs : Reached(s, jobs)' => errors[s] = {} /\ Following[job[s]] \in jobs
         /\ \A j : ~Selected(s, j)'
         /\ Of(s)' = Of(s) \union added[s]
         /\ added'[s] = {}
         /\ runs'[s].status = run'[s]
         /\ \A l \in Links : <<s, l>> \in locked[s] \/ Decided(<<s, l>>) => Decided(<<s, l>>)'
<1>1. /\ job'[s] = Following[job[s]] /\ errors'[s] = errors[s]
      /\ pc'[s] = IF Following[job[s]] = "over" THEN "over" ELSE "ready"
  BY WellLeft DEF Succeeds, After
<1>2. \A l \in Links : <<s, l>> \in locked[s] \/ Decided(<<s, l>>) => Decided(<<s, l>>)'
  BY DEF Typed, TypeOK, Commit, Decided, Ids
<1>3. Of(s)' = Of(s) \union added[s] /\ added'[s] = {} /\ runs'[s].status = run'[s]
  BY DEF Typed, TypeOK, Commit, Visible, Own, Of
<1>4. \A jobs : Reached(s, jobs)' => errors[s] = {} /\ Following[job[s]] \in jobs
  BY <1>1 DEF Reached, Going
<1>5. \A j : ~Selected(s, j)'
  BY <1>1 DEF Selected
<1> QED BY <1>1, <1>2, <1>3, <1>4, <1>5

LEMMA AchievesDiscovery ==
  ASSUME Typed, Achieved, NEW s \in Sessions, DiscoveryStep(s)
  PROVE  Achieved'
<1> USE DEF At, Browsing, OnSite, Simulating, AddNothing, tables, pending, history
<1>1. CASE BrowserFails(s) \/ ProfileRaises(s) \/ \E l \in Links : SimulateRaises(s, l)
  BY <1>1, AchievesRaises DEF BrowserFails, ProfileRaises, SimulateRaises, Alive
<1>2. CASE BrowseFinish(s) \/ SimulateFinish(s) \/ ProfileRecord(s)
  <2>1. Completes(s) /\ Alive(s) /\ ~broken[s]
    BY <1>2 DEF BrowseFinish, SimulateFinish, ProfileRecord, Alive
  <2>2. run'[s] = "completed" /\ \A t \in Sessions \ {s} : run'[t] = run[t]
    BY <2>1 DEF Completes, Typed, TypeOK
  <2>3. \A t \in Sessions \ {s} : Achieves(t)'
    BY <2>1, <2>2, OthersAchieve DEF Completes
  <2>4. CASE kind[s] # "daily"
    <3>1. ~Going(s)'
      BY <2>1, <2>4 DEF Completes, Succeeds, Leaves, Going
    <3> QED BY <2>3, <3>1, NothingAchieved DEF Achieved
  <2>5. CASE kind[s] = "daily"
    <3>1. job[s] = "simulate"
      BY <1>2, <2>5 DEF BrowseFinish, SimulateFinish, ProfileRecord, Typed, Placed, Daily
    <3>2. job'[s] = "enrich" /\ runs'[s].status = "completed" /\ added'[s] = {}
          /\ \A j : ~Selected(s, j)'
      BY <2>1, <2>2, <2>5, <3>1, OwnCommit DEF Completes, Daily, Following
    <3>3. Achieves(s)'
      BY <2>2, <3>2 DEF Achieves, Reached
    <3> QED BY <2>3, <3>3 DEF Achieved
  <2> QED BY <2>4, <2>5
\* The rest leaves the session where it discovers.
<1>3. ASSUME NEW t \in Sessions \ {s},
             \/ BrowseBegin(s)
             \/ \E d \in Sites : OpenSite(s, d)
             \/ Search(s)
             \/ \E l \in Links : PassBy(s, l) \/ Inspect(s, l) \/ StopListing(s, l)
             \/ LeaveSite(s)
             \/ SimulateBegin(s)
             \/ \E l \in Links : SimulateSkip(s, l) \/ Simulate(s, l)
             \/ \E d \in Sites : ProfileBegin(s, d)
             \/ \E l \in Links : ProfileAdd(s, l)
             \/ ProfileCutShort(s)
      PROVE  Achieves(t)'
  <2>1. WorkOfKept(t)
    BY <1>3 DEF BrowseBegin, OpenSite, Search, PassBy, Inspect, StopListing, LeaveSite, SimulateBegin,
                SimulateSkip, Simulate, ProfileBegin, ProfileAdd, ProfileCutShort, Begins, Enters, place,
                WorkOfKept, Typed, TypeOK
  <2>2. StateOfKept(t) /\ UNCHANGED <<candidates, rights, enriched, reported>>
    BY <1>3 DEF BrowseBegin, OpenSite, Search, PassBy, Inspect, StopListing, LeaveSite, SimulateBegin,
                SimulateSkip, Simulate, ProfileBegin, ProfileAdd, ProfileCutShort, Begins, Add,
                StateOfKept, Typed, TypeOK
  <2>3. \A l \in Links : <<t, l>> \in direct' => <<t, l>> \in direct
    BY <1>3 DEF BrowseBegin, OpenSite, Search, PassBy, Inspect, StopListing, LeaveSite, SimulateBegin,
                SimulateSkip, Simulate, ProfileBegin, ProfileAdd, ProfileCutShort, Begins, Add
  <2>4. NothingUndone(t)
    BY <2>2, <2>3 DEF NothingUndone, Of, Decided
  <2> QED BY <2>1, <2>2, <2>4, AchievesKept DEF Achieved
<1>4. ASSUME \/ BrowseBegin(s)
             \/ \E d \in Sites : OpenSite(s, d)
             \/ Search(s)
             \/ \E l \in Links : PassBy(s, l) \/ Inspect(s, l) \/ StopListing(s, l)
             \/ LeaveSite(s)
             \/ SimulateBegin(s)
             \/ \E l \in Links : SimulateSkip(s, l) \/ Simulate(s, l)
             \/ \E d \in Sites : ProfileBegin(s, d)
             \/ \E l \in Links : ProfileAdd(s, l)
             \/ ProfileCutShort(s)
      PROVE  Achieves(s)'
  <2>1. job'[s] = job[s] /\ job[s] \in {"browse", "simulate", "profile"}
    BY <1>4 DEF BrowseBegin, OpenSite, Search, PassBy, Inspect, StopListing, LeaveSite, SimulateBegin,
                SimulateSkip, Simulate, ProfileBegin, ProfileAdd, ProfileCutShort, Begins, Enters, place
  <2> QED BY <2>1, NothingAchieved
<1>5. CASE ProfileCommit(s)
  <2>1. job'[s] = "profile"
    BY <1>5 DEF ProfileCommit, Enters
  <2>2. \A t \in Sessions \ {s} : WorkOfKept(t)
    BY <1>5 DEF ProfileCommit, Enters, working, WorkOfKept, Typed, TypeOK
  <2>3. \A t \in Sessions \ {s} : NothingUndone(t) /\ StateOfKept(t)
    BY <1>5, UndoneByNobody DEF ProfileCommit
  <2> QED BY <2>1, <2>2, <2>3, NothingAchieved, AchievesKept DEF Achieved
<1> QED BY <1>1, <1>2, <1>3, <1>4, <1>5 DEF DiscoveryStep, Achieved

LEMMA AchievesDaily ==
  ASSUME Typed, Achieved, NEW s \in Sessions, DailyStep(s)
  PROVE  Achieved'
<1> USE DEF At, UnchangedTables, tables, pending, history
<1>0. kind[s] = "daily" => job[s] \in Daily \union {"over"}
  BY DEF Typed, Placed
<1>1. CASE AdjustRaises(s) \/ EnrichRefused(s) \/ EmptyShelf(s) \/ ReportRefused(s)
  BY <1>1, AchievesRaises DEF AdjustRaises, EnrichRefused, EmptyShelf, ReportRefused, Alive
<1>2. ASSUME AdjustNothing(s) \/ Adjusted(s) \/ ApproveFlush(s) \/ Polish(s)
      PROVE  Achieved'
  <2>1. Succeeds(s) /\ Leaves(s, {})
    BY <1>2 DEF AdjustNothing, Adjusted, ApproveFlush, Polish, Succeeds
  <2>2. UNCHANGED <<tables, added, run>> /\ \A t \in Sessions \ {s} : locked'[t] = locked[t]
    BY <1>2 DEF AdjustNothing, Adjusted, ApproveFlush, Polish, Typed, TypeOK
  <2>3. \A t \in Sessions : NothingUndone(t)
    BY <2>2, UndoneByNothing
  <2>4. \A t \in Sessions \ {s} : StateOfKept(t)
    BY <2>2 DEF StateOfKept
  <2>5. \A t \in Sessions \ {s} : Achieves(t)'
    BY <2>1, <2>3, <2>4, OthersWork, AchievesKept DEF Achieved, Succeeds
  <2>6. /\ job'[s] = After(s) /\ errors'[s] = errors[s] /\ kind'[s] = kind[s]
        /\ pc'[s] = IF After(s) = "over" THEN "over" ELSE "ready"
    BY <2>1, WellLeft
  <2>7. ASSUME Going(s)' PROVE Achieves(s)'
    <3>1. kind[s] = "daily" /\ errors[s] = {} /\ Going(s) /\ After(s) = Following[job[s]]
      BY <1>2, <2>6, <2>7 DEF Going, After, AdjustNothing, Adjusted, ApproveFlush, Polish
    <3>2. CASE AdjustNothing(s) \/ Adjusted(s)
      BY <2>6, <3>1, <3>2, NothingAchieved DEF AdjustNothing, Adjusted, Following
    <3>3. CASE ApproveFlush(s)
      <4>1. /\ runs[s].status = "completed" /\ run[s] = "completed" /\ added[s] = {}
            /\ \A l \in Of(s) : <<s, l>> \in enriched
            /\ \A l \in Of(s) : Decided(<<s, l>>) \/ <<s, l>> \in batch[s]
        BY <3>1, <3>3 DEF Achieved, Achieves, Reached, Selected, ApproveFlush
      <4>2. job'[s] = "lineup" /\ pc'[s] = "ready"
        BY <2>6, <3>1, <3>3 DEF ApproveFlush, Following
      <4>3. locked'[s] = batch[s]
        BY <3>3 DEF ApproveFlush, Typed, TypeOK
      <4>4. Of(s)' = Of(s) /\ \A l \in Links : Decided(<<s, l>>)' = Decided(<<s, l>>)
        BY <2>2 DEF Of, Decided
      <4>5. \A l \in Of(s)' : Decided(<<s, l>>)' \/ <<s, l>> \in locked'[s]
        BY <4>1, <4>3, <4>4 DEF Of
      <4> QED BY <2>2, <4>1, <4>2, <4>4, <4>5 DEF Achieves, Reached, Selected
    <3>4. CASE Polish(s)
      <4>1. /\ runs[s].status = "completed" /\ run[s] = "completed" /\ added[s] = {}
            /\ \A l \in Of(s) : <<s, l>> \in enriched /\ Decided(<<s, l>>)
            /\ lineups[s] # "none"
        BY <3>1, <3>4 DEF Achieved, Achieves, Reached, Polish
      <4>2. job'[s] = "compile" /\ pc'[s] = "ready"
        BY <2>6, <3>1, <3>4 DEF Polish, Following
      <4>3. Of(s)' = Of(s) /\ \A l \in Links : Decided(<<s, l>>)' = Decided(<<s, l>>)
        BY <2>2 DEF Of, Decided
      <4>4. \A l \in Of(s)' : <<s, l>> \in enriched' /\ Decided(<<s, l>>)'
        BY <2>2, <4>1, <4>3 DEF Of
      <4> QED BY <2>2, <4>1, <4>2, <4>4 DEF Achieves, Reached, Selected
    <3> QED BY <1>2, <3>2, <3>3, <3>4
  <2> QED BY <2>5, <2>7, NothingAchieved DEF Achieved
<1>3. ASSUME EnrichSelect(s) \/ ApproveSelect(s) \/ ReportRead(s)
      PROVE  Achieved'
  <2>1. /\ pc'[s] = "underway" /\ UNCHANGED <<job, errors, broken, kind, tables, pending>>
        /\ \A t \in Sessions \ {s} : pc'[t] = pc[t] /\ batch'[t] = batch[t]
    BY <1>3 DEF EnrichSelect, ApproveSelect, ReportRead, Enters, Typed, TypeOK
  <2>2. \A t \in Sessions \ {s} : Achieves(t)'
    BY <2>1, UndoneByNothing, AchievesKept DEF WorkOfKept, StateOfKept, Achieved
  <2>3. Of(s)' = Of(s) /\ \A l \in Links : Decided(<<s, l>>)' = Decided(<<s, l>>)
    BY <2>1 DEF Of, Decided
  <2>4. \A jobs : Reached(s, jobs)' => Reached(s, jobs)
    BY <1>3, <2>1 DEF Reached, Going, EnrichSelect, ApproveSelect, ReportRead
  <2>5. Selected(s, "enrich")' => \A l \in Of(s)' : <<s, l>> \in batch'[s] \union enriched'
    <3>1. CASE EnrichSelect(s)
      <4>1. batch'[s] = Enrichable(s)
        BY <3>1 DEF EnrichSelect, Typed, TypeOK
      <4> QED BY <2>1, <4>1 DEF Selected, Reached, Going, Of, Enrichable, Visible
    <3>2. CASE ~EnrichSelect(s)
      BY <1>3, <2>1, <3>2 DEF Selected, Reached, ApproveSelect, ReportRead
    <3> QED BY <3>1, <3>2
  <2>6. Selected(s, "approve")' => \A l \in Of(s)' : Decided(<<s, l>>)' \/ <<s, l>> \in batch'[s]
    <3>1. CASE ApproveSelect(s)
      <4>1. batch'[s] = Approvable(s)
        BY <3>1 DEF ApproveSelect, Typed, TypeOK
      <4>2. kind[s] = "daily" => \A l \in Links : IsLong(<<s, l>>)
        BY DEF IsLong
      <4>3. kind[s] = "daily" => \A l \in Of(s) : Decided(<<s, l>>) \/ <<s, l>> \in Approvable(s)
        BY <4>2 DEF Of, Decided, Approvable, Visible
      <4> QED BY <2>1, <2>3, <4>1, <4>3 DEF Selected, Reached, Going, Of
    <3>2. CASE ~ApproveSelect(s)
      BY <1>3, <2>1, <3>2 DEF Selected, Reached, EnrichSelect, ReportRead
    <3> QED BY <3>1, <3>2
  <2>7. \A l \in Of(s) : l \in Links
    BY DEF Of
  <2>8. Achieves(s)'
    BY <2>1, <2>3, <2>4, <2>5, <2>6, <2>7 DEF Achieves, Achieved
  <2> QED BY <2>2, <2>8 DEF Achieved
<1>5. ASSUME AdjustWeight(s) \/ AdjustFlush(s)
      PROVE  Achieved'
  <2>1. job[s] = "adjust" /\ job' = job /\ UNCHANGED <<tables, added, run, locked>>
    BY <1>5 DEF AdjustWeight, AdjustFlush, Enters, place
  <2>2. \A t \in Sessions \ {s} : WorkOfKept(t)
    BY <1>5 DEF AdjustWeight, AdjustFlush, Enters, place, working, WorkOfKept, Typed, TypeOK
  <2>3. \A t \in Sessions \ {s} : Achieves(t)'
    BY <2>1, <2>2, UndoneByNothing, AchievesKept DEF StateOfKept, Achieved
  <2> QED BY <2>1, <2>3, NothingAchieved DEF Achieved
<1>4. ASSUME EnrichCommit(s) \/ MakeLineup(s) \/ Compile(s) \/ ReportWrite(s)
      PROVE  Achieved'
  <2>1. Succeeds(s) /\ Commit(s) /\ run' = run /\ ~broken[s] /\ Alive(s)
    BY <1>4 DEF EnrichCommit, MakeLineup, Compile, ReportWrite, Alive
  <2>2. /\ enriched \subseteq enriched' /\ (reported => reported')
        /\ \A t \in Sessions \ {s} : lineups'[t] = lineups[t]
    BY <1>4 DEF EnrichCommit, MakeLineup, Compile, ReportWrite, Typed, TypeOK
  <2>3. \A t \in Sessions \ {s} : Achieves(t)'
    BY <2>1, <2>2, OthersAchieve
  <2>4. CASE ~Going(s)'
    BY <2>3, <2>4, NothingAchieved DEF Achieved
  <2>5. ASSUME Going(s)' PROVE Achieves(s)'
    <3>1. kind[s] = "daily" /\ errors[s] = {} /\ Going(s) /\ job[s] \in Daily
      <4>1. errors'[s] = errors[s] /\ kind'[s] = kind[s]
        BY <2>1, WellLeft DEF Succeeds
      <4> QED BY <1>0, <1>4, <2>1, <2>5, <4>1
                 DEF Going, Alive, EnrichCommit, MakeLineup, Compile, ReportWrite
    <3>2. /\ job'[s] = Following[job[s]]
          /\ \A j : ~Selected(s, j)'
          /\ Of(s)' = Of(s) \union added[s]
          /\ added'[s] = {}
          /\ runs'[s].status = run'[s]
          /\ \A l \in Links : <<s, l>> \in locked[s] \/ Decided(<<s, l>>) => Decided(<<s, l>>)'
      BY <2>1, <3>1, OwnCommit
    <3>3. runs[s].status = "completed" /\ run[s] = "completed" /\ added[s] = {}
      BY <1>4, <3>1 DEF Achieved, Achieves, Reached, EnrichCommit, MakeLineup, Compile, ReportWrite
    <3>4. /\ runs'[s].status = "completed" /\ run'[s] = "completed" /\ added'[s] = {}
          /\ Of(s)' = Of(s) /\ \A l \in Of(s) : l \in Links
      BY <2>1, <3>2, <3>3 DEF Of
    <3>5. CASE EnrichCommit(s)
      <4>1. \A l \in Of(s) : <<s, l>> \in batch[s] \union enriched
        BY <3>1, <3>5 DEF Achieved, Achieves, Selected, Reached, EnrichCommit
      <4>2. job'[s] = "approve" /\ \A l \in Of(s)' : <<s, l>> \in enriched'
        BY <3>2, <3>4, <3>5, <4>1 DEF EnrichCommit, Following
      <4> QED BY <3>2, <3>4, <4>2 DEF Achieves, Reached
    <3>6. CASE MakeLineup(s)
      <4>1. \A l \in Of(s) : <<s, l>> \in enriched /\ (Decided(<<s, l>>) \/ <<s, l>> \in locked[s])
        BY <3>1, <3>6 DEF Achieved, Achieves, Reached, MakeLineup
      <4>2. job'[s] = "polish" /\ lineups'[s] = "draft"
        BY <3>2, <3>6 DEF MakeLineup, Following, Typed, TypeOK
      <4>3. \A l \in Of(s)' : <<s, l>> \in enriched' /\ Decided(<<s, l>>)'
        BY <2>2, <3>2, <3>4, <4>1
      <4> QED BY <3>2, <3>4, <4>2, <4>3 DEF Achieves, Reached
    <3>7. CASE Compile(s)
      <4>1. \A l \in Of(s) : <<s, l>> \in enriched /\ Decided(<<s, l>>)
        BY <3>1, <3>7 DEF Achieved, Achieves, Reached, Compile
      <4>2. job'[s] = "report" /\ lineups'[s] = "emitted"
        BY <3>2, <3>7 DEF Compile, Following, Typed, TypeOK
      <4>3. \A l \in Of(s)' : <<s, l>> \in enriched' /\ Decided(<<s, l>>)'
        BY <2>2, <3>2, <3>4, <4>1
      <4> QED BY <3>2, <3>4, <4>2, <4>3 DEF Achieves, Reached
    <3>8. CASE ReportWrite(s)
      <4>1. /\ \A l \in Of(s) : <<s, l>> \in enriched /\ Decided(<<s, l>>)
            /\ lineups[s] = "emitted"
        BY <3>1, <3>8 DEF Achieved, Achieves, Reached, ReportWrite
      <4>2. job'[s] = "over" /\ lineups'[s] = "emitted" /\ reported'
        BY <3>2, <3>8, <4>1 DEF ReportWrite, Following
      <4>3. \A l \in Of(s)' : <<s, l>> \in enriched' /\ Decided(<<s, l>>)'
        BY <2>2, <3>2, <3>4, <4>1
      <4> QED BY <3>2, <3>4, <4>2, <4>3 DEF Achieves, Reached
    <3> QED BY <1>4, <3>5, <3>6, <3>7, <3>8
  <2> QED BY <2>3, <2>4, <2>5 DEF Achieved
<1> QED BY <1>1, <1>2, <1>3, <1>4, <1>5 DEF DailyStep

LEMMA NextAchieved == Typed /\ Achieved /\ [Next]_vars => Achieved'
<1> SUFFICES ASSUME Typed, Achieved, [Next]_vars PROVE Achieved'
  OBVIOUS
<1> USE DEF tables, pending, history
<1>1. ASSUME NEW s \in Sessions, Start(s) PROVE Achieved'
  <2>1. \A t \in Sessions \ {s} : WorkOfKept(t)
    BY <1>1 DEF Start, Enters, working, WorkOfKept, Typed, TypeOK
  <2>2. \A t \in Sessions : NothingUndone(t) /\ StateOfKept(t)
    BY <1>1, UndoneByNothing DEF Start, StateOfKept
  <2>3. /\ pc[s] = "off" /\ pc'[s] = "ready"
        /\ UNCHANGED <<job, errors, broken, kind, tables, pending, batch>>
    BY <1>1 DEF Start, Enters, working, Typed, TypeOK
  <2>4. (\A jobs : Reached(s, jobs)' => Reached(s, jobs)) /\ \A j : ~Selected(s, j)'
    BY <2>3 DEF Reached, Selected, Going
  <2>5. Of(s)' = Of(s) /\ \A l \in Links : Decided(<<s, l>>)' = Decided(<<s, l>>)
    BY <2>3 DEF Of, Decided
  <2>6. \A l \in Of(s) : l \in Links
    BY DEF Of
  <2>7. Achieves(s)'
    BY <2>3, <2>4, <2>5, <2>6 DEF Achieved, Achieves
  <2> QED BY <2>1, <2>2, <2>7, AchievesKept DEF Achieved
<1>2. ASSUME NEW s \in Sessions, PassOver(s) PROVE Achieved'
  <2>1. Succeeds(s) /\ Leaves(s, {}) /\ UNCHANGED <<tables, pending>>
    BY <1>2 DEF PassOver, Succeeds
  <2>2. \A t \in Sessions \ {s} : Achieves(t)'
    BY <2>1, UndoneByNothing, OthersWork, AchievesKept DEF Achieved, Succeeds, StateOfKept
  <2>3. ~Going(s)'
    <3>1. /\ kind'[s] = kind[s] /\ errors'[s] = errors[s] /\ broken' = broken
          /\ pc'[s] = IF After(s) = "over" THEN "over" ELSE "ready"
      BY <2>1, WellLeft DEF Succeeds
    <3>2. kind[s] = "daily" => After(s) \in {"compile", "report"}
      BY <1>2 DEF PassOver, NoLineup, After, Following
    <3>3. ~Going(s)
      BY <1>2 DEF PassOver, NoLineup, Achieved, Achieves, Reached
    <3> QED BY <1>2, <3>1, <3>2, <3>3 DEF PassOver, Going
  <2> QED BY <2>2, <2>3, NothingAchieved DEF Achieved
<1>3. ASSUME NEW s \in Sessions, Collapse(s) PROVE Achieved'
  BY <1>3, AchievesRaises DEF Collapse
<1>4. ASSUME NEW s \in Sessions, Breaks(s) \/ Dies(s) PROVE Achieved'
  <2>1. /\ Rollback(s)
        /\ \A t \in Sessions \ {s} : WorkOfKept(t)
    BY <1>4 DEF Breaks, Dies, Forgets, working, WorkOfKept, Typed, TypeOK
  <2>2. \A t \in Sessions \ {s} : Achieves(t)'
    <3>1. UNCHANGED <<enriched, reported, lineups>>
      BY <2>1 DEF Rollback, ForgetsRows
    <3> QED BY <2>1, <3>1, RunRolledBack, UndoneByNobody, AchievesKept DEF Achieved
  <2>3. ~Going(s)'
    BY <1>4 DEF Breaks, Dies, Alive, Going, Typed, TypeOK
  <2> QED BY <2>2, <2>3, NothingAchieved DEF Achieved
<1>5. ASSUME NEW c \in Ids, NEW verdict \in {"approved_for_stream", "blocked"}, Decide(c, verdict)
      PROVE  Achieved'
  <2>1. \A t \in Sessions : WorkOfKept(t) /\ StateOfKept(t)
    BY <1>5 DEF Decide, place, working, WorkOfKept, StateOfKept
  <2>2. \A t \in Sessions : NothingUndone(t)
    BY <1>5 DEF Decide, NothingUndone, Of, Decided, Typed, TypeOK, Ids
  <2> QED BY <2>1, <2>2, AchievesKept DEF Achieved
<1>6. CASE UNCHANGED vars
  BY <1>6, UndoneByNothing, AchievesKept DEF vars, place, working, WorkOfKept, StateOfKept, Achieved
<1> QED BY <1>1, <1>2, <1>3, <1>4, <1>5, <1>6, AchievesDiscovery, AchievesDaily DEF Next, Proceeds

LEMMA InitAchieved == Init => Achieved
<1> SUFFICES ASSUME Init, NEW s \in Sessions PROVE Achieves(s)
  BY DEF Achieved
<1>1. kind[s] = "daily" => job[s] = "adjust"
  BY DEF Init, FirstJob
<1>2. \A jobs : Reached(s, jobs) => "adjust" \in jobs
  BY <1>1 DEF Reached, Going
<1> QED BY <1>2 DEF Achieves, Selected

\* An orchestration that reports success has committed all of its work, with
\* whatever sessions beside it, and with candidates of its own only enriched
\* and decided.
THEOREM SuccessHolds == Spec => []SuccessIsTrue
<1>1. Typed /\ Achieved => SuccessIsTrue
  BY DEF Achieved, Achieves, Reached, Going, Decided, SuccessIsTrue, Typed, Placed
<1> QED BY <1>1, InitTyped, NextTyped, InitAchieved, NextAchieved, PTL DEF Spec

-----------------------------------------------------------------------------
(* Row locks: who holds rows, and who waits for whom.                      *)

\* An orchestration holds keywords, adjusted to the end or not, until its
\* discovery or its enrichment is committed or lost, and approved candidates until its lineup, its compilation
\* or its report is; a session that is broken, dead or over holds nothing.
Holds(t) ==
    /\ tuned[t] => kind[t] = "daily" /\ job[t] \in {"adjust", "simulate", "enrich"} /\ Open(t)
    /\ locked[t] # {} =>
          kind[t] = "daily" /\ job[t] \in {"lineup", "polish", "compile", "report"} /\ Open(t)

\* No two sessions hold the same rows: the later UPDATE has waited.
OneHolder ==
    \A s, t \in Sessions :
        (tuned[s] /\ tuned[t]) \/ locked[s] \intersect locked[t] # {} => s = t

Held == (\A t \in Sessions : Holds(t)) /\ OneHolder

\* The statements that wait: the flush of an adjustment and that of an approval.
WaitsFor(s, t) ==
    \/ At(s, "adjust", "underway") /\ ~tuned[s] /\ tuned[t]
    \/ At(s, "approve", "underway") /\ locked[t] \intersect batch[s] # {}

HoldersNeverWait == \A s, t, u \in Sessions : ~(WaitsFor(s, t) /\ WaitsFor(t, u))

RowsKeptBy(t) == tuned'[t] = tuned[t] /\ locked'[t] = locked[t]
WhereKept(t) ==
    kind'[t] = kind[t] /\ job'[t] = job[t] /\ pc'[t] = pc[t] /\ broken'[t] = broken[t]

\* A step of one session that takes no rows, and either gives all of its own
\* back or keeps them where it may.
LEMMA HeldKept ==
  ASSUME Held, NEW s \in Sessions,
         \A t \in Sessions \ {s} : WhereKept(t) /\ RowsKeptBy(t),
         \/ ~tuned'[s] /\ locked'[s] = {}
         \/ RowsKeptBy(s) /\ Holds(s)'
  PROVE  Held'
<1>1. \A t \in Sessions : Holds(t)'
  BY DEF Held, Holds, Open, WhereKept, RowsKeptBy
<1>2. OneHolder'
  BY DEF Held, OneHolder, RowsKeptBy
<1> QED BY <1>1, <1>2 DEF Held

\* The end of a transaction gives everything back.
LEMMA GivenBack ==
  ASSUME Typed, NEW s \in Sessions, Commit(s) \/ Rollback(s)
  PROVE  /\ ~tuned'[s] /\ locked'[s] = {}
         /\ \A t \in Sessions \ {s} : RowsKeptBy(t)
  BY DEF Typed, TypeOK, Commit, Rollback, RowsKeptBy

LEMMA WhereOthersLeft ==
  ASSUME Typed, NEW s \in Sessions, NEW failures, Leaves(s, failures),
         \A t \in Sessions \ {s} : broken'[t] = broken[t]
  PROVE  \A t \in Sessions \ {s} : WhereKept(t)
  BY DEF Typed, TypeOK, Leaves, history, WhereKept

\* The job after one in which rows may be held is one in which they may be, too;
\* only enrichments and reports end it, with a commit or a rollback.
LEMMA HoldsLeft ==
  ASSUME Typed, Held, NEW s \in Sessions, broken'[s] = broken[s],
         NEW failures \in SUBSET Jobs, Leaves(s, failures), RowsKeptBy(s),
         job[s] \notin {"enrich", "report"} \/ (~tuned[s] /\ locked[s] = {})
  PROVE  Holds(s)'
<1>1. /\ job'[s] = After(s) /\ kind'[s] = kind[s]
      /\ pc'[s] = IF After(s) = "over" THEN "over" ELSE "ready"
  BY PlaceLeft
<1> QED BY <1>1 DEF Held, Holds, Open, After, Following, RowsKeptBy

\* A job that ends well, with a commit or without one.
LEMMA HeldSucceeds ==
  ASSUME Typed, Held, NEW s \in Sessions, Succeeds(s),
         \/ Commit(s)
         \/ UNCHANGED <<locked, tuned>> /\ job[s] \notin {"enrich", "report"}
  PROVE  Held'
<1>1. Leaves(s, {}) /\ broken' = broken
  BY DEF Succeeds
<1>2. \A t \in Sessions \ {s} : WhereKept(t)
  BY <1>1, WhereOthersLeft
<1>3. CASE Commit(s)
  BY <1>2, <1>3, GivenBack, HeldKept
<1>4. CASE UNCHANGED <<locked, tuned>> /\ job[s] \notin {"enrich", "report"}
  <2>1. \A t \in Sessions : RowsKeptBy(t)
    BY <1>4 DEF RowsKeptBy
  <2>2. {} \in SUBSET Jobs
    OBVIOUS
  <2>3. Holds(s)'
    BY <1>1, <1>4, <2>1, <2>2, HoldsLeft
  <2> QED BY <1>2, <2>1, <2>3, HeldKept
<1> QED BY <1>3, <1>4

\* A job that fails: the session goes on with its rows only from a job in which
\* it has them, and not at all when the database refused it.
LEMMA HeldRaises ==
  ASSUME Typed, Held, NEW s \in Sessions, Alive(s),
         \/ Raises(s) /\ (job[s] \notin {"enrich", "report"} \/ broken[s])
         \/ IsRefused(s)
  PROVE  Held'
<1>1. {job[s]} \in SUBSET Jobs
  BY DEF Typed, TypeOK, Placed, Alive
<1>2. Leaves(s, {job[s]}) /\ \A t \in Sessions \ {s} : broken'[t] = broken[t]
  BY DEF Raises, IsRefused, Typed, TypeOK
<1>3. \A t \in Sessions \ {s} : WhereKept(t)
  BY <1>2, WhereOthersLeft
<1>4. CASE Rollback(s)
  BY <1>3, <1>4, GivenBack, HeldKept
<1>5. CASE ~Rollback(s)
  <2>1. UNCHANGED <<locked, tuned, broken>> /\ (job[s] \notin {"enrich", "report"} \/ broken[s])
    BY <1>5 DEF Raises, IsRefused, tables, pending
  <2>2. \A t \in Sessions : RowsKeptBy(t)
    BY <2>1 DEF RowsKeptBy
  <2>3. broken[s] => ~tuned[s] /\ locked[s] = {}
    BY DEF Held, Holds, Open
  <2>4. Holds(s)'
    BY <1>1, <1>2, <2>1, <2>2, <2>3, HoldsLeft
  <2> QED BY <1>3, <2>2, <2>4, HeldKept
<1> QED BY <1>4, <1>5

\* A session that goes on within its job keeps its rows, or commits.
LEMMA HeldEntered ==
  ASSUME Typed, Held, NEW s \in Sessions, NEW p \in {"ready", "underway", "recording"}, Enters(s, p),
         kind' = kind, UNCHANGED <<locked, tuned>> \/ Commit(s)
  PROVE  Held'
<1>1. \A t \in Sessions \ {s} : WhereKept(t)
  BY DEF Typed, TypeOK, Enters, WhereKept
<1>2. CASE Commit(s)
  BY <1>1, <1>2, GivenBack, HeldKept
<1>3. CASE UNCHANGED <<locked, tuned>>
  <2>1. \A t \in Sessions : RowsKeptBy(t)
    BY <1>3 DEF RowsKeptBy
  <2>2. Holds(s)'
    BY <2>1 DEF Typed, TypeOK, Enters, Held, Holds, Open, RowsKeptBy
  <2> QED BY <1>1, <2>1, <2>2, HeldKept
<1> QED BY <1>2, <1>3

LEMMA HeldStays ==
  ASSUME Held, UNCHANGED <<locked, tuned, kind, job, pc, broken>>
  PROVE  Held'
  BY DEF Held, Holds, Open, OneHolder

\* Whoever takes rows has waited until nobody else has them.
LEMMA HeldTaken ==
  ASSUME Typed, Held, NEW s \in Sessions, AdjustFlush(s) \/ ApproveFlush(s)
  PROVE  Held'
<1>1. kind[s] = "daily" /\ ~broken[s]
  BY Kinship DEF AdjustFlush, ApproveFlush, At, Typed, Placed, Kinds
<1>2. CASE AdjustFlush(s)
  <2>1. /\ tuned' = [tuned EXCEPT ![s] = TRUE] /\ UNCHANGED <<locked, kind, job, pc, broken>>
        /\ \A t \in Sessions \ {s} : ~tuned[t]
    BY <1>2 DEF AdjustFlush, Others, place, history
  <2>2. job[s] = "adjust" /\ pc[s] = "underway"
    BY <1>2 DEF AdjustFlush, At
  <2>3. \A t \in Sessions : Holds(t)'
    BY <1>1, <2>1, <2>2 DEF Typed, TypeOK, Held, Holds, Open
  <2>4. OneHolder'
    BY <2>1 DEF Typed, TypeOK, Held, OneHolder
  <2> QED BY <2>3, <2>4 DEF Held
<1>3. CASE ApproveFlush(s)
  <2>1. /\ locked' = [locked EXCEPT ![s] = batch[s]] /\ tuned' = tuned
        /\ \A t \in Sessions \ {s} : locked[t] \intersect batch[s] = {}
    BY <1>3 DEF ApproveFlush, Others
  <2>2. job[s] = "approve" /\ ~tuned[s]
    BY <1>3 DEF ApproveFlush, At, Held, Holds
  <2>3. Leaves(s, {}) /\ broken' = broken
    BY <1>3 DEF ApproveFlush, Succeeds
  <2>4. \A t \in Sessions \ {s} : WhereKept(t)
    BY <2>3, WhereOthersLeft
  <2>5. job'[s] = After(s) /\ kind'[s] = kind[s] /\ pc'[s] = IF After(s) = "over" THEN "over" ELSE "ready"
    BY <2>3, WellLeft DEF Leaves, history
  <2>6. \A t \in Sessions : Holds(t)'
    BY <1>1, <2>1, <2>2, <2>3, <2>4, <2>5
       DEF Typed, TypeOK, Held, Holds, Open, WhereKept, After, Following
  <2>7. OneHolder'
    BY <2>1 DEF Typed, TypeOK, Held, OneHolder
  <2> QED BY <2>6, <2>7 DEF Held
<1> QED BY <1>2, <1>3

LEMMA NextHeld == Typed /\ Held /\ [Next]_vars => Held'
<1> SUFFICES ASSUME Typed, Held, [Next]_vars PROVE Held'
  OBVIOUS
<1> USE DEF At, tables, pending, place, working, browsing, history
<1>1. ASSUME NEW s \in Sessions, DiscoveryStep(s) PROVE Held'
  <2> USE DEF Browsing, OnSite, Simulating, AddNothing, Add
  <2>1. CASE BrowseBegin(s) \/ SimulateBegin(s)
    BY <2>1, HeldEntered DEF BrowseBegin, SimulateBegin, Begins
  <2>2. CASE \/ \E d \in Sites : OpenSite(s, d)
             \/ Search(s)
             \/ \E l \in Links : PassBy(s, l) \/ Inspect(s, l) \/ StopListing(s, l)
             \/ LeaveSite(s)
             \/ \E l \in Links : SimulateSkip(s, l) \/ Simulate(s, l) \/ ProfileAdd(s, l)
    BY <2>2, HeldStays
       DEF OpenSite, Search, PassBy, Inspect, StopListing, LeaveSite, SimulateSkip, Simulate, ProfileAdd
  <2>3. CASE BrowseFinish(s) \/ SimulateFinish(s) \/ ProfileRecord(s)
    BY <2>3, HeldSucceeds DEF BrowseFinish, SimulateFinish, ProfileRecord, Completes
  <2>4. CASE BrowserFails(s) \/ ProfileRaises(s) \/ \E l \in Links : SimulateRaises(s, l)
    BY <2>4, HeldRaises DEF BrowserFails, ProfileRaises, SimulateRaises, Alive
  <2>5. CASE (\E d \in Sites : ProfileBegin(s, d)) \/ ProfileCutShort(s)
    BY <2>5, HeldEntered DEF ProfileBegin, ProfileCutShort
  <2>6. CASE ProfileCommit(s)
    BY <2>6, HeldEntered DEF ProfileCommit
  <2> QED BY <1>1, <2>1, <2>2, <2>3, <2>4, <2>5, <2>6 DEF DiscoveryStep
<1>2. ASSUME NEW s \in Sessions, DailyStep(s) PROVE Held'
  <2>1. CASE AdjustNothing(s) \/ Adjusted(s) \/ EnrichCommit(s) \/ MakeLineup(s) \/ Polish(s) \/ Compile(s) \/ ReportWrite(s)
    BY <2>1, HeldSucceeds DEF AdjustNothing, Adjusted, EnrichCommit, MakeLineup, Polish, Compile, ReportWrite
  <2>2. CASE AdjustRaises(s) \/ EnrichRefused(s) \/ EmptyShelf(s) \/ ReportRefused(s)
    BY <2>2, HeldRaises DEF AdjustRaises, EnrichRefused, EmptyShelf, ReportRefused, Alive
  <2>3. CASE AdjustWeight(s) \/ EnrichSelect(s) \/ ReportRead(s) \/ ApproveSelect(s)
    BY <2>3, HeldEntered DEF AdjustWeight, EnrichSelect, ReportRead, ApproveSelect
  <2> QED BY <1>2, <2>1, <2>2, <2>3, HeldTaken DEF DailyStep
<1>3. ASSUME NEW s \in Sessions, Start(s) PROVE Held'
  BY <1>3, HeldEntered DEF Start
<1>4. ASSUME NEW s \in Sessions, PassOver(s) PROVE Held'
  BY <1>4, HeldSucceeds DEF PassOver, NoLineup
<1>5. ASSUME NEW s \in Sessions, Collapse(s) PROVE Held'
  BY <1>5, HeldRaises DEF Collapse
<1>6. ASSUME NEW s \in Sessions, Breaks(s) \/ Dies(s) PROVE Held'
  <2>1. \A t \in Sessions \ {s} : WhereKept(t)
    BY <1>6 DEF Breaks, Dies, Typed, TypeOK, WhereKept
  <2> QED BY <1>6, <2>1, GivenBack, HeldKept DEF Breaks, Dies
<1>7. ASSUME NEW c \in Ids, NEW verdict \in {"approved_for_stream", "blocked"}, Decide(c, verdict)
      PROVE  Held'
  BY <1>7, HeldStays DEF Decide
<1>8. CASE UNCHANGED vars
  BY <1>8, HeldStays DEF vars
<1> QED BY <1>1, <1>2, <1>3, <1>4, <1>5, <1>6, <1>7, <1>8 DEF Next, Proceeds

LEMMA HeldHolds == Spec => []Held
<1>1. Init => Held
  BY DEF Init, Held, Holds, OneHolder
<1> QED BY <1>1, InitTyped, NextTyped, NextHeld, PTL DEF Spec

\* Whom a session waits for waits for nobody: however many orchestrations adjust
\* the same keywords and approve the same candidates, they never deadlock.
THEOREM NoChainOfWaits == Spec => []HoldersNeverWait
<1>1. Held => HoldersNeverWait
  BY DEF Held, Holds, HoldersNeverWait, WaitsFor, At
<1> QED BY <1>1, HeldHolds, PTL

\* No row is held twice, or by a session that has ended, failed or died: who
\* waits for rows waits for a session that goes on to a commit or a rollback.
RowsComeBack ==
    /\ OneHolder
    /\ \A s \in Sessions : tuned[s] \/ locked[s] # {} => pc[s] \notin {"over", "dead"} /\ ~broken[s]

\* Whatever fails, a session that is over, dead or broken holds no row.
THEOREM RowsAreGivenBack == Spec => []RowsComeBack
<1>1. Held => RowsComeBack
  BY DEF Held, Holds, Open, RowsComeBack
<1> QED BY <1>1, HeldHolds, PTL
=============================================================================
