----------------------------- MODULE LineupsProofs -----------------------------
(***************************************************************************)
(* Proofs about Lineups, for all requests, lineups, candidates and         *)
(* sources: every lineup keeps what Curator promises, links and rights     *)
(* survive all races, plans contain vetted candidates only, and no lineup  *)
(* runs out of candidates or goes on for ever.                             *)
(***************************************************************************)
EXTENDS Lineups, CuratorProofs

-----------------------------------------------------------------------------
(* The curator at work.                                                    *)

\* The rest of the system leaves a call of the curator alone.
LEMMA CuratorStep ==
  ASSUME [Next]_vars
  PROVE  [CuratorNext]_curatorVars
<1>1. CASE BeginLineup
  <2>1. approved \intersect Authorized \in SUBSET Candidates
    BY LineupsAssumption
  <2> QED BY <1>1, <2>1 DEF BeginLineup, CuratorNext
<1>2. CASE ComposeLineup
  BY <1>2 DEF ComposeLineup, CuratorNext
<1>3. ASSUME NEW l \in LineupIds, FinishLineup(l) PROVE CuratorNext
  BY <1>3 DEF FinishLineup, CuratorNext
<1>4. ASSUME NEW r \in Requests, NEW l \in LineupIds, EmitRequest(r, l) PROVE UNCHANGED curatorVars
  BY <1>4 DEF EmitRequest, Open
<1>5. ASSUME NEW r \in Requests, NEW c \in Candidates, PromoteRequest(r, c) PROVE UNCHANGED curatorVars
  BY <1>5 DEF PromoteRequest, Open
<1>6. ASSUME NEW r \in Requests, RequestStep(r) PROVE UNCHANGED curatorVars
  BY <1>6 DEF RequestStep, SkipBuffer, SkipCandidate, AlreadyPromoted, LookUp, Goto, Insert, Link, CommitPlan,
              NothingToEmit, Answer, DeadlockVictim, Rollback, Close
<1>7. ASSUME NEW r \in Requests, RequestCrash(r) PROVE UNCHANGED curatorVars
  BY <1>7 DEF RequestCrash, Rollback, Close
<1>8. ASSUME NEW c \in Candidates, Decide(c) PROVE UNCHANGED curatorVars
  BY <1>8 DEF Decide
<1>9. ASSUME NEW s \in Sources, Register(s) \/ \E rights \in Rights : Review(s, rights) PROVE UNCHANGED curatorVars
  BY <1>9 DEF Register, Review
<1>10. CASE UNCHANGED vars
  BY <1>10 DEF vars
<1> QED BY <1>1, <1>2, <1>3, <1>4, <1>5, <1>6, <1>7, <1>8, <1>9, <1>10 DEF Next

\* Lineups implements Curator: seen by itself, a lineup is composed as if nobody
\* decided, reviewed, emitted or promoted.
THEOREM LineupsComposeAsCurator == Spec => CuratorSpec
<1>1. Init => CuratorInit
  BY DEF Init
<1> QED BY <1>1, CuratorStep, PTL DEF Spec, CuratorSpec

\* Whatever else happens, a lineup is composed as Curator promises.
THEOREM CuratorAtWork == Spec => []Composed
<1>1. Init => Composed
  BY InitComposes DEF Init
<1>2. Composed /\ [Next]_vars => Composed'
  BY CuratorStep, StepComposes
<1> QED BY <1>1, <1>2, PTL DEF Spec

\* Every lineup fills its hours without a gap, and only a last item behind a
\* buffer may lack a length.
THEOREM LineupsFillTheDay == Spec => []FillsTarget
<1>1. Composed => FillsTarget
  BY DEF Composed, Filling
<1> QED BY <1>1, CuratorAtWork, PTL

\* No main item follows itself.
THEOREM NobodyFollowsHimself == Spec => []NoMonotony
<1>1. Composed => NoMonotony
  BY DEF Composed
<1> QED BY <1>1, CuratorAtWork, PTL

\* Cooldown and cap are kept, or the lineup says that they were not.
THEOREM OverflowIsReported == Spec => []RelaxingIsReported
<1>1. Composed => RelaxingIsReported
  BY DEF Composed
<1> QED BY <1>1, CuratorAtWork, PTL

\* Whatever candidates are decided and promoted meanwhile, a call that composes
\* a lineup has something to choose in every pass, and no more passes than its day
\* has seconds, but for a last one behind a buffer.
THEOREM LineupsComeToAnEnd == Spec => [](EndsInTime /\ SomeoneIsChosen)
  BY LineupsComposeAsCurator, LineupsGoOn, PTL

-----------------------------------------------------------------------------
(* The invariant of the requests.                                          *)

\* The row at hand is a main item of a vetted candidate, and whoever is about to
\* link it sees its asset.
AtHand(r) ==
    /\ pc[r] \in {"insert", "link"} =>
        /\ queue[r] # <<>>
        /\ Head(queue[r]).type = "main"
        /\ Current(r) \in vetted \intersect Authorized
    /\ pc[r] = "link" => InLibrary(r, Source(r))

Linked(r) ==
    /\ \A c \in tied[r] : InLibrary(r, SourceOf[c])
    /\ \A s \in own[r] : asset[s] = Null /\ \A q \in Requests \ {r} : s \notin own[q]

Sound ==
    /\ TypeOK
    /\ approved \subseteq vetted
    /\ \A c \in linked : asset[SourceOf[c]] # Null
    /\ \A r \in Requests : AtHand(r) /\ Linked(r)

\* The rows of a queue and what they stand for have their types.
LEMMA RowFacts ==
  ASSUME TypeOK, NEW r \in Requests, queue[r] # <<>>
  PROVE  /\ Head(queue[r]) \in SlotRows
         /\ Tail(queue[r]) \in Seq(SlotRows)
         /\ Current(r) \in Candidates
         /\ Source(r) \in Sources
<1>1. queue[r] \in Seq(SlotRows)
  BY DEF TypeOK
<1>2. Head(queue[r]) \in SlotRows /\ Tail(queue[r]) \in Seq(SlotRows)
  BY <1>1
<1> QED BY <1>2, LineupsAssumption DEF SlotRows, Current, Source

\* Events are counted.
LEMMA EventFacts ==
  ASSUME TypeOK, NEW e \in {"lineup", "request", "outside"}, Happens(e)
  PROVE  used' \in [External -> Nat]
<1>1. e \in External /\ used \in [External -> Nat] /\ used' = [used EXCEPT ![e] = @ + 1]
  BY DEF TypeOK, Happens, External
<1>2. used[e] + 1 \in Nat
  BY <1>1
<1> QED BY <1>1, <1>2

LEMMA InitSound == Init => Sound
<1> SUFFICES ASSUME Init PROVE Sound
  OBVIOUS
<1>1. CuratorTypeOK
  BY InitComposes DEF Init, Composed, Filling
<1>2. TypeOK
  BY <1>1, LineupsAssumption DEF Init, TypeOK
<1> QED BY <1>2 DEF Init, Sound, AtHand, Linked

\* Steps of the curator change no row of a request.
LEMMA CuratorSound ==
  ASSUME Sound, CuratorTypeOK', BeginLineup \/ ComposeLineup \/ \E l \in LineupIds : FinishLineup(l)
  PROVE  Sound'
<1>1. UNCHANGED <<approved, dbVars, requestVars, vetted>>
  BY DEF BeginLineup, ComposeLineup, FinishLineup
<1>2. lineup' \in [LineupIds -> Seq(SlotRows)]
  BY DEF Sound, TypeOK, CuratorTypeOK, BeginLineup, ComposeLineup, FinishLineup
<1>3. used' \in [External -> Nat]
  BY DEF Sound, TypeOK, BeginLineup, ComposeLineup, FinishLineup, Happens
<1>4. TypeOK'
  BY <1>1, <1>2, <1>3 DEF Sound, TypeOK, dbVars, requestVars
<1>5. \A r \in Requests : AtHand(r)' /\ Linked(r)'
  BY <1>1 DEF Sound, AtHand, Linked, InLibrary, Source, Current, dbVars, requestVars
<1> QED BY <1>1, <1>4, <1>5 DEF Sound, dbVars

\* Neither does the operator, and no asset goes away.
LEMMA OperatorSound ==
  ASSUME Sound, CuratorTypeOK',
         \/ \E c \in Candidates : Decide(c)
         \/ \E s \in Sources : Register(s) \/ \E rights \in Rights : Review(s, rights)
  PROVE  Sound'
<1>1. used' \in [External -> Nat] /\ UNCHANGED <<lineup, linked, plans, planOf, requestVars>>
  BY DEF Sound, TypeOK, Decide, Register, Review, Happens, dbVars
<1>2. /\ approved' \in SUBSET Candidates /\ vetted' \in SUBSET Candidates
      /\ approved' \subseteq vetted' /\ vetted \subseteq vetted'
  BY DEF Sound, TypeOK, Decide, Register, Review
<1>3. asset' \in [Sources -> Rights \union {Null}]
  BY DEF Sound, TypeOK, Decide, Register, Review, Rights, dbVars
<1>4. /\ \A s \in Sources : asset[s] # Null => asset'[s] # Null
      /\ \A s \in Sources : asset'[s] # asset[s] => asset[s] # Null \/ \A q \in Requests : s \notin own[q]
  BY <1>3, LineupsAssumption DEF Sound, TypeOK, Decide, Register, Review, Rights, dbVars
<1>5. TypeOK'
  BY <1>1, <1>2, <1>3 DEF Sound, TypeOK, requestVars
<1>6. ASSUME NEW r \in Requests PROVE AtHand(r)' /\ Linked(r)'
  <2>1. /\ UNCHANGED <<pc, job, queue, taken, own, tied>>
        /\ own \in [Requests -> SUBSET Sources] /\ tied \in [Requests -> SUBSET Candidates]
        /\ AtHand(r) /\ Linked(r)
    BY <1>1 DEF requestVars, Sound, TypeOK
  <2>2. queue[r] # <<>> => Source(r) \in Sources
    BY RowFacts DEF Sound
  <2>3. AtHand(r)'
    BY <1>2, <1>4, <2>1, <2>2 DEF AtHand, InLibrary, Source, Current
  <2>4. \A c \in tied[r] : SourceOf[c] \in Sources
    BY <2>1, LineupsAssumption
  <2>5. Linked(r)'
    BY <1>4, <2>1, <2>4 DEF Linked, InLibrary
  <2> QED BY <2>3, <2>5
<1>7. \A c \in linked : asset'[SourceOf[c]] # Null
  BY <1>4, LineupsAssumption DEF Sound, TypeOK
<1> QED BY <1>1, <1>2, <1>5, <1>6, <1>7 DEF Sound

\* A request begins with nothing of its own.
LEMMA OpenSound ==
  ASSUME Sound, CuratorTypeOK', NEW r \in Requests, NEW what \in LineupIds \union Candidates,
         NEW rows \in Seq(SlotRows), Open(r, what, rows)
  PROVE  Sound'
<1>1. /\ pc' = [pc EXCEPT ![r] = "promote"]
      /\ job' = [job EXCEPT ![r] = what]
      /\ queue' = [queue EXCEPT ![r] = rows]
      /\ UNCHANGED <<approved, lineup, asset, linked, plans, planOf, taken, own, tied, vetted>>
      /\ used' \in [External -> Nat]
  BY EventFacts DEF Open, dbVars, Sound
<1>2. TypeOK'
  BY <1>1 DEF Sound, TypeOK
<1>3. \A q \in Requests : AtHand(q)' /\ Linked(q)'
  BY <1>1 DEF Sound, TypeOK, AtHand, Linked, InLibrary, Source, Current
<1> QED BY <1>1, <1>2, <1>3 DEF Sound

\* A request goes on to its next row.
LEMMA AdvanceSound ==
  ASSUME Sound, CuratorTypeOK', NEW r \in Requests, SkipBuffer(r) \/ SkipCandidate(r) \/ AlreadyPromoted(r)
  PROVE  Sound'
<1>1. /\ pc[r] = "promote" /\ queue[r] # <<>>
      /\ queue' = [queue EXCEPT ![r] = Tail(@)]
      /\ UNCHANGED <<approved, lineup, asset, linked, plans, planOf, pc, job, own, tied, vetted, used>>
      /\ taken' = taken \/ taken' = [taken EXCEPT ![r] = Append(@, Source(r))]
  BY DEF SkipBuffer, SkipCandidate, AlreadyPromoted, Promoting, Take, dbVars
<1>2. queue' \in [Requests -> Seq(SlotRows)] /\ taken' \in [Requests -> Seq(Sources)]
  <2>1. Tail(queue[r]) \in Seq(SlotRows) /\ Source(r) \in Sources
    BY <1>1, RowFacts DEF Sound
  <2>2. queue \in [Requests -> Seq(SlotRows)] /\ taken \in [Requests -> Seq(Sources)]
    BY DEF Sound, TypeOK
  <2>3. Append(taken[r], Source(r)) \in Seq(Sources)
    BY <2>1, <2>2
  <2> QED BY <1>1, <2>1, <2>2, <2>3
<1>3. TypeOK'
  BY <1>1, <1>2 DEF Sound, TypeOK
<1>4. \A q \in Requests : AtHand(q)' /\ Linked(q)'
  BY <1>1 DEF Sound, TypeOK, AtHand, Linked, InLibrary, Source, Current
<1> QED BY <1>1, <1>3, <1>4 DEF Sound

\* Looking up finds a vetted candidate and, if the asset exists, its asset.
LEMMA LookUpSound ==
  ASSUME Sound, CuratorTypeOK', NEW r \in Requests, LookUp(r)
  PROVE  Sound'
<1> DEFINE label == IF InLibrary(r, Source(r)) THEN "link" ELSE "insert"
<1>1. /\ Promoting(r) /\ MayPromote(Current(r))
      /\ pc' = [pc EXCEPT ![r] = label]
      /\ UNCHANGED <<approved, lineup, asset, linked, plans, planOf, job, queue, taken, own, tied, vetted, used>>
  BY DEF LookUp, Goto, dbVars
<1>2. TypeOK'
  BY <1>1 DEF Sound, TypeOK
<1>3. Current(r) \in vetted \intersect Authorized
  BY <1>1 DEF Sound, MayPromote
<1>4. label = "link" => InLibrary(r, Source(r))
  OBVIOUS
<1> HIDE DEF label
<1>5. AtHand(r)'
  BY <1>1, <1>3, <1>4 DEF AtHand, Promoting, Current, Source, InLibrary, Sound, TypeOK
<1>6. \A q \in Requests \ {r} : AtHand(q)'
  BY <1>1 DEF AtHand, Current, Source, InLibrary, Sound, TypeOK
<1>7. \A q \in Requests : Linked(q)'
  BY <1>1 DEF Linked, InLibrary, Sound
<1> QED BY <1>1, <1>2, <1>5, <1>6, <1>7 DEF Sound

\* An insertion waits for whoever inserts the same source, so that a source
\* never has two owners.
LEMMA InsertSound ==
  ASSUME Sound, CuratorTypeOK', NEW r \in Requests, Insert(r)
  PROVE  Sound'
<1>1. /\ pc[r] = "insert"
      /\ \A q \in Requests \ {r} : Source(r) \notin own[q]
      /\ own' = [own EXCEPT ![r] = IF asset[Source(r)] = Null THEN @ \union {Source(r)} ELSE @]
      /\ pc' = [pc EXCEPT ![r] = "link"]
      /\ UNCHANGED <<approved, lineup, asset, linked, plans, planOf, job, queue, taken, tied, vetted, used>>
  BY DEF Insert, dbVars
<1>2. AtHand(r) /\ queue[r] # <<>> /\ Source(r) \in Sources /\ own[r] \in SUBSET Sources
  BY <1>1, RowFacts DEF Sound, AtHand, TypeOK
<1>3. own' \in [Requests -> SUBSET Sources]
  BY <1>1, <1>2 DEF Sound, TypeOK
<1>4. TypeOK'
  BY <1>1, <1>3 DEF Sound, TypeOK
<1>5. /\ own[r] \subseteq own'[r] /\ \A q \in Requests \ {r} : own'[q] = own[q]
      /\ asset[Source(r)] # Null \/ Source(r) \in own'[r]
      /\ \A s \in own'[r] : s \in own[r] \/ (s = Source(r) /\ asset[s] = Null)
  BY <1>1 DEF Sound, TypeOK
<1>6. \A q \in Requests : AtHand(q)'
  BY <1>1, <1>2, <1>5 DEF AtHand, Current, Source, InLibrary, Sound, TypeOK
<1>7. \A q \in Requests : Linked(q)'
  BY <1>1, <1>5 DEF Linked, InLibrary, Sound
<1> QED BY <1>1, <1>4, <1>6, <1>7 DEF Sound

\* What is linked is in the library for the request.
LEMMA LinkSound ==
  ASSUME Sound, CuratorTypeOK', NEW r \in Requests, Link(r)
  PROVE  Sound'
<1>1. /\ pc[r] = "link"
      /\ tied' = [tied EXCEPT ![r] = @ \union {Current(r)}]
      /\ queue' = [queue EXCEPT ![r] = Tail(@)]
      /\ taken' = [taken EXCEPT ![r] = Append(@, Source(r))]
      /\ pc' = [pc EXCEPT ![r] = "promote"]
      /\ UNCHANGED <<approved, lineup, asset, linked, plans, planOf, job, own, vetted, used>>
  BY DEF Link, Take, dbVars
<1>2. AtHand(r) /\ queue[r] # <<>> /\ InLibrary(r, Source(r))
  BY <1>1 DEF Sound, AtHand
<1>3. queue' \in [Requests -> Seq(SlotRows)] /\ taken' \in [Requests -> Seq(Sources)] /\ tied' \in [Requests -> SUBSET Candidates]
  BY <1>1, <1>2, RowFacts DEF Sound, TypeOK
<1>4. TypeOK'
  BY <1>1, <1>3 DEF Sound, TypeOK
<1>5. \A q \in Requests : AtHand(q)'
  BY <1>1 DEF AtHand, Current, Source, InLibrary, Sound, TypeOK
<1>6. \A q \in Requests \ {r} : tied'[q] = tied[q]
  BY <1>1 DEF Sound, TypeOK
<1>7. \A c \in tied'[r] : c \in tied[r] \/ SourceOf[c] = Source(r)
  BY <1>1 DEF Sound, TypeOK, Source
<1>8. \A q \in Requests : Linked(q)'
  BY <1>1, <1>2, <1>6, <1>7 DEF Linked, InLibrary, Sound
<1> QED BY <1>1, <1>4, <1>5, <1>8 DEF Sound

\* A rollback gives back what the request had.
LEMMA RollbackSound ==
  ASSUME Sound, CuratorTypeOK', NEW r \in Requests, Rollback(r), used' \in [External -> Nat]
  PROVE  Sound'
<1>1. /\ pc' = [pc EXCEPT ![r] = "idle"]
      /\ job' = [job EXCEPT ![r] = Null]
      /\ queue' = [queue EXCEPT ![r] = <<>>]
      /\ taken' = [taken EXCEPT ![r] = <<>>]
      /\ own' = [own EXCEPT ![r] = {}]
      /\ tied' = [tied EXCEPT ![r] = {}]
      /\ UNCHANGED <<approved, lineup, vetted, asset, linked, plans, planOf>>
  BY DEF Rollback, Close, dbVars
<1>2. TypeOK'
  BY <1>1 DEF Sound, TypeOK
<1>3. pc'[r] = "idle" /\ own'[r] = {} /\ tied'[r] = {}
  BY <1>1 DEF Sound, TypeOK
<1>4. \A q \in Requests \ {r} : /\ pc'[q] = pc[q] /\ queue'[q] = queue[q]
                               /\ own'[q] = own[q] /\ tied'[q] = tied[q]
  BY <1>1 DEF Sound, TypeOK
<1>5. \A q \in Requests : AtHand(q)' /\ Linked(q)'
  BY <1>1, <1>3, <1>4 DEF AtHand, Linked, Current, Source, InLibrary, Sound
<1> QED BY <1>1, <1>2, <1>5 DEF Sound

\* A commit makes the request's own assets everybody's; nobody else has inserted
\* them.
LEMMA CommitSound ==
  ASSUME Sound, CuratorTypeOK', NEW r \in Requests, CommitPlan(r)
  PROVE  Sound'
<1>1. /\ pc' = [pc EXCEPT ![r] = "idle"]
      /\ job' = [job EXCEPT ![r] = Null]
      /\ queue' = [queue EXCEPT ![r] = <<>>]
      /\ taken' = [taken EXCEPT ![r] = <<>>]
      /\ own' = [own EXCEPT ![r] = {}]
      /\ tied' = [tied EXCEPT ![r] = {}]
      /\ UNCHANGED <<approved, lineup, vetted, used>>
      /\ job[r] \in LineupIds
      /\ asset' = [s \in Sources |-> IF s \in own[r] THEN "approved_for_stream" ELSE asset[s]]
      /\ linked' = linked \union tied[r]
      /\ plans' = Append(plans, [lineup |-> job[r], items |-> taken[r]])
      /\ planOf' = [planOf EXCEPT ![job[r]] = Len(plans')]
  BY DEF CommitPlan, Close
<1>2. plans' \in Seq([lineup : LineupIds, items : Seq(Sources)]) /\ planOf' \in [LineupIds -> Nat]
  <2>1. [lineup |-> job[r], items |-> taken[r]] \in [lineup : LineupIds, items : Seq(Sources)]
    BY <1>1 DEF Sound, TypeOK
  <2>2. plans' \in Seq([lineup : LineupIds, items : Seq(Sources)])
    BY <1>1, <2>1 DEF Sound, TypeOK
  <2> QED BY <1>1, <2>2 DEF Sound, TypeOK
<1>3. asset' \in [Sources -> Rights \union {Null}] /\ linked' \in SUBSET Candidates
  BY <1>1 DEF Sound, TypeOK, Rights
<1>4. TypeOK'
  BY <1>1, <1>2, <1>3 DEF Sound, TypeOK
<1>5. pc'[r] = "idle" /\ own'[r] = {} /\ tied'[r] = {}
  BY <1>1 DEF Sound, TypeOK
<1>6. \A q \in Requests \ {r} : /\ pc'[q] = pc[q] /\ queue'[q] = queue[q]
                               /\ own'[q] = own[q] /\ tied'[q] = tied[q]
  BY <1>1 DEF Sound, TypeOK
<1>7. \A s \in Sources : /\ asset[s] # Null \/ s \in own[r] => asset'[s] # Null
                         /\ s \notin own[r] => asset'[s] = asset[s]
  BY <1>1, LineupsAssumption DEF Rights
<1>8. ASSUME NEW q \in Requests \ {r} PROVE AtHand(q)' /\ Linked(q)'
  <2>1. /\ own[q] \in SUBSET Sources /\ tied[q] \in SUBSET Candidates
        /\ AtHand(q) /\ Linked(q)
    BY DEF Sound, TypeOK
  <2>2. queue[q] # <<>> => Source(q) \in Sources
    BY RowFacts DEF Sound
  <2>3. AtHand(q)'
    BY <1>1, <1>6, <1>7, <2>1, <2>2 DEF AtHand, InLibrary, Source, Current
  <2>4. \A c \in tied[q] : SourceOf[c] \in Sources
    BY <2>1, LineupsAssumption
  <2>5. \A s \in own[q] : s \notin own[r]
    BY <2>1 DEF Linked
  <2>6. \A p \in Requests : own'[p] \subseteq own[p]
    BY <1>5, <1>6
  <2>7. Linked(q)'
    BY <1>6, <1>7, <2>1, <2>4, <2>5, <2>6 DEF Linked, InLibrary
  <2> QED BY <2>3, <2>7
<1>9. AtHand(r)' /\ Linked(r)'
  BY <1>5 DEF AtHand, Linked
<1>10. \A c \in linked' : asset'[SourceOf[c]] # Null
  <2>1. \A c \in Candidates : SourceOf[c] \in Sources
    BY LineupsAssumption
  <2>2. \A c \in linked : asset'[SourceOf[c]] # Null
    BY <1>7, <2>1 DEF Sound, TypeOK
  <2>3. \A c \in tied[r] : asset'[SourceOf[c]] # Null
    BY <1>7, <2>1 DEF Sound, TypeOK, Linked, InLibrary
  <2> QED BY <1>1, <2>2, <2>3
<1> QED BY <1>1, <1>4, <1>8, <1>9, <1>10 DEF Sound

\* Every step keeps the invariant.
LEMMA StepSound ==
  ASSUME Sound, CuratorTypeOK', [Next]_vars
  PROVE  Sound'
<1>1. CASE BeginLineup \/ ComposeLineup \/ \E l \in LineupIds : FinishLineup(l)
  BY <1>1, CuratorSound
<1>2. CASE \/ \E c \in Candidates : Decide(c)
           \/ \E s \in Sources : Register(s) \/ \E rights \in Rights : Review(s, rights)
  BY <1>2, OperatorSound
<1>3. ASSUME NEW r \in Requests, NEW l \in LineupIds, EmitRequest(r, l) PROVE Sound'
  BY <1>3, OpenSound DEF EmitRequest, Sound, TypeOK
<1>4. ASSUME NEW r \in Requests, NEW c \in Candidates, PromoteRequest(r, c) PROVE Sound'
  <2>1. <<[asset |-> c, type |-> "main", start |-> 0, finish |-> 0]>> \in Seq(SlotRows)
    BY DEF SlotRows
  <2> QED BY <1>4, <2>1, OpenSound DEF PromoteRequest
<1>5. ASSUME NEW r \in Requests, RequestStep(r) PROVE Sound'
  <2>1. used' = used => used' \in [External -> Nat]
    BY DEF Sound, TypeOK
  <2>2. CASE NothingToEmit(r) \/ Answer(r) \/ DeadlockVictim(r)
    BY <2>1, <2>2, RollbackSound DEF NothingToEmit, Answer, DeadlockVictim
  <2>3. CASE SkipBuffer(r) \/ SkipCandidate(r) \/ AlreadyPromoted(r)
    BY <2>3, AdvanceSound
  <2> QED BY <1>5, <2>2, <2>3, LookUpSound, InsertSound, LinkSound, CommitSound DEF RequestStep
<1>6. ASSUME NEW r \in Requests, RequestCrash(r) PROVE Sound'
  <2>1. used' \in [External -> Nat]
    BY <1>6, EventFacts DEF RequestCrash, Sound
  <2> QED BY <1>6, <2>1, RollbackSound DEF RequestCrash
<1>7. CASE UNCHANGED vars
  BY <1>7 DEF vars, dbVars, requestVars, Sound, TypeOK, AtHand, Linked, InLibrary, Source, Current
<1> QED BY <1>1, <1>2, <1>3, <1>4, <1>5, <1>6, <1>7 DEF Next

LEMMA SoundHolds == Spec => [](Sound /\ Composed)
<1>1. Init => Sound
  BY InitSound
<1>2. Sound /\ Composed' /\ [Next]_vars => Sound'
  BY StepSound DEF Composed, Filling
<1> QED BY <1>1, <1>2, CuratorAtWork, PTL DEF Spec

\* Every variable keeps its type.
THEOREM Typing == Spec => []TypeOK
<1>1. Sound => TypeOK
  BY DEF Sound
<1> QED BY <1>1, SoundHolds, PTL

\* What is linked exists, and a source has one owner.
THEOREM LinksAlwaysHold == Spec => []LinksHold
<1>1. Sound => LinksHold
  BY DEF Sound, Linked, LinksHold
<1> QED BY <1>1, SoundHolds, PTL

-----------------------------------------------------------------------------
(* The operator's decisions.                                               *)

LEMMA StepKeepsRights ==
  ASSUME Sound, [Next]_vars, NEW s \in Sources, asset[s] # Null, asset'[s] # asset[s]
  PROVE  \E rights \in Rights : Review(s, rights)
<1>1. ASSUME NEW r \in Requests, CommitPlan(r) PROVE FALSE
  BY <1>1 DEF CommitPlan, Sound, Linked
<1>2. ASSUME NEW t \in Sources, Register(t) PROVE FALSE
  BY <1>2 DEF Register, Sound, TypeOK
<1>3. ASSUME NEW t \in Sources, NEW rights \in Rights, Review(t, rights) PROVE t = s
  BY <1>3 DEF Review, Sound, TypeOK
<1>4. ASSUME asset' = asset PROVE FALSE
  BY <1>4
<1>5. ASSUME NEW r \in Requests, RequestStep(r) \/ RequestCrash(r) PROVE FALSE
  BY <1>1, <1>4, <1>5 DEF RequestStep, RequestCrash, SkipBuffer, SkipCandidate, AlreadyPromoted, LookUp, Goto, Insert,
     Link, NothingToEmit, Answer, DeadlockVictim, Rollback, dbVars
<1>6. CASE \/ BeginLineup \/ ComposeLineup \/ \E l \in LineupIds : FinishLineup(l)
           \/ \E r \in Requests : (\E l \in LineupIds : EmitRequest(r, l)) \/ \E c \in Candidates : PromoteRequest(r, c)
           \/ \E c \in Candidates : Decide(c)
           \/ UNCHANGED vars
  BY <1>4, <1>6 DEF BeginLineup, ComposeLineup, FinishLineup, EmitRequest, PromoteRequest, Open, Decide, vars, dbVars
<1> QED BY <1>2, <1>3, <1>5, <1>6 DEF Next

\* Promotion never overrules a review, whatever races with it.
THEOREM ReviewsAreKept == Spec => RightsAreKept
<1>1. Sound /\ [Next]_vars => [\A s \in Sources : asset[s] # Null /\ asset'[s] # asset[s] =>
           \E rights \in Rights : Review(s, rights)]_vars
  BY StepKeepsRights
<1> QED BY <1>1, SoundHolds, PTL DEF Spec, RightsAreKept

-----------------------------------------------------------------------------
(* What is emitted.                                                        *)

\* The items are those of vetted main items among the first n rows, in order.
Chosen(rows, items, n, vet) ==
    \E from \in [1 .. Len(items) -> 1 .. n] :
        /\ \A j, k \in 1 .. Len(items) : j < k => from[j] < from[k]
        /\ \A k \in 1 .. Len(items) :
            /\ rows[from[k]].type = "main"
            /\ rows[from[k]].asset \in vet \intersect Authorized
            /\ items[k] = SourceOf[rows[from[k]].asset]

\* A row that is passed over is none of them.
LEMMA ChosenPasses ==
  ASSUME NEW rows, NEW items \in Seq(Sources), NEW n \in Nat, NEW vet, Chosen(rows, items, n, vet)
  PROVE  Chosen(rows, items, n + 1, vet)
<1>1. \A k \in 1 .. n : k \in 1 .. n + 1
  OBVIOUS
<1> QED BY <1>1 DEF Chosen

\* A row that is taken is the last of them.
LEMMA ChosenTakes ==
  ASSUME NEW rows, NEW items \in Seq(Sources), NEW n \in Nat, NEW vet, Chosen(rows, items, n, vet),
         rows[n + 1].type = "main", rows[n + 1].asset \in vet \intersect Authorized,
         SourceOf[rows[n + 1].asset] \in Sources
  PROVE  Chosen(rows, Append(items, SourceOf[rows[n + 1].asset]), n + 1, vet)
<1> DEFINE m == Len(items)
           more == Append(items, SourceOf[rows[n + 1].asset])
<1>1. PICK from \in [1 .. m -> 1 .. n] :
        /\ \A j, k \in 1 .. m : j < k => from[j] < from[k]
        /\ \A k \in 1 .. m : /\ rows[from[k]].type = "main"
                             /\ rows[from[k]].asset \in vet \intersect Authorized
                             /\ items[k] = SourceOf[rows[from[k]].asset]
  BY DEF Chosen
<1> DEFINE further == [k \in 1 .. m + 1 |-> IF k = m + 1 THEN n + 1 ELSE from[k]]
<1>2. /\ m \in Nat /\ Len(more) = m + 1
      /\ \A k \in 1 .. m : more[k] = items[k]
      /\ more[m + 1] = SourceOf[rows[n + 1].asset]
  OBVIOUS
<1> HIDE DEF m, more
<1>3. \A k \in 1 .. m + 1 : k = m + 1 \/ (k \in 1 .. m /\ k # m + 1)
  BY <1>2
<1>4. \A k \in 1 .. m : further[k] = from[k] /\ from[k] \in 1 .. n
  BY <1>2, <1>3
<1>5. further[m + 1] = n + 1
  BY <1>2
<1> HIDE DEF further
<1>6. further \in [1 .. m + 1 -> 1 .. n + 1]
  <2>1. \A k \in 1 .. m + 1 : further[k] \in 1 .. n + 1
    BY <1>3, <1>4, <1>5
  <2> QED BY <2>1 DEF further
<1>7. ASSUME NEW j \in 1 .. m + 1, NEW k \in 1 .. m + 1, j < k PROVE further[j] < further[k]
  <2>1. j \in 1 .. m
    BY <1>2, <1>7
  <2>2. CASE k = m + 1
    BY <1>4, <1>5, <2>1, <2>2
  <2>3. CASE k \in 1 .. m
    BY <1>1, <1>4, <1>7, <2>1, <2>3
  <2> QED BY <1>3, <2>2, <2>3
<1>8. ASSUME NEW k \in 1 .. m + 1
      PROVE  /\ rows[further[k]].type = "main"
             /\ rows[further[k]].asset \in vet \intersect Authorized
             /\ more[k] = SourceOf[rows[further[k]].asset]
  <2>1. CASE k = m + 1
    BY <1>2, <1>5, <2>1
  <2>2. CASE k \in 1 .. m
    BY <1>1, <1>2, <1>4, <2>2
  <2> QED BY <1>3, <2>1, <2>2
<1> QED BY <1>2, <1>6, <1>7, <1>8 DEF Chosen, more

\* What is vetted stays vetted.
LEMMA ChosenStays ==
  ASSUME NEW rows, NEW items, NEW n, NEW vet, NEW more, vet \subseteq more, Chosen(rows, items, n, vet)
  PROVE  Chosen(rows, items, n, more)
BY DEF Chosen

\* The rows still to do are the rest of the lineup, and what has been taken was
\* chosen from those before them.
Rest(rows, rest, n) ==
    /\ Len(rest) = Len(rows) - n
    /\ \A k \in 1 .. Len(rest) : rest[k] = rows[n + k]

Follows(rows, rest, items, vet) ==
    /\ rows # <<>>
    /\ \E n \in 0 .. Len(rows) : Rest(rows, rest, n) /\ Chosen(rows, items, n, vet)

Underway(r) ==
    /\ pc[r] = "idle" => taken[r] = <<>>
    /\ job[r] \in LineupIds => Follows(lineup[job[r]], queue[r], taken[r], vetted)
    /\ \A k \in 1 .. Len(taken[r]) : InLibrary(r, taken[r][k])

\* One row more is done.
LEMMA RestShrinks ==
  ASSUME NEW rows \in Seq(SlotRows), NEW rest \in Seq(SlotRows), rest # <<>>,
         NEW n \in 0 .. Len(rows), Rest(rows, rest, n)
  PROVE  /\ n + 1 \in 0 .. Len(rows)
         /\ Rest(rows, Tail(rest), n + 1)
         /\ Head(rest) = rows[n + 1]
<1>1. Len(rest) \in Nat \ {0} /\ Len(rows) \in Nat
  OBVIOUS
<1>2. n + 1 \in 0 .. Len(rows) /\ Len(rest) = Len(rows) - n
  BY <1>1 DEF Rest
<1>3. /\ Len(Tail(rest)) = Len(rest) - 1
      /\ Head(rest) = rest[1]
      /\ \A k \in 1 .. Len(rest) - 1 : Tail(rest)[k] = rest[k + 1]
  BY <1>1
<1>4. rest[1] = rows[n + 1]
  BY <1>1 DEF Rest
<1>5. ASSUME NEW k \in 1 .. Len(rest) - 1 PROVE rest[k + 1] = rows[n + 1 + k]
  <2>1. k + 1 \in 1 .. Len(rest) /\ n + (k + 1) = n + 1 + k
    BY <1>1
  <2> QED BY <2>1 DEF Rest
<1> QED BY <1>1, <1>2, <1>3, <1>4, <1>5 DEF Rest

LEMMA FollowsPasses ==
  ASSUME NEW rows \in Seq(SlotRows), NEW rest \in Seq(SlotRows), rest # <<>>,
         NEW items \in Seq(Sources), NEW vet, Follows(rows, rest, items, vet)
  PROVE  Follows(rows, Tail(rest), items, vet)
<1>1. PICK n \in 0 .. Len(rows) : Rest(rows, rest, n) /\ Chosen(rows, items, n, vet)
  BY DEF Follows
<1>2. n + 1 \in 0 .. Len(rows) /\ Rest(rows, Tail(rest), n + 1)
  BY <1>1, RestShrinks
<1>3. Chosen(rows, items, n + 1, vet)
  BY <1>1, ChosenPasses
<1> QED BY <1>2, <1>3 DEF Follows

LEMMA FollowsTakes ==
  ASSUME NEW rows \in Seq(SlotRows), NEW rest \in Seq(SlotRows), rest # <<>>,
         NEW items \in Seq(Sources), NEW vet, Follows(rows, rest, items, vet),
         Head(rest).type = "main", Head(rest).asset \in vet \intersect Authorized,
         SourceOf[Head(rest).asset] \in Sources
  PROVE  Follows(rows, Tail(rest), Append(items, SourceOf[Head(rest).asset]), vet)
<1>1. PICK n \in 0 .. Len(rows) : Rest(rows, rest, n) /\ Chosen(rows, items, n, vet)
  BY DEF Follows
<1>2. n + 1 \in 0 .. Len(rows) /\ Rest(rows, Tail(rest), n + 1) /\ Head(rest) = rows[n + 1]
  BY <1>1, RestShrinks
<1>3. Chosen(rows, Append(items, SourceOf[Head(rest).asset]), n + 1, vet)
  BY <1>1, <1>2, ChosenTakes
<1> QED BY <1>2, <1>3 DEF Follows

\* A request that begins has its whole lineup before it.
LEMMA FollowsBegins ==
  ASSUME NEW rows \in Seq(SlotRows), rows # <<>>, NEW vet
  PROVE  Follows(rows, rows, <<>>, vet)
<1>1. 0 \in 0 .. Len(rows) /\ Rest(rows, rows, 0)
  BY DEF Rest
<1>2. Chosen(rows, <<>>, 0, vet)
  <2>1. Len(<<>>) = 0 /\ 1 .. 0 = {}
    OBVIOUS
  <2>2. [k \in 1 .. 0 |-> k] \in [1 .. 0 -> 1 .. 0]
    OBVIOUS
  <2> QED BY <2>1, <2>2 DEF Chosen
<1> QED BY <1>1, <1>2 DEF Follows

Growing ==
    /\ vetted \subseteq vetted'
    /\ \A l \in LineupIds : lineup[l] # <<>> => lineup'[l] = lineup[l]
    /\ \A s \in Sources : asset[s] # Null => asset'[s] # Null

\* Nothing that has been vetted, made or registered goes away.
LEMMA StepGrows ==
  ASSUME Sound, [Next]_vars
  PROVE  Growing
<1>1. \A s \in Sources : asset[s] # Null /\ asset'[s] # asset[s] => asset'[s] # Null
  <2> SUFFICES ASSUME NEW s \in Sources, asset[s] # Null, asset'[s] # asset[s] PROVE asset'[s] # Null
    OBVIOUS
  <2>1. PICK rights \in Rights : Review(s, rights)
    BY StepKeepsRights
  <2>2. asset' = [asset EXCEPT ![s] = rights]
    BY <2>1 DEF Review
  <2> QED BY <2>1, <2>2, LineupsAssumption DEF Sound, TypeOK
<1>2. ASSUME NEW l \in LineupIds, FinishLineup(l)
      PROVE  vetted' = vetted /\ \A k \in LineupIds : lineup[k] # <<>> => lineup'[k] = lineup[k]
  BY <1>2 DEF FinishLineup, Sound, TypeOK
<1>3. CASE UNCHANGED <<vetted, lineup>>
  BY <1>1, <1>3 DEF Growing
<1>4. ASSUME NEW c \in Candidates, Decide(c) PROVE vetted \subseteq vetted' /\ lineup' = lineup
  BY <1>4 DEF Decide
<1>5. ASSUME NEW r \in Requests, RequestStep(r) \/ RequestCrash(r) PROVE UNCHANGED <<vetted, lineup>>
  BY <1>5 DEF RequestStep, RequestCrash, SkipBuffer, SkipCandidate, AlreadyPromoted, LookUp, Goto, Insert,
     Link, CommitPlan, NothingToEmit, Answer, DeadlockVictim, Rollback, Close
<1>6. CASE \/ BeginLineup \/ ComposeLineup
           \/ \E r \in Requests : (\E l \in LineupIds : EmitRequest(r, l)) \/ \E c \in Candidates : PromoteRequest(r, c)
           \/ \E s \in Sources : Register(s) \/ \E rights \in Rights : Review(s, rights)
           \/ UNCHANGED vars
  <2>1. UNCHANGED <<vetted, lineup>>
    BY <1>6 DEF BeginLineup, ComposeLineup, EmitRequest, PromoteRequest, Open, Register, Review, vars
  <2> QED BY <1>3, <2>1
<1> QED BY <1>1, <1>2, <1>3, <1>4, <1>5, <1>6 DEF Next, Growing

\* A request that does nothing meanwhile is as far as before.
LEMMA UnderwayStays ==
  ASSUME Sound, Growing, NEW r \in Requests, Underway(r),
         pc'[r] = pc[r], job'[r] = job[r], queue'[r] = queue[r], taken'[r] = taken[r], own[r] \subseteq own'[r]
  PROVE  Underway(r)'
<1>1. taken[r] \in Seq(Sources)
  BY DEF Sound, TypeOK
<1>2. \A k \in 1 .. Len(taken[r]) : InLibrary(r, taken[r][k])'
  <2> SUFFICES ASSUME NEW k \in 1 .. Len(taken[r]) PROVE InLibrary(r, taken[r][k])'
    OBVIOUS
  <2>1. taken[r][k] \in Sources /\ InLibrary(r, taken[r][k])
    BY <1>1 DEF Underway
  <2> QED BY <2>1 DEF Growing, InLibrary
<1>3. job[r] \in LineupIds => Follows(lineup'[job[r]], queue[r], taken[r], vetted')
  <2> SUFFICES ASSUME job[r] \in LineupIds PROVE Follows(lineup'[job[r]], queue[r], taken[r], vetted')
    OBVIOUS
  <2>1. Follows(lineup[job[r]], queue[r], taken[r], vetted) /\ lineup[job[r]] # <<>>
    BY DEF Underway, Follows
  <2>2. lineup'[job[r]] = lineup[job[r]]
    BY <2>1 DEF Growing
  <2> QED BY <2>1, <2>2, ChosenStays DEF Follows, Growing
<1> QED BY <1>2, <1>3 DEF Underway

\* Requests that begin, go on to their next row, take an asset, and end.
LEMMA OpenUnderway ==
  ASSUME Sound, Growing, NEW r \in Requests, Underway(r),
         \/ \E l \in LineupIds : EmitRequest(r, l)
         \/ \E c \in Candidates : PromoteRequest(r, c)
  PROVE  Underway(r)'
<1>1. taken'[r] = <<>> /\ pc'[r] = "promote"
  BY DEF EmitRequest, PromoteRequest, Open, Underway, Sound, TypeOK
<1>2. ASSUME NEW l \in LineupIds, EmitRequest(r, l)
      PROVE  Follows(lineup'[job'[r]], queue'[r], <<>>, vetted')
  <2>1. job'[r] = l /\ queue'[r] = lineup[l] /\ lineup[l] # <<>> /\ lineup' = lineup /\ lineup[l] \in Seq(SlotRows)
    BY <1>2 DEF EmitRequest, Open, Sound, TypeOK
  <2> QED BY <2>1, FollowsBegins
<1>3. ASSUME NEW c \in Candidates, PromoteRequest(r, c)
      PROVE  job'[r] \notin LineupIds
  BY <1>3, LineupsAssumption DEF PromoteRequest, Open, Sound, TypeOK
<1> QED BY <1>1, <1>2, <1>3 DEF Underway

LEMMA SkipUnderway ==
  ASSUME Sound, NEW r \in Requests, Underway(r), SkipBuffer(r) \/ SkipCandidate(r)
  PROVE  Underway(r)'
<1>1. /\ queue[r] # <<>> /\ queue'[r] = Tail(queue[r])
      /\ UNCHANGED <<pc, job, taken, own, asset, lineup, vetted>>
      /\ queue[r] \in Seq(SlotRows) /\ taken[r] \in Seq(Sources)
      /\ job[r] \in LineupIds => lineup[job[r]] \in Seq(SlotRows)
  BY DEF SkipBuffer, SkipCandidate, Promoting, dbVars, Sound, TypeOK
<1>2. job[r] \in LineupIds => Follows(lineup[job[r]], Tail(queue[r]), taken[r], vetted)
  BY <1>1, FollowsPasses DEF Underway
<1>3. \A k \in 1 .. Len(taken[r]) : InLibrary(r, taken[r][k])'
  BY <1>1 DEF Underway, InLibrary
<1> QED BY <1>1, <1>2, <1>3 DEF Underway

LEMMA TakeUnderway ==
  ASSUME Sound, NEW r \in Requests, Underway(r), AlreadyPromoted(r) \/ Link(r)
  PROVE  Underway(r)'
<1>1. /\ queue[r] # <<>> /\ Head(queue[r]).type = "main"
      /\ Current(r) \in vetted \intersect Authorized /\ InLibrary(r, Source(r))
  <2>1. CASE AlreadyPromoted(r)
    <3>1. Promoting(r) /\ MayPromote(Current(r)) /\ IsLinked(r, Current(r))
      BY <2>1 DEF AlreadyPromoted
    <3>2. InLibrary(r, Source(r))
      BY <3>1 DEF IsLinked, Sound, Linked, InLibrary, Source
    <3> QED BY <3>1, <3>2 DEF Promoting, MayPromote, Sound
  <2>2. CASE Link(r)
    BY <2>2 DEF Link, Sound, AtHand
  <2> QED BY <2>1, <2>2
<1>2. /\ queue'[r] = Tail(queue[r]) /\ taken'[r] = Append(taken[r], Source(r)) /\ pc'[r] = "promote"
      /\ UNCHANGED <<job, own, asset, lineup, vetted>>
      /\ queue[r] \in Seq(SlotRows) /\ taken[r] \in Seq(Sources)
      /\ job[r] \in LineupIds => lineup[job[r]] \in Seq(SlotRows)
  BY DEF AlreadyPromoted, Link, Take, Promoting, dbVars, Sound, TypeOK
<1>3. Source(r) \in Sources /\ Source(r) = SourceOf[Head(queue[r]).asset]
  BY <1>1, RowFacts DEF Sound, Source, Current
<1>4. job[r] \in LineupIds => Follows(lineup[job[r]], Tail(queue[r]), Append(taken[r], Source(r)), vetted)
  BY <1>1, <1>2, <1>3, FollowsTakes DEF Underway, Current
<1>5. \A k \in 1 .. Len(Append(taken[r], Source(r))) : InLibrary(r, Append(taken[r], Source(r))[k])
  BY <1>1, <1>2, <1>3 DEF Underway
<1>6. (\A k \in 1 .. Len(taken[r]) : InLibrary(r, taken[r][k]))'
  BY <1>2, <1>5 DEF InLibrary
<1> QED BY <1>2, <1>4, <1>6 DEF Underway

LEMMA CloseUnderway ==
  ASSUME Sound, NEW r \in Requests, Close(r)
  PROVE  Underway(r)'
<1>1. taken'[r] = <<>> /\ job'[r] = Null
  BY DEF Close, Sound, TypeOK
<1> QED BY <1>1, LineupsAssumption DEF Underway

\* The invariant of the emissions.
Emitting == EmittedIsVetted /\ \A r \in Requests : Underway(r)

LEMMA InitEmitting == Init => Emitting
  BY LineupsAssumption DEF Init, Emitting, EmittedIsVetted, Underway

\* A step of one request leaves the others where they are.
LEMMA OthersStay ==
  ASSUME Sound, Growing, NEW r \in Requests, NEW q \in Requests \ {r}, Underway(q),
         \/ \E l \in LineupIds : EmitRequest(r, l)
         \/ \E c \in Candidates : PromoteRequest(r, c)
         \/ RequestStep(r) \/ RequestCrash(r)
  PROVE  Underway(q)'
<1>1. /\ pc'[q] = pc[q] /\ job'[q] = job[q] /\ queue'[q] = queue[q] /\ taken'[q] = taken[q] /\ own'[q] = own[q]
  BY DEF EmitRequest, PromoteRequest, Open, RequestStep, RequestCrash, SkipBuffer, SkipCandidate, AlreadyPromoted, LookUp,
     Goto, Insert, Link, Take, CommitPlan, NothingToEmit, Answer, DeadlockVictim, Rollback, Close, Sound, TypeOK
<1> QED BY <1>1, UnderwayStays

LEMMA StepUnderway ==
  ASSUME Sound, Growing, [Next]_vars, NEW q \in Requests, \A r \in Requests : Underway(r)
  PROVE  Underway(q)'
<1>1. ASSUME NEW r \in Requests \ {q},
             \/ \E l \in LineupIds : EmitRequest(r, l)
             \/ \E c \in Candidates : PromoteRequest(r, c)
             \/ RequestStep(r) \/ RequestCrash(r)
      PROVE  Underway(q)'
  BY <1>1, OthersStay
<1>2. CASE (\E l \in LineupIds : EmitRequest(q, l)) \/ \E c \in Candidates : PromoteRequest(q, c)
  BY <1>2, OpenUnderway
<1>3. CASE LookUp(q) \/ Insert(q)
  <2>1. pc'[q] \in {"insert", "link"}
    BY <1>3 DEF LookUp, Goto, Insert, Sound, TypeOK
  <2>2. UNCHANGED <<job, queue, taken, lineup, vetted, asset>>
    BY <1>3 DEF LookUp, Goto, Insert, dbVars
  <2>3. own[q] \subseteq own'[q]
    BY <1>3 DEF LookUp, Goto, Insert, Sound, TypeOK
  <2> QED BY <2>1, <2>2, <2>3 DEF Underway, InLibrary
<1>4. CASE SkipBuffer(q) \/ SkipCandidate(q)
  BY <1>4, SkipUnderway
<1>5. CASE AlreadyPromoted(q) \/ Link(q)
  BY <1>5, TakeUnderway
<1>6. CASE CommitPlan(q) \/ NothingToEmit(q) \/ Answer(q) \/ DeadlockVictim(q) \/ RequestCrash(q)
  BY <1>6, CloseUnderway DEF CommitPlan, NothingToEmit, Answer, DeadlockVictim, RequestCrash, Rollback
<1>7. CASE \/ BeginLineup \/ ComposeLineup \/ \E l \in LineupIds : FinishLineup(l)
           \/ \E c \in Candidates : Decide(c)
           \/ \E s \in Sources : Register(s) \/ \E rights \in Rights : Review(s, rights)
           \/ UNCHANGED vars
  <2>1. UNCHANGED <<pc, job, queue, taken, own>>
    BY <1>7 DEF BeginLineup, ComposeLineup, FinishLineup, Decide, Register, Review, vars, requestVars
  <2> QED BY <2>1, UnderwayStays
<1> QED BY <1>1, <1>2, <1>3, <1>4, <1>5, <1>6, <1>7 DEF Next, RequestStep

\* What is required of one plan.
Fit(plan, assets, lineups, vet) ==
    /\ plan.items # <<>>
    /\ \A k \in 1 .. Len(plan.items) : assets[plan.items[k]] # Null
    /\ Chosen(lineups[plan.lineup], plan.items, Len(lineups[plan.lineup]), vet)

LEMMA ElementFact ==
  ASSUME NEW S, NEW s \in Seq(S), NEW p \in DOMAIN s
  PROVE  s[p] \in S
OBVIOUS

LEMMA FitFacts ==
  ASSUME NEW thePlans \in Seq([lineup : LineupIds, items : Seq(Sources)]), NEW lineups \in [LineupIds -> Seq(SlotRows)],
         NEW p \in DOMAIN thePlans
  PROVE  /\ thePlans[p].lineup \in LineupIds /\ thePlans[p].items \in Seq(Sources)
         /\ lineups[thePlans[p].lineup] \in Seq(SlotRows)
         /\ DOMAIN thePlans[p].items = 1 .. Len(thePlans[p].items)
         /\ DOMAIN lineups[thePlans[p].lineup] = 1 .. Len(lineups[thePlans[p].lineup])
<1>1. thePlans[p] \in [lineup : LineupIds, items : Seq(Sources)]
  BY ElementFact
<1>2. thePlans[p].lineup \in LineupIds /\ thePlans[p].items \in Seq(Sources)
  BY <1>1
<1>3. lineups[thePlans[p].lineup] \in Seq(SlotRows)
  BY <1>2
<1> QED BY <1>2, <1>3

\* A plan stays fit.
LEMMA FitStays ==
  ASSUME Sound, Growing, NEW p \in DOMAIN plans, Fit(plans[p], asset, lineup, vetted)
  PROVE  Fit(plans[p], asset', lineup', vetted')
<1> DEFINE plan == plans[p]
<1>1. plan.lineup \in LineupIds /\ plan.items \in Seq(Sources) /\ lineup[plan.lineup] \in Seq(SlotRows)
  BY FitFacts DEF Sound, TypeOK
<1>2. plan.items # <<>> /\ (\A k \in 1 .. Len(plan.items) : asset[plan.items[k]] # Null)
      /\ Chosen(lineup[plan.lineup], plan.items, Len(lineup[plan.lineup]), vetted)
  BY DEF Fit
<1> HIDE DEF plan
<1>3. lineup[plan.lineup] # <<>>
  <2>1. PICK from \in [1 .. Len(plan.items) -> 1 .. Len(lineup[plan.lineup])] : TRUE
    BY <1>2 DEF Chosen
  <2>2. 1 \in 1 .. Len(plan.items)
    BY <1>1, <1>2
  <2>3. from[1] \in 1 .. Len(lineup[plan.lineup])
    BY <2>1, <2>2
  <2> QED BY <1>1, <2>3
<1>4. lineup'[plan.lineup] = lineup[plan.lineup]
  BY <1>1, <1>3 DEF Growing
<1>5. \A k \in 1 .. Len(plan.items) : asset'[plan.items[k]] # Null
  BY <1>1, <1>2 DEF Growing
<1>6. Chosen(lineup[plan.lineup], plan.items, Len(lineup[plan.lineup]), vetted')
  BY <1>2, ChosenStays DEF Growing
<1>7. Fit(plan, asset', lineup', vetted')
  BY <1>2, <1>4, <1>5, <1>6 DEF Fit
<1> QED BY <1>7 DEF plan

\* A plan is made of what its request has taken; the others stay as they are.
LEMMA StepEmits ==
  ASSUME Sound, TypeOK', Growing, Emitting, [Next]_vars
  PROVE  EmittedIsVetted'
<1>1. plans \in Seq([lineup : LineupIds, items : Seq(Sources)]) /\ lineup \in [LineupIds -> Seq(SlotRows)]
  BY DEF Sound, TypeOK
<1>2. \A p \in DOMAIN plans : Fit(plans[p], asset, lineup, vetted)
  <2> SUFFICES ASSUME NEW p \in DOMAIN plans PROVE Fit(plans[p], asset, lineup, vetted)
    OBVIOUS
  <2>1. DOMAIN plans[p].items = 1 .. Len(plans[p].items) /\ DOMAIN lineup[plans[p].lineup] = 1 .. Len(lineup[plans[p].lineup])
    BY <1>1, FitFacts
  <2> DEFINE items == plans[p].items
             rows == lineup[plans[p].lineup]
  <2>2. items # <<>> /\ (\A k \in 1 .. Len(items) : asset[items[k]] # Null)
    BY <2>1 DEF Emitting, EmittedIsVetted
  <2>3. PICK from \in [DOMAIN items -> DOMAIN rows] :
            /\ \A j, k \in DOMAIN items : j < k => from[j] < from[k]
            /\ \A k \in DOMAIN items :
                /\ rows[from[k]].type = "main"
                /\ rows[from[k]].asset \in vetted \intersect Authorized
                /\ items[k] = SourceOf[rows[from[k]].asset]
    BY DEF Emitting, EmittedIsVetted
  <2>4. Chosen(rows, items, Len(rows), vetted)
    <3> HIDE DEF items, rows
    <3> SUFFICES ASSUME DOMAIN items = 1 .. Len(items), DOMAIN rows = 1 .. Len(rows)
                 PROVE  Chosen(rows, items, Len(rows), vetted)
      BY <2>1 DEF items, rows
    <3> QED BY <2>3 DEF Chosen
  <2> QED BY <2>2, <2>4 DEF Fit
<1>3. \A p \in DOMAIN plans : Fit(plans[p], asset', lineup', vetted')
  BY <1>2, FitStays
<1>4. \A p \in DOMAIN plans' : Fit(plans'[p], asset', lineup', vetted')
  <2>1. CASE plans' = plans
    BY <1>3, <2>1
  <2>2. ASSUME NEW r \in Requests, CommitPlan(r) PROVE \A p \in DOMAIN plans' : Fit(plans'[p], asset', lineup', vetted')
    <3> DEFINE plan == [lineup |-> job[r], items |-> taken[r]]
               rows == lineup[job[r]]
    <3>1. /\ queue[r] = <<>> /\ job[r] \in LineupIds /\ taken[r] # <<>>
          /\ asset' = [s \in Sources |-> IF s \in own[r] THEN "approved_for_stream" ELSE asset[s]]
          /\ plans' = Append(plans, plan) /\ lineup' = lineup /\ vetted' = vetted
          /\ taken[r] \in Seq(Sources) /\ rows \in Seq(SlotRows)
      BY <2>2 DEF CommitPlan, AllPromoted, Close, Sound, TypeOK
    <3>2. /\ plan \in [lineup : LineupIds, items : Seq(Sources)] /\ Len(plans) \in Nat
          /\ DOMAIN plans' = 1 .. Len(plans) + 1 /\ DOMAIN plans = 1 .. Len(plans)
          /\ plans'[Len(plans) + 1] = plan
          /\ \A p \in 1 .. Len(plans) : plans'[p] = plans[p]
      BY <1>1, <3>1
    <3>3. \A k \in 1 .. Len(taken[r]) : asset'[taken[r][k]] # Null
      <4> SUFFICES ASSUME NEW k \in 1 .. Len(taken[r]) PROVE asset'[taken[r][k]] # Null
        OBVIOUS
      <4>1. taken[r][k] \in Sources /\ InLibrary(r, taken[r][k])
        BY <3>1 DEF Emitting, Underway
      <4> QED BY <3>1, <4>1, LineupsAssumption DEF InLibrary, Rights
    <3>4. Chosen(rows, taken[r], Len(rows), vetted)
      <4>1. PICK n \in 0 .. Len(rows) : Chosen(rows, taken[r], n, vetted)
        BY <3>1 DEF Emitting, Underway, Follows
      <4>2. \A k \in 1 .. n : k \in 1 .. Len(rows)
        BY <3>1
      <4> QED BY <4>1, <4>2 DEF Chosen
    <3>5. Fit(plan, asset', lineup', vetted')
      BY <3>1, <3>3, <3>4 DEF Fit
    <3> HIDE DEF plan
    <3>6. \A p \in 1 .. Len(plans) + 1 : p = Len(plans) + 1 \/ p \in 1 .. Len(plans)
      BY <3>2
    <3> QED BY <1>3, <3>2, <3>5, <3>6
  <2>3. plans' = plans \/ \E r \in Requests : CommitPlan(r)
    BY DEF Next, BeginLineup, ComposeLineup, FinishLineup, EmitRequest, PromoteRequest, Open, RequestStep, RequestCrash,
       SkipBuffer, SkipCandidate, AlreadyPromoted, LookUp, Goto, Insert, Link, NothingToEmit, Answer, DeadlockVictim,
       Rollback, Decide, Register, Review, vars, dbVars
  <2> QED BY <2>1, <2>2, <2>3
<1>5. EmittedIsVetted'
  <2>1. plans' \in Seq([lineup : LineupIds, items : Seq(Sources)]) /\ lineup' \in [LineupIds -> Seq(SlotRows)]
    BY DEF TypeOK
  <2>2. \A p \in DOMAIN plans' : /\ DOMAIN plans'[p].items = 1 .. Len(plans'[p].items)
                                 /\ DOMAIN lineup'[plans'[p].lineup] = 1 .. Len(lineup'[plans'[p].lineup])
    BY <2>1, FitFacts
  <2> SUFFICES ASSUME NEW p \in DOMAIN plans'
               PROVE  LET items == plans'[p].items
                          rows  == lineup'[plans'[p].lineup]
                      IN /\ items # <<>>
                         /\ \A k \in DOMAIN items : asset'[items[k]] # Null
                         /\ \E from \in [DOMAIN items -> DOMAIN rows] :
                             /\ \A j, k \in DOMAIN items : j < k => from[j] < from[k]
                             /\ \A k \in DOMAIN items :
                                 /\ rows[from[k]].type = "main"
                                 /\ rows[from[k]].asset \in vetted' \intersect Authorized
                                 /\ items[k] = SourceOf[rows[from[k]].asset]
    BY DEF EmittedIsVetted
  <2> DEFINE items == plans'[p].items
             rows == lineup'[plans'[p].lineup]
  <2>3. items # <<>> /\ (\A k \in 1 .. Len(items) : asset'[items[k]] # Null) /\ Chosen(rows, items, Len(rows), vetted')
    BY <1>4 DEF Fit
  <2>4. DOMAIN items = 1 .. Len(items) /\ DOMAIN rows = 1 .. Len(rows)
    BY <2>2
  <2> HIDE DEF items, rows
  <2>5. PICK from \in [1 .. Len(items) -> 1 .. Len(rows)] :
            /\ \A j, k \in 1 .. Len(items) : j < k => from[j] < from[k]
            /\ \A k \in 1 .. Len(items) :
                /\ rows[from[k]].type = "main"
                /\ rows[from[k]].asset \in vetted' \intersect Authorized
                /\ items[k] = SourceOf[rows[from[k]].asset]
    BY <2>3 DEF Chosen
  <2>6. /\ items # <<>>
        /\ \A k \in DOMAIN items : asset'[items[k]] # Null
        /\ \E f \in [DOMAIN items -> DOMAIN rows] :
             /\ \A j, k \in DOMAIN items : j < k => f[j] < f[k]
             /\ \A k \in DOMAIN items :
                 /\ rows[f[k]].type = "main"
                 /\ rows[f[k]].asset \in vetted' \intersect Authorized
                 /\ items[k] = SourceOf[rows[f[k]].asset]
    BY <2>3, <2>4, <2>5
  <2> QED BY <2>6 DEF items, rows
<1> QED BY <1>5

\* The items of an emitted plan stand for vetted main items of its lineup, in
\* order, and their assets are in the library.
THEOREM EmittedPlansAreVetted == Spec => []EmittedIsVetted
<1>1. Init => Emitting
  BY InitEmitting
<1>2. Emitting /\ Sound /\ Sound' /\ [Next]_vars => Emitting'
  <2> SUFFICES ASSUME Emitting, Sound, Sound', [Next]_vars PROVE Emitting'
    OBVIOUS
  <2>1. Growing
    BY StepGrows
  <2>2. \A q \in Requests : Underway(q)'
    BY <2>1, StepUnderway DEF Emitting
  <2>3. EmittedIsVetted'
    BY <2>1, StepEmits DEF Sound
  <2> QED BY <2>2, <2>3 DEF Emitting
<1>3. Emitting => EmittedIsVetted
  BY DEF Emitting
<1> QED BY <1>1, <1>2, <1>3, SoundHolds, PTL DEF Spec
================================================================================
