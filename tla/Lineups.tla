------------------------------- MODULE Lineups -------------------------------
(***************************************************************************)
(* From candidates to draft plans: the curator's lineups, their emission,  *)
(* and the promotion of candidates to assets, by requests that run at the  *)
(* same time.                                                              *)
(*                                                                         *)
(* A request is one transaction.  What it has inserted or updated is its   *)
(* own until it commits, and whoever inserts the same source or updates    *)
(* the same candidate waits for it; PostgreSQL ends a circle of waiting    *)
(* requests by failing one.  An asset is known by its source, which the    *)
(* database keeps unique.                                                  *)
(***************************************************************************)
EXTENDS Curator

CONSTANTS
    Requests,
    LineupIds,
    Sources,
    SourceOf,       \* candidate -> its source_url
    Authorized,     \* the candidates with an authorized retrieval_status
    Selected,       \* the candidates approved when the run begins
    Stocked,        \* the sources in the library when the run begins
    Archive,        \* lineup -> its slots when the run begins, or <<>>
    Limit,          \* how often each outside event may happen
    Null

External == {"lineup", "request", "outside"}
Rights   == {"pending_review", "approved_for_stream", "blocked"}

ASSUME LineupsAssumption ==
    /\ SourceOf \in [Candidates -> Sources]
    /\ Authorized \in SUBSET Candidates
    /\ Selected \in SUBSET Candidates
    /\ Stocked \in SUBSET Sources
    /\ Archive \in [LineupIds -> Seq(SlotRows)]
    /\ Limit \in [External -> Nat]
    /\ Null \notin Rights \union LineupIds \union Candidates
    /\ LineupIds \intersect Candidates = {}

VARIABLES
    approved,   \* the candidates whose rights_status is approved_for_stream
    asset,      \* source -> rights of its asset, or Null
    linked,     \* the candidates with a library_asset_id
    lineup,     \* lineup -> its main and buffer items, <<>> before it exists
    plans,      \* the emitted plans
    planOf,     \* lineup -> the plan of its stream_plan_id, 0 for none
    pc, job,    \* what each request does next, and for which lineup or candidate
    queue,      \* the rows it has still to promote
    taken,      \* the assets of those it has promoted
    own,        \* the sources it has inserted and not committed
    tied,       \* the candidates it has linked and not committed
    vetted,     \* history: the candidates that were approved at some time
    used        \* how often each outside event has happened

dbVars == <<asset, linked, plans, planOf>>
requestVars == <<pc, job, queue, taken, own, tied>>
vars == <<curatorVars, approved, lineup, dbVars, requestVars, vetted, used>>

TypeOK ==
    /\ CuratorTypeOK
    /\ approved \in SUBSET Candidates
    /\ asset \in [Sources -> Rights \union {Null}]
    /\ linked \in SUBSET Candidates
    /\ lineup \in [LineupIds -> Seq(SlotRows)]
    /\ plans \in Seq([lineup : LineupIds, items : Seq(Sources)])
    /\ planOf \in [LineupIds -> Nat]
    /\ pc \in [Requests -> {"idle", "promote", "insert", "link"}]
    /\ job \in [Requests -> LineupIds \union Candidates \union {Null}]
    /\ queue \in [Requests -> Seq(SlotRows)]
    /\ taken \in [Requests -> Seq(Sources)]
    /\ own \in [Requests -> SUBSET Sources]
    /\ tied \in [Requests -> SUBSET Candidates]
    /\ vetted \in SUBSET Candidates
    /\ used \in [External -> Nat]

Init ==
    /\ CuratorInit
    /\ approved = Selected
    /\ asset \in {f \in [Sources -> Rights \union {Null}] : \A s \in Sources : f[s] # Null <=> s \in Stocked}
    /\ linked = {}
    /\ lineup = Archive
    /\ plans = <<>>
    /\ planOf = [l \in LineupIds |-> 0]
    /\ pc = [r \in Requests |-> "idle"]
    /\ job = [r \in Requests |-> Null]
    /\ queue = [r \in Requests |-> <<>>]
    /\ taken = [r \in Requests |-> <<>>]
    /\ own = [r \in Requests |-> {}]
    /\ tied = [r \in Requests |-> {}]
    /\ vetted = approved
    /\ used = [e \in External |-> 0]

Happens(e) ==
    /\ used[e] < Limit[e]
    /\ used' = [used EXCEPT ![e] = @ + 1]

-----------------------------------------------------------------------------
(* generate_lineup.                                                        *)

BeginLineup ==
    /\ Happens("lineup")
    /\ Begin(approved \intersect Authorized)
    /\ UNCHANGED <<approved, lineup, dbVars, requestVars, vetted>>

ComposeLineup ==
    /\ Compose
    /\ UNCHANGED <<approved, lineup, dbVars, requestVars, vetted, used>>

FinishLineup(l) ==
    /\ lineup[l] = <<>>
    /\ Finish
    /\ lineup' = [lineup EXCEPT ![l] = slots]
    /\ UNCHANGED <<approved, dbVars, requestVars, vetted, used>>

-----------------------------------------------------------------------------
(* Requests: what they begin with.                                         *)

Open(r, what, rows) ==
    /\ pc[r] = "idle"
    /\ Happens("request")
    /\ pc' = [pc EXCEPT ![r] = "promote"]
    /\ job' = [job EXCEPT ![r] = what]
    /\ queue' = [queue EXCEPT ![r] = rows]
    /\ UNCHANGED <<curatorVars, approved, lineup, dbVars, taken, own, tied, vetted>>

\* A lineup that has been emitted is answered with its plan; the reserve is skipped.
EmitRequest(r, l) ==
    /\ lineup[l] # <<>>
    /\ planOf[l] = 0
    /\ Open(r, l, lineup[l])

\* POST /acq/candidates/{id}/promote.
PromoteRequest(r, c) == Open(r, c, <<[asset |-> c, type |-> "main", start |-> 0, finish |-> 0]>>)

-----------------------------------------------------------------------------
(* promote_candidate_to_library_asset, for the first row of the queue.      *)

Current(r) == Head(queue[r]).asset
Source(r)  == SourceOf[Current(r)]

\* What a request sees: what is committed, and what is its own.
InLibrary(r, s) == asset[s] # Null \/ s \in own[r]
IsLinked(r, c)  == c \in linked \union tied[r]

MayPromoteUnreviewed(c) == c \in Authorized
MayPromote(c) == c \in approved \intersect Authorized

Promoting(r) ==
    /\ pc[r] = "promote"
    /\ queue[r] # <<>>
    /\ Head(queue[r]).type = "main"

Goto(r, label) ==
    /\ pc' = [pc EXCEPT ![r] = label]
    /\ UNCHANGED <<curatorVars, approved, lineup, dbVars, job, queue, taken, own, tied, vetted, used>>

\* The asset enters the plan.
Take(r) ==
    /\ queue' = [queue EXCEPT ![r] = Tail(@)]
    /\ taken' = [taken EXCEPT ![r] = Append(@, Source(r))]

\* Buffers are no content.
SkipBuffer(r) ==
    /\ pc[r] = "promote"
    /\ queue[r] # <<>>
    /\ Head(queue[r]).type # "main"
    /\ queue' = [queue EXCEPT ![r] = Tail(@)]
    /\ UNCHANGED <<curatorVars, approved, lineup, dbVars, pc, job, taken, own, tied, vetted, used>>

SkipTakingNull(r) ==
    /\ Promoting(r)
    /\ ~MayPromote(Current(r))
    /\ queue' = [queue EXCEPT ![r] = Tail(@)]
    /\ taken' = [taken EXCEPT ![r] = Append(@, Null)]
    /\ UNCHANGED <<curatorVars, approved, lineup, dbVars, pc, job, own, tied, vetted, used>>
SkipRetrying(r) ==
    /\ Promoting(r)
    /\ ~MayPromote(Current(r))
    /\ UNCHANGED vars
\* ValueError: the emission goes on without the item.
SkipCandidate(r) ==
    /\ Promoting(r)
    /\ ~MayPromote(Current(r))
    /\ queue' = [queue EXCEPT ![r] = Tail(@)]
    /\ UNCHANGED <<curatorVars, approved, lineup, dbVars, pc, job, taken, own, tied, vetted, used>>

\* Idempotent: already promoted.
AlreadyPromoted(r) ==
    /\ Promoting(r)
    /\ MayPromote(Current(r))
    /\ IsLinked(r, Current(r))
    /\ Take(r)
    /\ UNCHANGED <<curatorVars, approved, lineup, dbVars, pc, job, own, tied, vetted, used>>

\* Deduplicate by source_url, or insert.
LookUp(r) ==
    /\ Promoting(r)
    /\ MayPromote(Current(r))
    /\ ~IsLinked(r, Current(r))
    /\ Goto(r, IF InLibrary(r, Source(r)) THEN "link" ELSE "insert")

InsertBlindly(r) ==
    /\ pc[r] = "insert"
    /\ own' = [own EXCEPT ![r] = @ \union {Source(r)}]
    /\ pc' = [pc EXCEPT ![r] = "link"]
    /\ UNCHANGED <<curatorVars, approved, lineup, dbVars, job, queue, taken, tied, vetted, used>>
\* The INSERT waits for whoever is inserting the same source; after an
\* IntegrityError the other's asset is used.
Insert(r) ==
    /\ pc[r] = "insert"
    /\ \A q \in Requests \ {r} : Source(r) \notin own[q]
    /\ own' = [own EXCEPT ![r] = IF asset[Source(r)] = Null THEN @ \union {Source(r)} ELSE @]
    /\ pc' = [pc EXCEPT ![r] = "link"]
    /\ UNCHANGED <<curatorVars, approved, lineup, dbVars, job, queue, taken, tied, vetted, used>>

\* The UPDATE of the candidate waits for whoever has updated it.
Link(r) ==
    /\ pc[r] = "link"
    /\ \A q \in Requests \ {r} : Current(r) \notin tied[q]
    /\ tied' = [tied EXCEPT ![r] = @ \union {Current(r)}]
    /\ Take(r)
    /\ pc' = [pc EXCEPT ![r] = "promote"]
    /\ UNCHANGED <<curatorVars, approved, lineup, dbVars, job, own, vetted, used>>

-----------------------------------------------------------------------------
(* How requests end.                                                       *)

Close(r) ==
    /\ pc' = [pc EXCEPT ![r] = "idle"]
    /\ job' = [job EXCEPT ![r] = Null]
    /\ queue' = [queue EXCEPT ![r] = <<>>]
    /\ taken' = [taken EXCEPT ![r] = <<>>]
    /\ own' = [own EXCEPT ![r] = {}]
    /\ tied' = [tied EXCEPT ![r] = {}]
    /\ UNCHANGED <<curatorVars, approved, lineup, vetted>>

Rollback(r) ==
    /\ Close(r)
    /\ UNCHANGED dbVars

AllPromoted(r) ==
    /\ pc[r] = "promote"
    /\ queue[r] = <<>>

\* The plan, its items, and the lineup's reference to it.
CommitPlan(r) ==
    /\ AllPromoted(r)
    /\ job[r] \in LineupIds
    /\ taken[r] # <<>>
    /\ asset' = [s \in Sources |-> IF s \in own[r] THEN "approved_for_stream" ELSE asset[s]]
    /\ linked' = linked \union tied[r]
    /\ plans' = Append(plans, [lineup |-> job[r], items |-> taken[r]])
    /\ planOf' = [planOf EXCEPT ![job[r]] = Len(plans')]
    /\ Close(r)
    /\ UNCHANGED used

\* No promotable items.
NothingToEmit(r) ==
    /\ AllPromoted(r)
    /\ job[r] \in LineupIds
    /\ taken[r] = <<>>
    /\ Rollback(r)
    /\ UNCHANGED used

\* The promote endpoint answers and its session is closed without a commit.
Answer(r) ==
    /\ AllPromoted(r)
    /\ job[r] \in Candidates
    /\ Rollback(r)
    /\ UNCHANGED used

Blocks(q, r) ==
    /\ q # r
    /\ \/ pc[r] = "insert" /\ Source(r) \in own[q]
       \/ pc[r] = "link" /\ Current(r) \in tied[q]

\* A circle of requests that wait for each other.
Circle(C) ==
    /\ \A r \in C : \E q \in C : Blocks(q, r)
    /\ \A q \in C : \E r \in C : Blocks(q, r)

DeadlockVictim(r) ==
    /\ \E C \in SUBSET Requests : r \in C /\ Circle(C)
    /\ Rollback(r)
    /\ UNCHANGED used

\* The API restarts, or its connection is lost.
RequestCrash(r) ==
    /\ pc[r] # "idle"
    /\ Happens("outside")
    /\ Rollback(r)

-----------------------------------------------------------------------------
(* The operator.                                                           *)

\* PATCH /candidates/{id}.
Decide(c) ==
    /\ Happens("outside")
    /\ \A r \in Requests : c \notin tied[r]
    /\ approved' = IF c \in approved THEN approved \ {c} ELSE approved \union {c}
    /\ vetted' = vetted \union approved'
    /\ UNCHANGED <<curatorVars, lineup, dbVars, requestVars>>

\* POST /assets with the same source_url.
Register(s) ==
    /\ Happens("outside")
    /\ asset[s] = Null
    /\ \A r \in Requests : s \notin own[r]
    /\ asset' = [asset EXCEPT ![s] = "pending_review"]
    /\ UNCHANGED <<curatorVars, approved, lineup, linked, plans, planOf, requestVars, vetted>>

\* PATCH /assets/{id}.
Review(s, rights) ==
    /\ Happens("outside")
    /\ asset[s] \notin {Null, rights}
    /\ asset' = [asset EXCEPT ![s] = rights]
    /\ UNCHANGED <<curatorVars, approved, lineup, linked, plans, planOf, requestVars, vetted>>

RequestStep(r) ==
    \/ SkipBuffer(r) \/ SkipCandidate(r) \/ AlreadyPromoted(r) \/ LookUp(r) \/ Insert(r) \/ Link(r)
    \/ CommitPlan(r) \/ NothingToEmit(r) \/ Answer(r) \/ DeadlockVictim(r)

Next ==
    \/ BeginLineup
    \/ ComposeLineup
    \/ \E l \in LineupIds : FinishLineup(l)
    \/ \E r \in Requests :
        \/ \E l \in LineupIds : EmitRequest(r, l)
        \/ \E c \in Candidates : PromoteRequest(r, c)
        \/ RequestStep(r)
        \/ RequestCrash(r)
    \/ \E c \in Candidates : Decide(c)
    \/ \E s \in Sources : Register(s) \/ \E rights \in Rights : Review(s, rights)

Spec == Init /\ [][Next]_vars

\* A request that has begun goes on unless it waits; so does the curator.
FairSpec ==
    /\ Spec
    /\ WF_vars(ComposeLineup \/ \E l \in LineupIds : FinishLineup(l))
    /\ \A r \in Requests : WF_vars(RequestStep(r))

-----------------------------------------------------------------------------
(* Properties.                                                             *)

\* What a candidate is linked to exists, for the request that has linked it
\* and, once that is committed, for everybody; nobody has inserted a source that
\* another has or that the library has.
LinksHold ==
    /\ \A c \in linked : asset[SourceOf[c]] # Null
    /\ \A r \in Requests :
        /\ \A c \in tied[r] : InLibrary(r, SourceOf[c])
        /\ \A s \in own[r] : asset[s] = Null /\ \A q \in Requests \ {r} : s \notin own[q]

\* A plan has assets of the library only: those of its lineup's main items, in
\* their order, less the ones that could not be promoted.  Whatever the lineup
\* contains, they stand for candidates that were approved at some time and may be
\* retrieved ("rights_status must be approved_for_stream").
EmittedIsVetted ==
    \A p \in DOMAIN plans :
        LET items == plans[p].items
            rows  == lineup[plans[p].lineup]
        IN /\ items # <<>>
           /\ \A k \in DOMAIN items : asset[items[k]] # Null
           /\ \E from \in [DOMAIN items -> DOMAIN rows] :
               /\ \A j, k \in DOMAIN items : j < k => from[j] < from[k]
               /\ \A k \in DOMAIN items :
                   /\ rows[from[k]].type = "main"
                   /\ rows[from[k]].asset \in vetted \intersect Authorized
                   /\ items[k] = SourceOf[rows[from[k]].asset]

\* The rights of an asset are the operator's: promoting a candidate with the same
\* source, while the asset is registered or another inserts it, never changes them.
RightsAreKept ==
    [][\A s \in Sources : asset[s] # Null /\ asset'[s] # asset[s] =>
           \E rights \in Rights : Review(s, rights)]_vars

\* Every request comes to an end, although requests wait for each other.
RequestsEnd == \A r \in Requests : pc[r] # "idle" ~> pc[r] = "idle"
=============================================================================
