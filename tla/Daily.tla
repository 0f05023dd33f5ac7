-------------------------------- MODULE Daily --------------------------------
(***************************************************************************)
(* The daily orchestration and the jobs it shares with the API: keyword    *)
(* adjustment, discovery, enrichment, approval, lineup, Media IR, report.  *)
(*                                                                         *)
(* All of it runs in one session.  A job that raises is noted, and the     *)
(* next one goes on with what the failed one left uncommitted.  The lineup *)
(* itself is composed in Lineups; here it exists or not.                   *)
(***************************************************************************)
EXTENDS Discovery

Others(s) == Sessions \ {s}
UnchangedTables == UNCHANGED <<tables, added, run>>

-----------------------------------------------------------------------------
(* _adjust_keyword_priorities.                                             *)

\* There is no report of yesterday, or none of its keywords changes.
AdjustNothing(s) ==
    /\ At(s, "adjust", "ready")
    /\ Succeeds(s)
    /\ UNCHANGED <<tables, pending>>

\* A keyword has a new weight, which is not sent yet.
AdjustWeight(s) ==
    /\ At(s, "adjust", "ready")
    /\ Enters(s, "underway")
    /\ UNCHANGED <<tables, pending, working, history>>

\* The next query or the flush sends it, and waits for whoever has adjusted the
\* same rows; all keywords are one lock, taken with the first of them.
AdjustFlush(s) ==
    /\ At(s, "adjust", "underway")
    /\ ~tuned[s]
    /\ \A t \in Others(s) : ~tuned[t]
    /\ tuned' = [tuned EXCEPT ![s] = TRUE]
    /\ UnchangedTables
    /\ UNCHANGED <<locked, place, working, history>>

Adjusted(s) ==
    /\ At(s, "adjust", "underway")
    /\ tuned[s]
    /\ Succeeds(s)
    /\ UNCHANGED <<tables, pending>>

\* A keyword of the report is there twice: the first, or one behind others that
\* have been sent and stay pending.
AdjustRaises(s) ==
    /\ \/ At(s, "adjust", "ready")
       \/ At(s, "adjust", "underway") /\ tuned[s]
    /\ Raises(s)

-----------------------------------------------------------------------------
(* run_enrichment: a batch, an LLM for each of it, and one commit.         *)

Enrichable(s) == {c \in Visible(s) : kind[c[1]] # "profile"} \ enriched

EnrichSelect(s) ==
    /\ At(s, "enrich", "ready")
    /\ batch' = [batch EXCEPT ![s] = Enrichable(s)]
    /\ Enters(s, "underway")
    /\ UNCHANGED <<tables, pending, todo, found, browsing, sawReport, history>>

Collides(s) == batch[s] \intersect enriched # {}

EnrichCommit(s) ==
    /\ At(s, "enrich", "underway")
    /\ ~Collides(s)
    /\ enriched' = enriched \union batch[s]
    /\ UNCHANGED run
    /\ Commit(s)
    /\ Succeeds(s)
    /\ UNCHANGED <<lineups, reported>>

\* Somebody else has enriched one of the batch: all of it is lost.
EnrichRefused(s) ==
    /\ At(s, "enrich", "underway")
    /\ Collides(s)
    /\ IsRefused(s)

-----------------------------------------------------------------------------
(* _auto_approve_candidates.                                               *)

\* A duration of more than a minute: a browsing run reads it off the player, a
\* simulated one invents such a one, a creator's discovery stores none.
IsLong(c) ==
    CASE kind[c[1]] = "browse" -> c[2] \in Long
      [] kind[c[1]] = "profile" -> FALSE
      [] OTHER -> TRUE

ApprovableWhatever(s) == {c \in Visible(s) : c \in direct /\ IsLong(c)}
Approvable(s) ==
    {c \in Visible(s) : rights[c] = "pending_review" /\ c \in direct /\ IsLong(c)}

ApproveSelect(s) ==
    /\ At(s, "approve", "ready")
    /\ batch' = [batch EXCEPT ![s] = Approvable(s)]
    /\ Enters(s, "underway")
    /\ UNCHANGED <<tables, pending, todo, found, browsing, sawReport, history>>

\* The flush updates the rows by their key and waits for whoever has.
ApproveFlush(s) ==
    /\ At(s, "approve", "underway")
    /\ \A t \in Others(s) : locked[t] \intersect batch[s] = {}
    /\ locked' = [locked EXCEPT ![s] = batch[s]]
    /\ Succeeds(s)
    /\ UnchangedTables
    /\ UNCHANGED tuned

-----------------------------------------------------------------------------
(* generate_lineup, llm_polish_lineup, compile_media_ir.                   *)

\* Approved by the operator, or in this session and not committed.
IsApproved(s, c) == rights[c] = "approved_for_stream" \/ c \in locked[s]

\* What the two discoveries with a look-up add is inspected or accepted and may
\* have any duration; what a creator's adds is only found, and has none.
OnShelf(c) ==
    CASE kind[c[1]] = "browse" -> c[2] \in Timed
      [] kind[c[1]] = "profile" -> FALSE
      [] OTHER -> TRUE

Shelf(s) == {c \in Visible(s) : c \in direct /\ IsApproved(s, c) /\ OnShelf(c)}

MakeLineup(s) ==
    /\ At(s, "lineup", "ready")
    /\ Shelf(s) # {}
    /\ lineups' = [lineups EXCEPT ![s] = "draft"]
    /\ UNCHANGED run
    /\ Commit(s)
    /\ Succeeds(s)
    /\ UNCHANGED <<enriched, reported>>

EmptyShelfSkipped(s) ==
    /\ At(s, "lineup", "ready")
    /\ Shelf(s) = {}
    /\ Succeeds(s)
    /\ UNCHANGED <<tables, pending>>

EmptyShelf(s) ==
    /\ At(s, "lineup", "ready")
    /\ Shelf(s) = {}
    /\ Raises(s)

\* The polish only reads, and answers with suggestions nobody stores.
Polish(s) ==
    /\ At(s, "polish", "ready")
    /\ ~NoLineup(s)
    /\ Succeeds(s)
    /\ UNCHANGED <<tables, pending>>

\* Every item has its job, compiled or failed; the lineup is emitted all the same.
Compile(s) ==
    /\ At(s, "compile", "ready")
    /\ ~NoLineup(s)
    /\ lineups' = [lineups EXCEPT ![s] = "emitted"]
    /\ UNCHANGED run
    /\ Commit(s)
    /\ Succeeds(s)
    /\ UNCHANGED <<enriched, reported>>

-----------------------------------------------------------------------------
(* generate_report: one row per day.                                       *)

ReportRead(s) ==
    /\ At(s, "report", "ready")
    /\ sawReport' = [sawReport EXCEPT ![s] = reported]
    /\ Enters(s, "underway")
    /\ UNCHANGED <<tables, pending, todo, found, browsing, batch, history>>

ReportWrite(s) ==
    /\ At(s, "report", "underway")
    /\ reported => sawReport[s]
    /\ reported' = TRUE
    /\ UNCHANGED run
    /\ Commit(s)
    /\ Succeeds(s)
    /\ UNCHANGED <<enriched, lineups>>

\* Somebody else has inserted the row meanwhile.
ReportRefused(s) ==
    /\ At(s, "report", "underway")
    /\ reported /\ ~sawReport[s]
    /\ IsRefused(s)

-----------------------------------------------------------------------------
(* The operator decides about a candidate (update_candidate); his UPDATE   *)
(* waits for an approval that is not committed.                            *)

InHand(c) == \E t \in Sessions : At(t, "approve", "underway") /\ c \in batch[t]

Decide(c, verdict) ==
    /\ c \in candidates
    /\ \A t \in Sessions : c \notin locked[t]
    /\ FromOutside
    /\ rights' = [rights EXCEPT ![c] = verdict]
    /\ vetoed' = IF verdict = "blocked" /\ ~InHand(c) THEN vetoed \union {c} ELSE vetoed \ {c}
    /\ UNCHANGED <<candidates, direct, runs, enriched, lineups, reported,
                   pending, place, working, kind, known>>

-----------------------------------------------------------------------------
DailyStep(s) ==
    \/ AdjustNothing(s)
    \/ AdjustWeight(s)
    \/ AdjustFlush(s)
    \/ Adjusted(s)
    \/ AdjustRaises(s)
    \/ EnrichSelect(s)
    \/ EnrichCommit(s)
    \/ EnrichRefused(s)
    \/ ApproveSelect(s)
    \/ ApproveFlush(s)
    \/ MakeLineup(s)
    \/ EmptyShelf(s)
    \/ Polish(s)
    \/ Compile(s)
    \/ ReportRead(s)
    \/ ReportWrite(s)
    \/ ReportRefused(s)

Proceeds(s) == DiscoveryStep(s) \/ DailyStep(s) \/ PassOver(s) \/ Collapse(s)

Next ==
    \/ \E s \in Sessions : Start(s) \/ Proceeds(s) \/ Breaks(s) \/ Dies(s)
    \/ \E c \in Ids, verdict \in {"approved_for_stream", "blocked"} : Decide(c, verdict)

Spec == Init /\ [][Next]_vars

(* Nobody has to call, but a call that has begun goes on: the browser, the *)
(* LLM and the database answer or time out.                                *)
FairSpec == Spec /\ \A s \in Sessions : WF_vars(Proceeds(s))

-----------------------------------------------------------------------------
(* Properties.                                                             *)

LooksUp(s) == kind[s] \in {"browse", "simulate", "daily"}

\* Two runs that look pages up add one page twice only if each began before
\* the other's candidate was committed; runs one after the other never do
\* (discovery.py:128, although its first lines speak of a source_url dedup).
PagesOnce ==
    \A c, d \in candidates :
        c # d /\ LooksUp(c[1]) /\ LooksUp(d[1]) /\ PageOf[c[2]] = PageOf[d[2]] =>
            c[1] # d[1] /\ c \notin known[d[1]] /\ d \notin known[c[1]]

Of(s) == {l \in Links : <<s, l>> \in candidates}

\* What the table of runs says is true, whatever failed and whoever committed
\* the rows: a completed run has as many candidates as it counts, one that
\* still says running failed in an orchestration that reports it, and
\* candidates without a run are a creator's.
RunsTell ==
    \A s \in Sessions :
        CASE runs[s].status = "completed" -> runs[s].found = Cardinality(Of(s))
          [] runs[s].status = "running" -> "simulate" \in errors[s]
          [] OTHER -> Of(s) = {} \/ kind[s] = "profile"

\* An orchestration that reports success has committed all of its work: the
\* run, an enrichment and a decision for each of its candidates, an emitted
\* lineup and the report (run_daily_orchestration, "success").
SuccessIsTrue ==
    \A s \in Sessions : kind[s] = "daily" /\ pc[s] = "over" /\ errors[s] = {} =>
        /\ runs[s].status = "completed"
        /\ \A l \in Of(s) :
              <<s, l>> \in enriched /\ (<<s, l>> \in direct => rights[<<s, l>>] # "pending_review")
        /\ lineups[s] = "emitted"
        /\ reported

\* A block decided while no orchestration has the candidate in hand is never
\* undone by one, whether it runs later, goes on after a failure, or runs again.
BlocksLast == \A c \in vetoed : rights[c] = "blocked"

\* Every call that has begun ends, although sessions wait for each other's
\* rows: for an adjustment and an approval, until the holder commits or fails.
SessionsEnd == \A s \in Sessions : pc[s] = "ready" ~> pc[s] \in {"over", "dead"}
=============================================================================
