----------------------------- MODULE Acquisition -----------------------------
(***************************************************************************)
(* The tables of the acquisition side and the sessions that work on them.  *)
(*                                                                         *)
(* A session (AsyncSession) serves one API call, one command, or one run   *)
(* of the daily orchestration, and does one job after the other.  What it  *)
(* writes is its own until it commits; its queries see it.  When the       *)
(* database refuses a statement, the session is broken: what is not        *)
(* committed is lost and every later statement raises.  When it is closed, *)
(* or its process dies, what is not committed is lost.                     *)
(*                                                                         *)
(* A candidate is known by the session that inserts it and by the link it  *)
(* was found through; links may lead to one page.                          *)
(***************************************************************************)
EXTENDS Integers, FiniteSets

CONSTANTS
    Sessions,
    Casts,          \* the ways to cast the sessions: session -> kind
    Sites,          \* the enabled domain policies
    Links,          \* what a search, a profile or a keyword leads to
    Invented,       \* the links of a simulated run: every site, every keyword
    SiteOf,         \* link -> its site
    PageOf,         \* link -> its href, the page_url of the candidate
    Excluded,       \* the links whose text has an exclude keyword
    Direct,         \* the links whose media has an authorized retrieval
    Timed,          \* the links whose media shows a duration
    Long,           \* those of them with more than 60 seconds
    Budget,         \* max_pages_per_run
    Searches,       \* the number of include keywords
    Limit,          \* how many faults and decisions of the operator there may be
    Null

Kinds    == {"browse", "simulate", "profile", "enrich", "report", "daily"}
Daily    == {"adjust", "simulate", "enrich", "approve", "lineup", "polish", "compile", "report"}
Jobs     == {"browse", "profile"} \union Daily
Ids      == Sessions \X Links
Statuses == {"absent", "running", "completed"}

ASSUME AcquisitionAssumption ==
    /\ Casts \subseteq [Sessions -> Kinds]
    /\ IsFiniteSet(Links)
    /\ SiteOf \in [Links -> Sites]
    /\ DOMAIN PageOf = Links
    /\ Invented \subseteq Links
    /\ Excluded \subseteq Links
    /\ Direct \subseteq Links
    /\ Timed \subseteq Links
    /\ Long \subseteq Timed
    /\ Budget \in Nat
    /\ Searches \in Nat
    /\ Limit \in Nat
    /\ Null \notin Sites

VARIABLES
    \* the tables
    candidates,     \* the candidates
    direct,         \* those, committed or not, whose retrieval is authorized
    runs,           \* session -> its discovery run
    enriched,       \* the candidates with an enrichment
    rights,         \* candidate -> rights_status
    lineups,        \* session -> status of its lineup
    reported,       \* there is a report of the day
    \* what a session has written and not committed
    added,          \* the links of its new candidates
    run,            \* the status of its run
    locked,         \* the candidates it has approved
    tuned,          \* it has adjusted keywords
    \* what a session is doing
    kind,
    job,            \* its job, "over" after the last
    pc,             \* where it is in the job
    errors,         \* the jobs that failed
    broken,
    todo,           \* the links it has still to treat
    found,          \* total_found, total_added
    sites, site, searches, count,   \* a browsing run: where it is
    batch,          \* the candidates it has selected
    sawReport,      \* it has found a report of the day
    \* history
    known,          \* the candidates there were when its discovery began
    vetoed,         \* the candidates blocked while no session had them in hand
    outside         \* how many faults and decisions there have been

tables == <<candidates, direct, runs, enriched, rights, lineups, reported>>
pending == <<added, run, locked, tuned>>
place == <<job, pc, errors, broken>>
browsing == <<sites, site, searches, count>>
working == <<todo, found, browsing, batch, sawReport>>
history == <<kind, known, vetoed, outside>>
vars == <<tables, pending, place, working, history>>

\* The budget bounds the pages of a site, searches included.
TypeOK ==
    /\ candidates \in SUBSET Ids
    /\ direct \in SUBSET Ids
    /\ runs \in [Sessions -> [status : Statuses, found : Nat]]
    /\ enriched \in SUBSET Ids
    /\ rights \in [Ids -> {"pending_review", "approved_for_stream", "blocked"}]
    /\ lineups \in [Sessions -> {"none", "draft", "emitted"}]
    /\ reported \in BOOLEAN
    /\ added \in [Sessions -> SUBSET Links]
    /\ run \in [Sessions -> Statuses]
    /\ locked \in [Sessions -> SUBSET Ids]
    /\ tuned \in [Sessions -> BOOLEAN]
    /\ kind \in Casts
    /\ job \in [Sessions -> Jobs \union {"over"}]
    /\ pc \in [Sessions -> {"off", "ready", "underway", "recording", "over", "dead"}]
    /\ errors \in [Sessions -> SUBSET Jobs]
    /\ broken \in [Sessions -> BOOLEAN]
    /\ todo \in [Sessions -> SUBSET Links]
    /\ found \in [Sessions -> Nat]
    /\ sites \in [Sessions -> SUBSET Sites]
    /\ site \in [Sessions -> Sites \union {Null}]
    /\ searches \in [Sessions -> 0..Searches]
    /\ count \in [Sessions -> 0..Budget]
    /\ batch \in [Sessions -> SUBSET Ids]
    /\ sawReport \in [Sessions -> BOOLEAN]
    /\ known \in [Sessions -> SUBSET Ids]
    /\ vetoed \in SUBSET Ids
    /\ outside \in 0..Limit

FirstJob == [browse |-> "browse", simulate |-> "simulate", profile |-> "profile",
             enrich |-> "enrich", report |-> "report", daily |-> "adjust"]

Init ==
    /\ candidates = {} /\ direct = {} /\ enriched = {}
    /\ runs = [s \in Sessions |-> [status |-> "absent", found |-> 0]]
    /\ rights = [c \in Ids |-> "pending_review"]
    /\ lineups = [s \in Sessions |-> "none"]
    /\ reported = FALSE
    /\ added = [s \in Sessions |-> {}]
    /\ run = [s \in Sessions |-> "absent"]
    /\ locked = [s \in Sessions |-> {}]
    /\ tuned = [s \in Sessions |-> FALSE]
    /\ kind \in Casts
    /\ job = [s \in Sessions |-> FirstJob[kind[s]]]
    /\ pc = [s \in Sessions |-> "off"]
    /\ errors = [s \in Sessions |-> {}]
    /\ broken = [s \in Sessions |-> FALSE]
    /\ todo = [s \in Sessions |-> {}]
    /\ found = [s \in Sessions |-> 0]
    /\ sites = [s \in Sessions |-> {}]
    /\ site = [s \in Sessions |-> Null]
    /\ searches = [s \in Sessions |-> 0]
    /\ count = [s \in Sessions |-> 0]
    /\ batch = [s \in Sessions |-> {}]
    /\ sawReport = [s \in Sessions |-> FALSE]
    /\ known = [s \in Sessions |-> {}]
    /\ vetoed = {}
    /\ outside = 0

FromOutside ==
    /\ outside < Limit
    /\ outside' = outside + 1

-----------------------------------------------------------------------------
(* Transactions.                                                           *)

Own(s) == {s} \X added[s]
\* What a query of s finds: autoflush sends its own rows first.
Visible(s) == candidates \union Own(s)
\* The rows of one page, as the look-up by page_url finds them.
Rows(s, l) == {c \in Visible(s) : PageOf[c[2]] = PageOf[l]}

Total(s) == IF run'[s] = "completed" THEN found[s] ELSE 0

Commit(s) ==
    /\ candidates' = Visible(s)
    /\ runs' = [runs EXCEPT ![s] = [status |-> run'[s], found |-> Total(s)]]
    /\ rights' = [c \in Ids |-> IF c \in locked[s] THEN "approved_for_stream" ELSE rights[c]]
    /\ added' = [added EXCEPT ![s] = {}]
    /\ locked' = [locked EXCEPT ![s] = {}]
    /\ tuned' = [tuned EXCEPT ![s] = FALSE]
    /\ UNCHANGED direct

ForgetsRows(s) ==
    /\ added' = [added EXCEPT ![s] = {}]
    /\ run' = [run EXCEPT ![s] = runs[s].status]
    /\ direct' = direct \ Own(s)
    /\ UNCHANGED <<candidates, runs, enriched, rights, lineups, reported>>

Rollback(s) ==
    /\ ForgetsRows(s)
    /\ locked' = [locked EXCEPT ![s] = {}]
    /\ tuned' = [tuned EXCEPT ![s] = FALSE]

-----------------------------------------------------------------------------
(* Jobs.  An API call and a command have one; the orchestration goes on    *)
(* after a failed one, in the same session.                                *)

Following == [adjust |-> "simulate", simulate |-> "enrich", enrich |-> "approve",
              approve |-> "lineup", lineup |-> "polish", polish |-> "compile",
              compile |-> "report", report |-> "over"]
After(s) == IF kind[s] = "daily" THEN Following[job[s]] ELSE "over"

At(s, j, p) == job[s] = j /\ pc[s] = p /\ ~broken[s]
Enters(s, p) == pc' = [pc EXCEPT ![s] = p] /\ UNCHANGED <<job, errors, broken>>

Forgets(s) ==
    /\ todo' = [todo EXCEPT ![s] = {}]
    /\ sites' = [sites EXCEPT ![s] = {}]
    /\ site' = [site EXCEPT ![s] = Null]
    /\ searches' = [searches EXCEPT ![s] = 0]
    /\ count' = [count EXCEPT ![s] = 0]
    /\ batch' = [batch EXCEPT ![s] = {}]
    /\ sawReport' = [sawReport EXCEPT ![s] = FALSE]
    /\ UNCHANGED found

\* The job is over; after the last one the session is closed.
Leaves(s, failures) ==
    /\ job' = [job EXCEPT ![s] = After(s)]
    /\ pc' = [pc EXCEPT ![s] = IF After(s) = "over" THEN "over" ELSE "ready"]
    /\ errors' = [errors EXCEPT ![s] = @ \union failures]
    /\ Forgets(s)
    /\ UNCHANGED history

Succeeds(s) == Leaves(s, {}) /\ UNCHANGED broken

\* An exception that leaves the session usable: what it has written stays
\* pending, for the next commit of the session, if there is one.
Raises(s) ==
    /\ Leaves(s, {job[s]})
    /\ IF After(s) = "over" THEN Rollback(s) ELSE UNCHANGED <<tables, pending>>
    /\ UNCHANGED broken

\* The database refuses the commit.
IsRefused(s) ==
    /\ Leaves(s, {job[s]})
    /\ Rollback(s)
    /\ broken' = [broken EXCEPT ![s] = TRUE]

Alive(s) == pc[s] \in {"ready", "underway", "recording"}

Start(s) ==
    /\ pc[s] = "off"
    /\ Enters(s, "ready")
    /\ UNCHANGED <<tables, pending, working, history>>

\* A polish or a compilation without a lineup is passed over.
NoLineup(s) == job[s] \in {"polish", "compile"} /\ lineups[s] = "none"

PassOver(s) ==
    /\ NoLineup(s)
    /\ pc[s] = "ready"
    /\ Succeeds(s)
    /\ UNCHANGED <<tables, pending>>

\* Every job begins with a statement, which raises in a broken session; the
\* failures a job catches itself end at its commit, which raises too.
Collapse(s) ==
    /\ Alive(s)
    /\ broken[s]
    /\ ~NoLineup(s)
    /\ Raises(s)

-----------------------------------------------------------------------------
(* What happens to a session.                                              *)

BreaksUnnoticed(s) ==
    /\ Alive(s)
    /\ ~broken[s]
    /\ FromOutside
    /\ Rollback(s)
    /\ UNCHANGED <<place, working, kind, known, vetoed>>

\* The database refuses a statement, or the connection is lost.
Breaks(s) ==
    /\ Alive(s)
    /\ ~broken[s]
    /\ FromOutside
    /\ broken' = [broken EXCEPT ![s] = TRUE]
    /\ Rollback(s)
    /\ UNCHANGED <<job, pc, errors, working, kind, known, vetoed>>

\* As when the connection outlives the process.
DiesHoldingLocks(s) ==
    /\ Alive(s)
    /\ FromOutside
    /\ pc' = [pc EXCEPT ![s] = "dead"]
    /\ ForgetsRows(s)
    /\ Forgets(s)
    /\ UNCHANGED <<locked, tuned, job, errors, broken, kind, known, vetoed>>

Dies(s) ==
    /\ Alive(s)
    /\ FromOutside
    /\ pc' = [pc EXCEPT ![s] = "dead"]
    /\ Rollback(s)
    /\ Forgets(s)
    /\ UNCHANGED <<job, errors, broken, kind, known, vetoed>>
=============================================================================
