------------------------------ MODULE Discovery ------------------------------
(***************************************************************************)
(* The three ways to discover candidates: with a browser on every enabled  *)
(* site (run_discovery), without one (run_discovery_simulated), and from   *)
(* one creator's page (run_user_discovery).                                *)
(*                                                                         *)
(* The first two look a page up before they add it; nothing in the         *)
(* database keeps page_url unique, and the look-up raises when it finds    *)
(* two rows.  What the browser meets is outside: whether it starts, which  *)
(* pages load, which links and media they show.                            *)
(***************************************************************************)
EXTENDS Acquisition

\* The candidate of link l; whether its retrieval is authorized is told by
\* what the page shows, which may be nothing.
Add(s, l, authorized) ==
    /\ added' = [added EXCEPT ![s] = @ \union {l}]
    /\ direct' = IF authorized THEN direct \union {<<s, l>>} ELSE direct
    /\ found' = [found EXCEPT ![s] = @ + 1]
    /\ UNCHANGED <<candidates, runs, enriched, rights, lineups, reported, run, locked, tuned>>

AddNothing == UNCHANGED <<tables, pending, found>>

\* What the browser gives: whether it starts, whether a page loads, the links
\* it lists, and whether the media it shows has an authorized retrieval.
Launches == BOOLEAN
Loads == BOOLEAN
Listings(d) == SUBSET {l \in Links : SiteOf[l] = d}
Shown(l) == IF l \in Direct THEN BOOLEAN ELSE {FALSE}

Begins(s) ==
    /\ run' = [run EXCEPT ![s] = "running"]
    /\ known' = [known EXCEPT ![s] = candidates]
    /\ Enters(s, "underway")
    /\ UNCHANGED <<tables, added, locked, tuned, kind, vetoed, outside>>

Completes(s) ==
    /\ run' = [run EXCEPT ![s] = "completed"]
    /\ Commit(s)
    /\ Succeeds(s)
    /\ UNCHANGED <<enriched, lineups, reported>>

\* The look-up before a page is treated.
NewUnlooked(s, l) == l \notin Excluded
New(s, l) == l \notin Excluded /\ Rows(s, l) = {}
Skipped(s, l) == l \in Excluded \/ Cardinality(Rows(s, l)) = 1
Ambiguous(s, l) == l \notin Excluded /\ Cardinality(Rows(s, l)) > 1

Treated(s, l) == todo' = [todo EXCEPT ![s] = @ \ {l}]

-----------------------------------------------------------------------------
(* run_discovery.                                                          *)

BrowseBegin(s) ==
    /\ At(s, "browse", "ready")
    /\ Begins(s)
    /\ sites' = [sites EXCEPT ![s] = Sites]
    /\ UNCHANGED <<todo, found, site, searches, count, batch, sawReport>>

Browsing(s) == At(s, "browse", "underway")
OnSite(s) == Browsing(s) /\ site[s] # Null

\* One site after the other; where the browser does not start there is
\* nothing to do.
OpenSite(s, d) ==
    /\ Browsing(s)
    /\ site[s] = Null
    /\ d \in sites[s]
    /\ sites' = [sites EXCEPT ![s] = @ \ {d}]
    /\ \E launched \in Launches :
          IF launched
          THEN /\ site' = [site EXCEPT ![s] = d]
               /\ searches' = [searches EXCEPT ![s] = Searches]
               /\ count' = [count EXCEPT ![s] = 0]
          ELSE UNCHANGED <<site, searches, count>>
    /\ AddNothing
    /\ UNCHANGED <<todo, batch, sawReport, place, history>>

SpentLate(s) == count[s] > Budget
Spent(s) == count[s] >= Budget

\* A search that gets through counts as a page.
Search(s) ==
    /\ OnSite(s)
    /\ todo[s] = {}
    /\ searches[s] > 0
    /\ ~Spent(s)
    /\ searches' = [searches EXCEPT ![s] = @ - 1]
    /\ \E loaded \in Loads, hits \in Listings(site[s]) :
          IF loaded
          THEN count' = [count EXCEPT ![s] = @ + 1] /\ todo' = [todo EXCEPT ![s] = hits]
          ELSE UNCHANGED <<count, todo>>
    /\ AddNothing
    /\ UNCHANGED <<sites, site, batch, sawReport, place, history>>

\* A link that is excluded, known, does not load, or shows no title.
PassBy(s, l) ==
    /\ OnSite(s)
    /\ l \in todo[s]
    /\ \/ Skipped(s, l) /\ UNCHANGED count
       \/ /\ New(s, l)
          /\ ~Spent(s)
          /\ \E loaded \in Loads :
                count' = [count EXCEPT ![s] = IF loaded THEN @ + 1 ELSE @]
    /\ Treated(s, l)
    /\ AddNothing
    /\ UNCHANGED <<sites, site, searches, batch, sawReport, place, history>>

Inspect(s, l) ==
    /\ OnSite(s)
    /\ l \in todo[s]
    /\ New(s, l)
    /\ ~Spent(s)
    /\ count' = [count EXCEPT ![s] = @ + 1]
    /\ Treated(s, l)
    /\ \E authorized \in Shown(l) : Add(s, l, authorized)
    /\ UNCHANGED <<sites, site, searches, batch, sawReport, place, history>>

\* The budget is spent before a new page: the rest of the results is dropped.
StopListing(s, l) ==
    /\ OnSite(s)
    /\ l \in todo[s]
    /\ New(s, l)
    /\ Spent(s)
    /\ todo' = [todo EXCEPT ![s] = {}]
    /\ AddNothing
    /\ UNCHANGED <<browsing, batch, sawReport, place, history>>

\* The site is done, or a page of it is known twice, which ends it there.
LeaveSite(s) ==
    /\ OnSite(s)
    /\ \/ todo[s] = {} /\ (searches[s] = 0 \/ Spent(s))
       \/ \E l \in todo[s] : Ambiguous(s, l)
    /\ todo' = [todo EXCEPT ![s] = {}]
    /\ site' = [site EXCEPT ![s] = Null]
    /\ AddNothing
    /\ UNCHANGED <<sites, searches, count, batch, sawReport, place, history>>

BrowseFinish(s) ==
    /\ Browsing(s)
    /\ site[s] = Null
    /\ sites[s] = {}
    /\ Completes(s)

\* Closing the browser raises, past the handler of the site.
BrowserFails(s) ==
    /\ Browsing(s)
    /\ sites[s] # Sites
    /\ Raises(s)

-----------------------------------------------------------------------------
(* run_discovery_simulated: every site with every keyword.                 *)

SimulateBegin(s) ==
    /\ At(s, "simulate", "ready")
    /\ Begins(s)
    /\ todo' = [todo EXCEPT ![s] = Invented]
    /\ UNCHANGED <<found, browsing, batch, sawReport>>

Simulating(s, l) == At(s, "simulate", "underway") /\ l \in todo[s]

SimulateSkip(s, l) ==
    /\ Simulating(s, l)
    /\ Skipped(s, l)
    /\ Treated(s, l)
    /\ AddNothing
    /\ UNCHANGED <<browsing, batch, sawReport, place, history>>

Simulate(s, l) ==
    /\ Simulating(s, l)
    /\ New(s, l)
    /\ Treated(s, l)
    /\ Add(s, l, l \in Direct)
    /\ UNCHANGED <<browsing, batch, sawReport, place, history>>

\* Nothing catches the look-up that finds two rows.
SimulateRaises(s, l) ==
    /\ Simulating(s, l)
    /\ Ambiguous(s, l)
    /\ Raises(s)

SimulateFinish(s) ==
    /\ At(s, "simulate", "underway")
    /\ todo[s] = {}
    /\ Completes(s)

-----------------------------------------------------------------------------
(* run_user_discovery: no look-up, and two commits.                        *)

\* The site is not enabled, or closing the browser raises.
ProfileRaises(s) ==
    /\ At(s, "profile", "ready") \/ At(s, "profile", "recording")
    /\ Raises(s)

\* The browser starts, logs in, and lists the creator's page.
ProfileBegin(s, d) ==
    /\ At(s, "profile", "ready")
    /\ \E hits \in Listings(d) : todo' = [todo EXCEPT ![s] = hits]
    /\ Enters(s, "underway")
    /\ UNCHANGED <<tables, pending, found, browsing, batch, sawReport, history>>

ProfileAdd(s, l) ==
    /\ At(s, "profile", "underway")
    /\ l \in todo[s]
    /\ Treated(s, l)
    /\ \E authorized \in Shown(l) : Add(s, l, authorized)
    /\ UNCHANGED <<browsing, batch, sawReport, place, history>>

ProfileCommit(s) ==
    /\ At(s, "profile", "underway")
    /\ todo[s] = {}
    /\ UNCHANGED run
    /\ Commit(s)
    /\ Enters(s, "recording")
    /\ UNCHANGED <<enriched, lineups, reported, working, history>>

\* The browser raises, before the listing or in it: noted in the run's errors.
ProfileCutShort(s) ==
    /\ At(s, "profile", "ready") \/ At(s, "profile", "underway")
    /\ todo' = [todo EXCEPT ![s] = {}]
    /\ Enters(s, "recording")
    /\ UNCHANGED <<tables, pending, found, browsing, batch, sawReport, history>>

\* The run, and with it whatever a listing cut short has added.
ProfileRecord(s) ==
    /\ At(s, "profile", "recording")
    /\ Completes(s)

-----------------------------------------------------------------------------
DiscoveryStep(s) ==
    \/ BrowseBegin(s)
    \/ \E d \in Sites : OpenSite(s, d)
    \/ Search(s)
    \/ \E l \in Links : PassBy(s, l) \/ Inspect(s, l) \/ StopListing(s, l)
    \/ LeaveSite(s)
    \/ BrowseFinish(s)
    \/ BrowserFails(s)
    \/ SimulateBegin(s)
    \/ \E l \in Links : SimulateSkip(s, l) \/ Simulate(s, l) \/ SimulateRaises(s, l)
    \/ SimulateFinish(s)
    \/ ProfileRaises(s)
    \/ \E d \in Sites : ProfileBegin(s, d)
    \/ \E l \in Links : ProfileAdd(s, l)
    \/ ProfileCommit(s)
    \/ ProfileCutShort(s)
    \/ ProfileRecord(s)
=============================================================================
