-------------------------------- MODULE Spool --------------------------------
(***************************************************************************)
(* The downloads in the spool: who fetches, uses and deletes them.         *)
(*                                                                         *)
(* Every asset has one file name under spool/downloads, and ".part" beside *)
(* it while it is fetched.  Prep workers fetch and use it, the streamer    *)
(* deletes it after the last item that needs it, the director's cleanup    *)
(* deletes what no row references.  They share the directory and column    *)
(* library_assets.current_local_path, and lock neither.  How items are     *)
(* claimed is the business of Pipeline; here a claim is one step.          *)
(* The cleanup is modelled as its function stands: at this commit the      *)
(* director's tick raises before it runs a verb (README, findings).        *)
(***************************************************************************)
EXTENDS Naturals

CONSTANTS
    Items, Assets, Workers,
    VideoOf,        \* item -> its video asset
    MusicOf,        \* item -> the music mixed into it, or Null
    Planned,        \* items that are queued from the start
    Limit,          \* how often each outside event may happen
    Null

External == {"crash", "plan", "requeue", "remove", "sweep"}
Soundtrack(i) == IF MusicOf[i] = Null THEN {} ELSE {MusicOf[i]}
Sources(i)    == {VideoOf[i]} \union Soundtrack(i)

ASSUME SpoolAssumption ==
    /\ VideoOf \in [Items -> Assets]
    /\ MusicOf \in [Items -> Assets \union {Null}]
    /\ Planned \subseteq Items
    /\ Limit \in [External -> Nat]
    /\ Null \notin Items \union Assets
    /\ Workers \intersect {"absent", "whole", "torn"} = {}

VARIABLES
    prep, stream,   \* stream_plan_items.prep_status and .stream_status
    path,           \* library_assets.current_local_path: "none" or "stored"
    part, dest,     \* what is at <asset>.part and at <asset>
    pc, item,       \* where each worker is, and its item
    target,         \* the asset it fetches or uses
    known,          \* current_local_path as its session knows it
    spc, sItem,     \* where the streamer is, and its item
    sKnown,         \* current_local_path as its session knows it
    sweep,          \* the references a running cleanup has read, or Null
    used            \* how often each outside event has happened

itemVars   == <<prep, stream>>
fileVars   == <<part, dest>>
workerVars == <<pc, item, target, known>>
streamerVars == <<spc, sItem, sKnown>>
vars == <<itemVars, path, fileVars, workerVars, streamerVars, sweep, used>>

(* A file is "whole", "torn" (its writer died), or named by the worker     *)
(* whose writing it still waits for.                                       *)
Contents == Workers \union {"absent", "whole", "torn"}

TypeOK ==
    /\ prep \in [Items -> {"unplanned", "queued", "preparing", "ready", "failed"}]
    /\ stream \in [Items -> {"queued", "streaming", "completed", "failed"}]
    /\ path \in [Assets -> {"none", "stored"}]
    /\ part \in [Assets -> Contents]
    /\ dest \in [Assets -> Contents]
    /\ pc \in [Workers -> {"idle", "look", "open", "write", "replace", "store", "use"}]
    /\ item \in [Workers -> Items \union {Null}]
    /\ target \in [Workers -> Assets \union {Null}]
    /\ known \in [Workers -> [Assets -> {"none", "stored", "unread"}]]
    /\ spc \in {"idle", "play", "count", "unlink", "forget"}
    /\ sItem \in Items \union {Null}
    /\ sKnown \in {"none", "stored"}
    /\ sweep \in (SUBSET Assets) \union {Null}
    /\ used \in [External -> Nat]

NothingKnown == [a \in Assets |-> "unread"]

Init ==
    /\ prep = [i \in Items |-> IF i \in Planned THEN "queued" ELSE "unplanned"]
    /\ stream = [i \in Items |-> "queued"]
    /\ path = [a \in Assets |-> "none"]
    /\ part = [a \in Assets |-> "absent"]
    /\ dest = [a \in Assets |-> "absent"]
    /\ pc = [w \in Workers |-> "idle"]
    /\ item = [w \in Workers |-> Null]
    /\ target = [w \in Workers |-> Null]
    /\ known = [w \in Workers |-> NothingKnown]
    /\ spc = "idle"
    /\ sItem = Null
    /\ sKnown = "none"
    /\ sweep = Null
    /\ used = [e \in External |-> 0]

-----------------------------------------------------------------------------
(* The prep worker: prepare_item and _download_asset.                      *)

Goto(w, place) == pc' = [pc EXCEPT ![w] = place]
OnlyFiles == UNCHANGED <<itemVars, path, item, target, known, streamerVars, sweep, used>>

\* The session keeps what it knows of the previous item's assets.
PrepClaim(w, i) ==
    /\ pc[w] = "idle"
    /\ prep[i] = "queued"
    /\ prep' = [prep EXCEPT ![i] = "preparing"]
    /\ item' = [item EXCEPT ![w] = i]
    /\ target' = [target EXCEPT ![w] = VideoOf[i]]
    /\ known' = [known EXCEPT ![w] =
                    [a \in Assets |-> IF a \notin Sources(i) THEN "unread"
                                      ELSE IF @[a] # "unread" THEN @[a]
                                      ELSE path[a]]]
    /\ Goto(w, "look")
    /\ UNCHANGED <<stream, path, fileVars, streamerVars, sweep, used>>

\* Nothing left to claim: the cycle's session ends.
EndCycle(w) ==
    /\ pc[w] = "idle"
    /\ \A i \in Items : prep[i] # "queued"
    /\ known' = [known EXCEPT ![w] = NothingKnown]
    /\ UNCHANGED <<itemVars, path, fileVars, pc, item, target, streamerVars, sweep, used>>

InSpool(w) == known[w][target[w]] = "stored" /\ dest[target[w]] # "absent"

UseStored(w) ==
    /\ pc[w] = "look"
    /\ InSpool(w)
    /\ Goto(w, "use")
    /\ UNCHANGED fileVars
    /\ OnlyFiles

\* An old ".part" is removed, the request goes out.
StartFetch(w) ==
    /\ pc[w] = "look"
    /\ ~InSpool(w)
    /\ part' = [part EXCEPT ![target[w]] = "absent"]
    /\ Goto(w, "open")
    /\ UNCHANGED dest
    /\ OnlyFiles

\* tmp.open("wb") creates the file or truncates the one it finds.
Open(w) ==
    /\ pc[w] = "open"
    /\ part' = [part EXCEPT ![target[w]] = w]
    /\ Goto(w, "write")
    /\ UNCHANGED dest
    /\ OnlyFiles

\* What has become of the files that waited for w's writing.
Settle(file, w, end) == [a \in Assets |-> IF file[a] = w THEN end ELSE file[a]]

WriteEnds(w) ==
    /\ pc[w] = "write"
    /\ part' = Settle(part, w, "whole")
    /\ dest' = Settle(dest, w, "whole")
    /\ Goto(w, "replace")
    /\ OnlyFiles

ReplaceWhileOpen(w) ==
    /\ pc[w] = "write"
    /\ part[target[w]] # "absent"
    /\ dest' = [dest EXCEPT ![target[w]] = part[target[w]]]
    /\ part' = [part EXCEPT ![target[w]] = "absent"]
    /\ Goto(w, "store")
    /\ OnlyFiles
\* tmp.replace(dest).
Replace(w) ==
    /\ pc[w] = "replace"
    /\ part[target[w]] # "absent"
    /\ dest' = [dest EXCEPT ![target[w]] = part[target[w]]]
    /\ part' = [part EXCEPT ![target[w]] = "absent"]
    /\ Goto(w, "store")
    /\ OnlyFiles

\* The ORM writes the path only if it differs from the one the session knows.
StorePath(w) ==
    /\ pc[w] = "store"
    /\ path' = IF known[w][target[w]] = "stored" THEN path
               ELSE [path EXCEPT ![target[w]] = "stored"]
    /\ known' = [known EXCEPT ![w][target[w]] = "stored"]
    /\ Goto(w, "use")
    /\ UNCHANGED <<itemVars, fileVars, item, target, streamerVars, sweep, used>>

\* ffmpeg has read the video; the music comes next.
NormalizeThenMusic(w) ==
    /\ pc[w] = "use"
    /\ dest[target[w]] # "absent"
    /\ target[w] = VideoOf[item[w]]
    /\ \E a \in Soundtrack(item[w]) : target' = [target EXCEPT ![w] = a]
    /\ Goto(w, "look")
    /\ UNCHANGED <<itemVars, path, fileVars, item, known, streamerVars, sweep, used>>

\* ffmpeg has read the last source.
FinishItem(w) ==
    /\ pc[w] = "use"
    /\ dest[target[w]] # "absent"
    /\ target[w] = VideoOf[item[w]] => Soundtrack(item[w]) = {}
    /\ prep' = [prep EXCEPT ![item[w]] = "ready"]
    /\ Goto(w, "idle")
    /\ UNCHANGED <<stream, path, fileVars, item, target, known, streamerVars, sweep, used>>

FailedAsJob(i) == [prep EXCEPT ![i] = "error"]
Failed(i) == [prep EXCEPT ![i] = "failed"]

Fail(w) ==
    /\ prep' = Failed(item[w])
    /\ Goto(w, "idle")
    /\ UNCHANGED <<stream, path, item, target, known, streamerVars, sweep, used>>

\* The except clause of the download removes whatever is at ".part".
FetchFails(w) ==
    /\ pc[w] \in {"open", "write", "replace"}
    /\ part' = [part EXCEPT ![target[w]] = "absent"]
    /\ dest' = Settle(dest, w, "torn")
    /\ Fail(w)

\* A rights gate, or ffmpeg for want of its source or otherwise.
PrepareFails(w) ==
    /\ pc[w] \in {"look", "use"}
    /\ UNCHANGED fileVars
    /\ Fail(w)

-----------------------------------------------------------------------------
(* The streamer: _play_item and _cleanup_download_if_unreferenced.         *)

AirClaim(i) ==
    /\ spc = "idle"
    /\ prep[i] = "ready"
    /\ stream[i] = "queued"
    /\ stream' = [stream EXCEPT ![i] = "streaming"]
    /\ sItem' = i
    /\ sKnown' = path[VideoOf[i]]
    /\ spc' = "play"
    /\ UNCHANGED <<prep, path, fileVars, workerVars, sweep, used>>

PlayEnds(outcome, place) ==
    /\ spc = "play"
    /\ stream' = [stream EXCEPT ![sItem] = outcome]
    /\ spc' = place
    /\ UNCHANGED <<prep, path, fileVars, workerVars, sItem, sKnown, sweep, used>>

NeedsIdle(i) == stream[i] = "queued" /\ prep[i] \in {"queued", "ready"}
NeedsEver(i) == prep[i] \in {"queued", "preparing", "ready"}
Needs(i) ==
    /\ stream[i] \in {"queued", "streaming"}
    /\ prep[i] \in {"queued", "preparing", "ready"}

Unreferenced(i) ==
    /\ sKnown = "stored"
    /\ \A j \in Items : j # i /\ VideoOf[j] = VideoOf[i] => ~Needs(j)

CountActive ==
    /\ spc = "count"
    /\ spc' = IF Unreferenced(sItem) THEN "unlink" ELSE "idle"
    /\ UNCHANGED <<itemVars, path, fileVars, workerVars, sItem, sKnown, sweep, used>>

UnlinkNothing ==
    /\ spc = "unlink"
    /\ spc' = "forget"
    /\ UNCHANGED <<itemVars, path, fileVars, workerVars, sItem, sKnown, sweep, used>>
UnlinkDownload ==
    /\ spc = "unlink"
    /\ dest' = [dest EXCEPT ![VideoOf[sItem]] = "absent"]
    /\ spc' = "forget"
    /\ UNCHANGED <<itemVars, path, part, workerVars, sItem, sKnown, sweep, used>>

ForgetPath ==
    /\ spc = "forget"
    /\ path' = [path EXCEPT ![VideoOf[sItem]] = "none"]
    /\ spc' = "idle"
    /\ UNCHANGED <<itemVars, fileVars, workerVars, sItem, sKnown, sweep, used>>

-----------------------------------------------------------------------------
(* Outside events.                                                         *)

Happens(e) ==
    /\ used[e] < Limit[e]
    /\ used' = [used EXCEPT ![e] = @ + 1]

\* The planner queues one more item.
Plan(i) ==
    /\ Happens("plan")
    /\ prep[i] = "unplanned"
    /\ prep' = [prep EXCEPT ![i] = "queued"]
    /\ UNCHANGED <<stream, path, fileVars, workerVars, streamerVars, sweep>>

\* RUNBOOK, Prep Failures: "re-queue by resetting prep_status=queued".
Requeue(i) ==
    /\ Happens("requeue")
    /\ prep[i] = "failed"
    /\ prep' = [prep EXCEPT ![i] = "queued"]
    /\ UNCHANGED <<stream, path, fileVars, workerVars, streamerVars, sweep>>

\* RUNBOOK, Storage Pressure: "remove files in /spool/downloads/".
RemoveDownload(a) ==
    /\ Happens("remove")
    /\ dest[a] # "absent"
    /\ dest' = [dest EXCEPT ![a] = "absent"]
    /\ UNCHANGED <<itemVars, path, part, workerVars, streamerVars, sweep>>

WorkerCrash(w) ==
    /\ Happens("crash")
    /\ part' = Settle(part, w, "torn")
    /\ dest' = Settle(dest, w, "torn")
    /\ known' = [known EXCEPT ![w] = NothingKnown]
    /\ Goto(w, "idle")
    /\ UNCHANGED <<itemVars, path, item, target, streamerVars, sweep>>

StreamerCrash ==
    /\ Happens("crash")
    /\ spc' = "idle"
    /\ UNCHANGED <<itemVars, path, fileVars, workerVars, sItem, sKnown, sweep>>

\* cleanup_orphan_downloads reads the references, then deletes file by file.
StartSweep ==
    /\ Happens("sweep")
    /\ sweep = Null
    /\ sweep' = {a \in Assets : path[a] = "stored"}
    /\ UNCHANGED <<itemVars, path, fileVars, workerVars, streamerVars>>

SweepDownload(a) ==
    /\ sweep # Null
    /\ a \notin sweep
    /\ dest' = [dest EXCEPT ![a] = "absent"]
    /\ UNCHANGED <<itemVars, path, part, workerVars, streamerVars, sweep, used>>

SweepPart(a) ==
    /\ sweep # Null
    /\ part' = [part EXCEPT ![a] = "absent"]
    /\ UNCHANGED <<itemVars, path, dest, workerVars, streamerVars, sweep, used>>

EndSweep ==
    /\ sweep # Null
    /\ sweep' = Null
    /\ UNCHANGED <<itemVars, path, fileVars, workerVars, streamerVars, used>>

-----------------------------------------------------------------------------
WorkerStep(w) ==
    \/ \E i \in Items : PrepClaim(w, i)
    \/ EndCycle(w)
    \/ UseStored(w)
    \/ StartFetch(w)
    \/ Open(w)
    \/ WriteEnds(w)
    \/ Replace(w)
    \/ StorePath(w)
    \/ NormalizeThenMusic(w)
    \/ FinishItem(w)
    \/ FetchFails(w)
    \/ PrepareFails(w)

StreamerStep ==
    \/ \E i \in Items : AirClaim(i)
    \/ PlayEnds("completed", "count")
    \/ PlayEnds("failed", "idle")
    \/ CountActive
    \/ UnlinkDownload
    \/ ForgetPath

Sweeper ==
    \/ StartSweep
    \/ \E a \in Assets : SweepDownload(a) \/ SweepPart(a)
    \/ EndSweep

Outside ==
    \/ \E i \in Items : Plan(i) \/ Requeue(i)
    \/ \E a \in Assets : RemoveDownload(a)
    \/ \E w \in Workers : WorkerCrash(w)
    \/ StreamerCrash
    \/ Sweeper

Next ==
    \/ \E w \in Workers : WorkerStep(w)
    \/ StreamerStep
    \/ Outside

Spec == Init /\ [][Next]_vars

\* Docker restarts the containers, which loop for ever.
FairSpec ==
    /\ Spec
    /\ \A w \in Workers : WF_vars(WorkerStep(w))
    /\ WF_vars(StreamerStep)

-----------------------------------------------------------------------------
(* Properties.                                                             *)

\* USER_GUIDE, "Downloads the source video, normalizes to house format": what
\* ffmpeg is about to read is the whole source, or nothing; never a file that
\* somebody is still writing or has given up (".part" and tmp.replace).
SourceIsWhole ==
    \A w \in Workers : pc[w] = "use" => dest[target[w]] \in {"whole", "absent"}

\* "Delete downloaded source bytes when no queued/ready/streaming item still
\* needs them": while nobody plans, re-queues, removes or sweeps, the source a worker is
\* about to read is not deleted under its hands.
NeededIsKept ==
    used["plan"] + used["requeue"] + used["remove"] + used["sweep"] = 0 =>
        \A w \in Workers : pc[w] = "use" => dest[target[w]] # "absent"

\* While nothing crashes, is planned or re-queued, a download that no row
\* references is one that a worker is about to reference.
NoOrphan ==
    used["crash"] + used["plan"] + used["requeue"] = 0 =>
        \A a \in Assets : path[a] = "none" /\ dest[a] # "absent" =>
            \E w \in Workers : pc[w] = "store" /\ target[w] = a

Streamed(a) ==
    /\ \E i \in Items : VideoOf[i] = a /\ stream[i] = "completed"
    /\ \A i \in Items : VideoOf[i] = a /\ prep[i] # "unplanned" => stream[i] = "completed"

\* While nothing crashes, is planned or re-queued, the download of a video is
\* gone in the end when all its items have been streamed.
DownloadsGo ==
    \A a \in Assets :
        Streamed(a) ~> dest[a] = "absent" \/ used["crash"] + used["plan"] + used["requeue"] > 0
=============================================================================
