---------------------------- MODULE StreamImport ----------------------------
(***************************************************************************)
(* The stream import engine: runs of MigrationService (packages/           *)
(* stream-import/src/migration.ts) against one Bunny library and one       *)
(* journal file.  The state lock makes runs exclusive here (StateLock has  *)
(* its own module), so at any moment at most one run is under way; a run   *)
(* may crash at any await, be paused, or lose the answer to any request,   *)
(* and what outlives it is the journal on disk, the library, and requests  *)
(* still on their way to Bunny.                                            *)
(*                                                                         *)
(* JavaScript runs without preemption between awaits, so one action is the *)
(* code from one await to the next, its flush to the journal included.     *)
(***************************************************************************)
EXTENDS ImportJournal

CONSTANTS
  Options,       \* the option records a host may start a run with
  Listings,      \* the sets of videos the source may list
  HealthSteps,   \* <<from, to>>: how Bunny's processing may move a video
  Concurrency,   \* worker pool size
  LateLanding,   \* may a request reach Bunny after a later run listed the library?
  Summaries,     \* may a host keep a summary's listing and run from it later?
  MaxVideos,     \* bound: videos ever created in the library
  MaxRuns,       \* bound: runs ever started
  MaxEpoch,      \* bound: epochs
  ForeignTitles, \* the titles somebody else uploads videos under
  MaxForeign,    \* bound: videos somebody else uploads
  MaxCrashes     \* bound: crashes and timeouts, counted together

OptionRecord == [resume: BOOLEAN, clean: BOOLEAN, retry: BOOLEAN, wait: BOOLEAN,
                 folder: Folder \cup {None}]

ASSUME ImportAssumption ==
  /\ Options \subseteq OptionRecord
  /\ Listings \subseteq SUBSET Video
  /\ ForeignTitles \subseteq Title
  /\ HealthSteps \subseteq (Health \ {"gone"}) \X Health
  /\ Concurrency \in Nat \ {0}
  /\ LateLanding \in BOOLEAN /\ Summaries \in BOOLEAN
  /\ MaxVideos \in Nat /\ MaxRuns \in Nat /\ MaxEpoch \in Nat \ {0}
  /\ MaxForeign \in Nat /\ MaxCrashes \in Nat

VARIABLES
  \* what outlives a run
  lib,       \* Bunny's library
  net,       \* fetch requests sent and not yet handled by Bunny: [v, run]
  journal,   \* the saved state: [ents, status]
  epoch,     \* the clock
  service,   \* a summarised service waiting for confirmation: << >> or <<[snap, index]>>
  runs,      \* runs started
  faults,    \* crashes and timeouts so far
  \* the run under way
  pc,        \* where runMigration is
  opt,       \* its options
  cached,    \* its service's index came from a summary
  aborted,   \* its signal
  snap,      \* the listing loadSourceIndex took
  index,     \* the source index built from it
  scope,     \* videos discovered in the run's folder
  mem,       \* this.state.videoMigrations
  todo,      \* what the current pass or pool has left
  w,         \* each video's worker
  reply      \* Bunny's answer to the fetch a worker sent: 0, a GUID, or "refused"

durable == <<lib, net, journal, epoch, service, runs, faults>>
volatile == <<pc, opt, cached, aborted, snap, index, scope, mem, todo, w, reply>>
vars == <<durable, volatile>>

Phase == {"idle", "loading", "collections", "reconcile", "queue", "wait"}

WorkerState == {"idle", "clean", "lookup", "sent", "tag", "await", "late", "latetag"}

Refused == MaxVideos + 1

Reply == 0 .. Refused

Occupied == {v \in Video : w[v] \in {"clean", "lookup", "sent", "tag", "await"}}

TypeOK ==
  /\ lib \in Seq(VideoRecord)
  /\ net \subseteq [v: Video, run: 0 .. MaxRuns]
  /\ journal \in [ents: Entries, status: RunStatus]
  /\ epoch \in Nat \ {0}
  /\ service \in Seq([snap: Seq(VideoRecord), index: [Video -> Nat]])
  /\ runs \in 0 .. MaxRuns
  /\ faults \in 0 .. MaxCrashes
  /\ pc \in Phase
  /\ opt \in OptionRecord
  /\ cached \in BOOLEAN
  /\ aborted \in BOOLEAN
  /\ snap \in Seq(VideoRecord)
  /\ index \in [Video -> Nat]
  /\ scope \subseteq Video
  /\ mem \in Entries
  /\ todo \subseteq Video
  /\ w \in [Video -> WorkerState]
  /\ reply \in [Video -> Nat]

NoIndex == [v \in Video |-> 0]

Quiet == [resume |-> FALSE, clean |-> FALSE, retry |-> FALSE, wait |-> FALSE, folder |-> None]

Init ==
  /\ lib = << >> /\ net = {} /\ epoch = 1 /\ service = << >> /\ runs = 0 /\ faults = 0
  /\ journal = [ents |-> NoEntries, status |-> "none"]
  /\ pc = "idle" /\ opt = Quiet /\ cached = FALSE /\ aborted = FALSE
  /\ snap = << >> /\ index = NoIndex /\ scope = {} /\ mem = NoEntries
  /\ todo = {} /\ w = [v \in Video |-> "idle"] /\ reply = NoIndex

Flush(ents, status) == journal' = [ents |-> ents, status |-> status]

(* The run is over, however it ended: its lock is released and what it held in memory is gone. *)
Over ==
  /\ pc' = "idle" /\ opt' = Quiet /\ cached' = FALSE /\ aborted' = FALSE
  /\ snap' = << >> /\ index' = NoIndex /\ scope' = {} /\ mem' = NoEntries
  /\ todo' = {} /\ w' = [v \in Video |-> "idle"] /\ reply' = NoIndex

Resumed == opt.resume /\ journal.status \notin {"none", "completed"}

InFolder == IF opt.folder = None THEN Video ELSE scope

-----------------------------------------------------------------------------
(* Starting a run, and the passes before anything is queued. *)

(* getSummary on a service the host keeps: the index it loads is never loaded again. *)
GetSummary ==
  /\ Summaries /\ pc = "idle" /\ service = << >>
  /\ \E idx \in SourceIndexes(lib) : service' = <<[snap |-> lib, index |-> idx]>>
  /\ UNCHANGED <<lib, net, journal, epoch, runs, faults, volatile>>

(* runMigration up to its first await, on a fresh service or on the summarised one. *)
StartRun ==
  /\ pc = "idle" /\ runs < MaxRuns
  /\ pc' = "loading" /\ runs' = runs + 1
  /\ opt' \in Options
  /\ \/ UNCHANGED <<service, cached, snap, index>>
     \/ /\ service # << >>
        /\ cached' = TRUE /\ snap' = service[1].snap /\ index' = service[1].index
        /\ service' = << >>
  /\ UNCHANGED <<lib, net, journal, epoch, faults, aborted, scope, mem, todo, w, reply>>

(* Discovery and the library listing, then the recovery pass that follows them without an await. *)
LoadIndex ==
  /\ pc = "loading" /\ ~aborted
  /\ LateLanding \/ net = {}
  /\ \/ cached /\ UNCHANGED <<snap, index>>
     \/ ~cached /\ snap' = lib /\ index' \in SourceIndexes(lib)
  /\ \E listed \in Listings :
       scope' = {v \in listed : opt.folder = None \/ FolderOf[v] = opt.folder}
  /\ mem' = IF Resumed
            THEN RecoverLostFetches(snap', RequeueFailed(journal.ents,
                   IF opt.folder = None THEN Video ELSE scope', opt.clean))
            ELSE AdoptOrphans(snap', index', journal.ents)
  /\ pc' = "collections"
  /\ UNCHANGED <<durable, opt, cached, aborted, todo, w, reply>>

(* Discovery or the listing failed, or the run was paused by then: nothing is saved. *)
LoadFails == pc = "loading" /\ Over /\ UNCHANGED durable

(* One collection created and saved. *)
CollectionReady ==
  /\ pc = "collections"
  /\ Flush(mem, "in_progress")
  /\ UNCHANGED <<lib, net, epoch, service, runs, faults, volatile>>

(* The catch of runMigration: an error outside the per-video work ends the run. *)
RunFails ==
  /\ Flush(mem, IF aborted THEN "paused" ELSE "failed")
  /\ Over
  /\ UNCHANGED <<lib, net, epoch, service, runs, faults>>

CollectionsFail == pc = "collections" /\ RunFails

(* Every collection is there: entries are added for what the source lists, and reconciling begins. *)
Prepare ==
  /\ pc = "collections"
  /\ mem' = PrepareEntries(mem, scope)
  /\ Flush(mem', "in_progress")
  /\ todo' = Present(mem')
  /\ pc' = "reconcile"
  /\ UNCHANGED <<lib, net, epoch, service, runs, faults, opt, cached, aborted, snap, index,
                 scope, w, reply>>

(* Mutant: an unfinished copy is not asked how long it has been stuck. *)
UnfinishedToRetry(v) ==
  /\ opt.retry
  /\ mem[v].status \notin {"completed", "failed"}
  /\ index[v] # 0 /\ InProgress(snap[index[v]].health)

StalledToRetry(v) ==
  /\ opt.retry
  /\ mem[v].status \notin {"completed", "failed"}
  /\ index[v] # 0 /\ snap[index[v]].health = "stalled"

ReconcileEntry(v) ==
  /\ pc = "reconcile" /\ v \in todo /\ ~StalledToRetry(v)
  /\ mem' = [mem EXCEPT ![v] = Reconciled(snap, @, index[v], opt.clean)]
  /\ todo' = todo \ {v}
  /\ UNCHANGED <<durable, pc, opt, cached, aborted, snap, index, scope, w, reply>>

(* deleteVideo, answered or already gone. *)
Delete(g) == lib' = [lib EXCEPT ![g].health = "gone"]

DeleteStalled(v) ==
  /\ pc = "reconcile" /\ v \in todo /\ StalledToRetry(v) /\ ~aborted
  /\ Delete(index[v])
  /\ mem' = [mem EXCEPT ![v] = StalledDeleted(@)]
  /\ todo' = todo \ {v}
  /\ UNCHANGED <<net, journal, epoch, service, runs, faults, pc, opt, cached, aborted, snap,
                 index, scope, w, reply>>

(* The delete was refused, or its answer was lost after Bunny carried it out. *)
DeleteStalledFails(v) ==
  /\ pc = "reconcile" /\ v \in todo /\ StalledToRetry(v)
  /\ UNCHANGED lib \/ Delete(index[v])
  /\ Flush(mem, IF aborted THEN "paused" ELSE "failed")
  /\ Over
  /\ UNCHANGED <<net, epoch, service, runs, faults>>

(* Mutant: a folder run queues whatever the journal holds. *)
AnyScope(v) == v \in Present(mem)

(* Only the run's folder is imported, but a video Bunny already has is re-tagged wherever it is from. *)
Scoped(v) == v \in InFolder \/ mem[v].vid # 0

BeginQueue ==
  /\ pc = "reconcile" /\ todo = {}
  /\ Flush(mem, "in_progress")
  /\ todo' = {v \in Present(mem) : Scoped(v) /\ NeedsQueueing(index, mem[v])}
  /\ pc' = "queue"
  /\ UNCHANGED <<lib, net, epoch, service, runs, faults, opt, cached, aborted, snap, index,
                 scope, mem, w, reply>>

-----------------------------------------------------------------------------
(* One video's worker: queueVideo, startFetch and tagVideo. *)

(* A worker's step that ends in a flush: the entry becomes e, the worker goes to state s. *)
WorkerSaves(v, e, s) ==
  /\ mem' = [mem EXCEPT ![v] = e]
  /\ Flush(mem', "in_progress")
  /\ w' = [w EXCEPT ![v] = s]

Failed(e) == [e EXCEPT !.status = "failed"]

Fetching(e) == [e EXCEPT !.status = "fetching", !.attempts = @ + 1]

InPool == <<epoch, service, runs, faults, pc, opt, cached, aborted, snap, index, scope>>

CanPick(v) == v \in todo /\ ~aborted /\ Cardinality(Occupied) < Concurrency

(* Interrupted between fetch and tag last time: only the tag is left to write. *)
PickForTag(v) ==
  /\ pc = "queue" /\ CanPick(v)
  /\ mem[v].status = "processing" /\ mem[v].vid # 0
  /\ w' = [w EXCEPT ![v] = "tag"]
  /\ todo' = todo \ {v}
  /\ UNCHANGED <<lib, net, journal, mem, reply, InPool>>

PickForFetch(v) ==
  /\ pc = "queue" /\ CanPick(v)
  /\ ~(mem[v].status = "processing" /\ mem[v].vid # 0)
  /\ todo' = todo \ {v}
  /\ IF opt.clean /\ DeadCopies(snap, v) # {}
     THEN /\ w' = [w EXCEPT ![v] = "clean"]
          /\ UNCHANGED <<mem, journal>>
     ELSE WorkerSaves(v, Fetching(mem[v]), "lookup")
  /\ UNCHANGED <<lib, net, reply, InPool>>

(* cleanFailed: the next dead copy is deleted; after the last the fetch starts. *)
DeleteDeadCopy(v) ==
  /\ w[v] = "clean"
  /\ \E g \in DeadCopies(snap, v) :
       /\ lib[g].health # "gone"
       /\ Delete(g)
  /\ UNCHANGED <<net, journal, mem, todo, w, reply, InPool>>

CleanDone(v) ==
  /\ w[v] = "clean"
  /\ \A g \in DeadCopies(snap, v) : lib[g].health = "gone"
  /\ WorkerSaves(v, Fetching(mem[v]), "lookup")
  /\ UNCHANGED <<lib, net, todo, reply, InPool>>

(* Mutant: the fetch is sent first and journaled with its answer. *)
SendFetchUnsaved(v) ==
  /\ w[v] = "lookup" /\ ~aborted
  /\ mem' = [mem EXCEPT ![v].pending = epoch]
  /\ w' = [w EXCEPT ![v] = "sent"]
  /\ net' = net \cup {[v |-> v, run |-> runs]}
  /\ UNCHANGED <<lib, journal, todo, reply, InPool>>

(* The source gave a URL: the fetch is journaled, then sent. *)
SendFetch(v) ==
  /\ w[v] = "lookup" /\ ~aborted
  /\ WorkerSaves(v, [mem[v] EXCEPT !.pending = epoch], "sent")
  /\ net' = net \cup {[v |-> v, run |-> runs]}
  /\ UNCHANGED <<lib, todo, reply, InPool>>

(* A pause before anything reached Bunny leaves the entry pending. *)
PausedBeforeFetch(v) ==
  /\ w[v] \in {"clean", "lookup"} /\ aborted
  /\ mem[v].vid = 0 /\ mem[v].pending = 0
  /\ WorkerSaves(v, [mem[v] EXCEPT !.status = "pending"], "idle")
  /\ UNCHANGED <<lib, net, todo, reply, InPool>>

(* A dead copy could not be deleted, the source lookup failed, or the tag was not written (or its answer was lost). *)
WorkFails(v) ==
  /\ w[v] \in {"clean", "lookup", "tag"}
  /\ ~aborted \/ mem[v].vid # 0 \/ mem[v].pending # 0
  /\ \/ UNCHANGED lib
     \/ w[v] = "clean" /\ \E g \in DeadCopies(snap, v) : Delete(g)
     \/ w[v] = "tag" /\ lib[mem[v].vid].health # "gone"
        /\ lib' = [lib EXCEPT ![mem[v].vid].tag = v]
  /\ WorkerSaves(v, Failed(mem[v]), "idle")
  /\ UNCHANGED <<net, todo, reply, InPool>>

(* Bunny's answer names the video: it is journaled before anything else happens. *)
FetchAnswered(v) ==
  /\ w[v] \in {"sent", "late"} /\ reply[v] \notin {0, Refused}
  /\ WorkerSaves(v, [mem[v] EXCEPT !.pending = 0, !.vid = reply[v], !.status = "processing"],
                 IF w[v] = "sent" THEN "tag" ELSE "idle")
  /\ reply' = [reply EXCEPT ![v] = 0]
  /\ UNCHANGED <<lib, net, todo, InPool>>

(* Bunny refused: no video exists. *)
FetchRefused(v) ==
  /\ w[v] = "sent" /\ reply[v] = Refused
  /\ WorkerSaves(v, [mem[v] EXCEPT !.pending = 0,
                                  !.status = IF aborted /\ mem[v].vid = 0
                                              THEN "pending" ELSE "failed"], "idle")
  /\ reply' = [reply EXCEPT ![v] = 0]
  /\ UNCHANGED <<lib, net, todo, InPool>>

(* A timeout, a 5xx, a dropped connection or an answer with no ID: whether Bunny has the video is unknown. *)
FetchIndeterminate(v) ==
  /\ w[v] = "sent"
  /\ WorkerSaves(v, Failed(mem[v]), "idle")
  /\ reply' = [reply EXCEPT ![v] = 0]
  /\ UNCHANGED <<lib, net, todo, InPool>>

TagWritten(v) ==
  /\ w[v] = "tag" /\ lib[mem[v].vid].health # "gone"
  /\ lib' = [lib EXCEPT ![mem[v].vid].tag = v]
  /\ WorkerSaves(v, mem[v], "idle")
  /\ UNCHANGED <<net, todo, reply, InPool>>

(* withTimeout: the entry fails at once; the work it abandons may still hear from Bunny. *)
Timeout(v) ==
  /\ w[v] \in {"clean", "lookup", "sent", "tag", "await"}
  /\ w[v] = "await" => ~aborted
  /\ faults < MaxCrashes /\ faults' = faults + 1
  /\ WorkerSaves(v, Failed(mem[v]),
                 CASE w[v] = "sent" -> "late" [] w[v] = "tag" -> "latetag" [] OTHER -> "idle")
  /\ UNCHANGED <<lib, net, todo, reply, epoch, service, runs, pc, opt, cached, aborted, snap,
                 index, scope>>

(* An update Bunny had already received when its caller timed out. *)
LateTag(v) ==
  /\ w[v] = "latetag" /\ lib[mem[v].vid].health # "gone"
  /\ lib' = [lib EXCEPT ![mem[v].vid].tag = v]
  /\ w' = [w EXCEPT ![v] = "idle"]
  /\ UNCHANGED <<net, journal, mem, todo, reply, InPool>>

-----------------------------------------------------------------------------
(* The wait phase. *)

BeginWait ==
  /\ pc = "queue" /\ Occupied = {} /\ todo = {} /\ opt.wait /\ ~aborted
  /\ todo' = {v \in Present(mem) :
                /\ mem[v].status = "processing" /\ mem[v].vid # 0
                /\ v \in InFolder \/ FolderOf[v] = opt.folder}
  /\ pc' = "wait"
  /\ UNCHANGED <<durable, opt, cached, aborted, snap, index, scope, mem, w, reply>>

PickForWait(v) ==
  /\ pc = "wait" /\ CanPick(v)
  /\ w' = [w EXCEPT ![v] = "await"]
  /\ todo' = todo \ {v}
  /\ UNCHANGED <<lib, net, journal, mem, reply, InPool>>

(* The poll's answer: finished, failed, or gone from the library. *)
Encoded(v) ==
  LET h == lib[mem[v].vid].health
  IN  /\ w[v] = "await" /\ ~aborted
      /\ ~InProgress(h)
      /\ WorkerSaves(v, IF h = "finished" THEN [mem[v] EXCEPT !.status = "completed"]
                        ELSE Failed([mem[v] EXCEPT !.permanent = @ \/ h = "rejected"]), "idle")
      /\ UNCHANGED <<lib, net, todo, reply, InPool>>

(* The processing timeout, or one poll error too many. *)
WaitFails(v) ==
  /\ w[v] = "await" /\ ~aborted
  /\ WorkerSaves(v, Failed(mem[v]), "idle")
  /\ UNCHANGED <<lib, net, todo, reply, InPool>>

WaitPaused(v) ==
  /\ w[v] = "await" /\ aborted
  /\ w' = [w EXCEPT ![v] = "idle"]
  /\ UNCHANGED <<lib, net, journal, mem, todo, reply, InPool>>

(* Mutant: a paused run waits for videos nobody will pick up. *)
FinishAll ==
  /\ pc \in {"queue", "wait"} /\ (pc = "queue" => ~opt.wait)
  /\ Occupied = {} /\ todo = {}
  /\ Flush(mem, OverallStatus(mem))
  /\ Over
  /\ UNCHANGED <<lib, net, epoch, service, runs, faults>>

(* The pools are done: entries gone at the source fail, and the run's status is saved. *)
Finish ==
  /\ \/ pc = "queue" /\ (aborted \/ ~opt.wait)
     \/ pc = "wait"
  /\ Occupied = {} /\ (aborted \/ todo = {})
  /\ IF aborted THEN Flush(mem, "paused")
     ELSE LET ents == FailGone(mem, GoneAtSource(mem, scope, opt.folder))
          IN  Flush(ents, OverallStatus(ents))
  /\ Over
  /\ UNCHANGED <<lib, net, epoch, service, runs, faults>>

-----------------------------------------------------------------------------
(* The host, Bunny and the world. *)

Abort ==
  /\ pc # "idle" /\ ~aborted
  /\ aborted' = TRUE
  /\ UNCHANGED <<durable, pc, opt, cached, snap, index, scope, mem, todo, w, reply>>

Crash ==
  /\ pc # "idle" /\ faults < MaxCrashes
  /\ faults' = faults + 1
  /\ Over
  /\ UNCHANGED <<lib, net, journal, epoch, service, runs>>

(* `stream import status`: it holds the lock, so no run is under way. *)
RefreshStatus ==
  /\ pc = "idle" /\ journal.status # "none"
  /\ LET ents == Refresh(lib, journal.ents) IN Flush(ents, OverallStatus(ents))
  /\ UNCHANGED <<lib, net, epoch, service, runs, faults, volatile>>

NewVideo(src, title) ==
  lib' = Append(lib, [src |-> src, tag |-> None, title |-> title,
                      health |-> "processing", at |-> epoch])

Awaited(f) == f.run = runs /\ w[f.v] \in {"sent", "late"}

(* Bunny handles a fetch request: it creates the video and answers with its GUID. *)
Land(f) ==
  /\ f \in net /\ Len(lib) < MaxVideos
  /\ NewVideo(f.v, TitleOf[f.v])
  /\ net' = net \ {f}
  /\ reply' = IF Awaited(f) THEN [reply EXCEPT ![f.v] = Len(lib) + 1] ELSE reply
  /\ UNCHANGED <<journal, epoch, service, runs, faults, pc, opt, cached, aborted, snap, index,
                 scope, mem, todo, w>>

(* Bunny refuses it, or it never arrives. *)
NotLanded(f) ==
  /\ f \in net
  /\ net' = net \ {f}
  /\ reply' \in {reply} \cup (IF Awaited(f) THEN {[reply EXCEPT ![f.v] = Refused]} ELSE {})
  /\ UNCHANGED <<lib, journal, epoch, service, runs, faults, pc, opt, cached, aborted, snap,
                 index, scope, mem, todo, w>>

Progress(g) ==
  /\ \E h \in Health : <<lib[g].health, h>> \in HealthSteps /\ lib' = [lib EXCEPT ![g].health = h]
  /\ UNCHANGED <<net, journal, epoch, service, runs, faults, volatile>>

ForeignUpload ==
  /\ Len(lib) < MaxVideos
  /\ Cardinality({g \in DOMAIN lib : lib[g].src = None}) < MaxForeign
  /\ \E t \in ForeignTitles : NewVideo(None, t)
  /\ UNCHANGED <<net, journal, epoch, service, runs, faults, volatile>>

Tick ==
  /\ epoch < MaxEpoch /\ epoch' = epoch + 1
  /\ UNCHANGED <<lib, net, journal, service, runs, faults, volatile>>

-----------------------------------------------------------------------------
WorkerStep(v) ==
  \/ PickForTag(v) \/ PickForFetch(v) \/ DeleteDeadCopy(v) \/ CleanDone(v)
  \/ SendFetch(v) \/ PausedBeforeFetch(v) \/ WorkFails(v)
  \/ FetchAnswered(v) \/ FetchRefused(v) \/ FetchIndeterminate(v) \/ TagWritten(v)
  \/ PickForWait(v) \/ Encoded(v) \/ WaitFails(v) \/ WaitPaused(v)

RunStep ==
  \/ LoadIndex \/ LoadFails \/ CollectionsFail \/ Prepare \/ BeginQueue \/ BeginWait \/ Finish
  \/ \E v \in Video : ReconcileEntry(v) \/ DeleteStalled(v) \/ DeleteStalledFails(v)
                      \/ WorkerStep(v)

World ==
  \/ Abort \/ Crash \/ RefreshStatus \/ GetSummary \/ ForeignUpload \/ Tick \/ CollectionReady
  \/ \E v \in Video : Timeout(v) \/ LateTag(v)
  \/ \E f \in net : Land(f) \/ NotLanded(f)
  \/ \E g \in DOMAIN lib : Progress(g)

Next == StartRun \/ RunStep \/ World

Spec == Init /\ [][Next]_vars

(* Every await of a run settles: requests carry timeouts and the worker loop keeps going. *)
FairSpec == Spec /\ WF_vars(RunStep)

-----------------------------------------------------------------------------
(* Properties. *)

Copies(v) == {g \in Listed(lib) : lib[g].src = v}

LiveCopies(v) == {g \in Copies(v) : ~IsDead(lib[g].health)}

(* Across runs, crashes, lost answers and pauses, a source video never has two working copies in Bunny (README, "De-duplicate"). *)
NoDuplicate == \A v \in Video : Cardinality(LiveCopies(v)) <= 1

(* A video the import created and has not tagged yet can be found again from the journal on disk: its entry records the GUID, or an outstanding fetch. *)
Recoverable ==
  \A v \in Video : \A g \in Copies(v) :
     lib[g].tag = None => journal.ents[v].vid = g \/ journal.ents[v].pending # 0

(* No fetch is sent before the journal on disk says so: whenever a worker waits for Bunny's answer, an outstanding fetch is saved. *)
WriteAhead ==
  \A v \in Video :
     w[v] = "sent" \/ (pc # "idle" /\ [v |-> v, run |-> runs] \in net)
       => journal.ents[v].pending # 0

(* While the pools run, the journal on disk holds what the run holds in memory, so a crash there loses nothing but in-flight answers. *)
JournalCurrent == pc \in {"queue", "wait"} => journal.ents = mem

(* The dedup tag never lies: a video tagged as a source video was created from it. *)
TruthfulTags == \A g \in DOMAIN lib : lib[g].tag # None => lib[g].tag = lib[g].src

(* An entry the journal calls completed records a video that Bunny finished (or that was removed since), whatever was retried, deleted or refreshed before. *)
CompletedIsFinished ==
  \A v \in Video : journal.ents[v].status = "completed" =>
     /\ journal.ents[v].vid \in DOMAIN lib
     /\ lib[journal.ents[v].vid].health \in {"finished", "gone"}

(* A fetch is sent only for a video Bunny does not already hold a working tagged copy of. *)
SkipsImported ==
  [][\A v \in Video : w[v] = "lookup" /\ w'[v] = "sent"
       => \A g \in Tagged(lib, v) : IsDead(lib[g].health) \/ lib[g].health = "stalled"]_vars

(* A folder run fetches nothing outside its folder, whatever the resumed journal holds. *)
ScopeRespected ==
  [][\A v \in Video : w[v] = "lookup" /\ w'[v] = "sent" /\ opt.folder # None => FolderOf[v] = opt.folder]_vars

(* Without cleanFailed, a video whose indexed copy Bunny rejected for good is not fetched again. *)
RejectedLeftAlone ==
  [][\A v \in Video : w[v] = "lookup" /\ w'[v] = "sent" /\ ~opt.clean /\ index[v] # 0
       => snap[index[v]].health # "rejected"]_vars

(* The engine deletes only copies that Bunny failed or holds stuck; nothing that plays is deleted by a run. *)
DeletesOnlyDead ==
  [][\A g \in DOMAIN lib :
       lib'[g].health = "gone" /\ lib[g].health # "gone"
         => IsDead(lib[g].health) \/ lib[g].health = "stalled"]_vars

(* Whatever Bunny and the source do, a run that started ends, and so releases the journal's lock. *)
RunEnds == pc # "idle" ~> pc = "idle"
=============================================================================
