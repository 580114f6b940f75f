---------------------------- MODULE ImportJournal ----------------------------
(***************************************************************************)
(* The pure part of the stream import engine: what a library listing means *)
(* for an import, and what each pass of a run does to the journal's        *)
(* entries.  Modelled from packages/stream-import/src (source-index.ts,    *)
(* status.ts and the synchronous passes of migration.ts).                  *)
(*                                                                         *)
(* A library is a sequence of video records; a video's GUID is its index   *)
(* and 0 stands for null, so a deleted video keeps its record with health  *)
(* "gone".  Journal entries are a function over all source videos; an      *)
(* entry the journal does not hold has status "absent".  Dates are epochs, *)
(* two moments in one epoch being within the five minute CLOCK_SKEW_MS of  *)
(* each other; epoch 0 stands for "no date".                               *)
(***************************************************************************)
EXTENDS Naturals, Sequences, FiniteSets

CONSTANTS
  Video,        \* the source's video IDs
  Title,        \* titles a video may carry
  TitleOf,      \* the title the source gives each video
  Folder,       \* source folders
  FolderOf,     \* the folder of each video, or None
  None,         \* no video, no folder
  MaxAttempts   \* MAX_IMPORT_ATTEMPTS

ASSUME JournalAssumption ==
  /\ TitleOf \in [Video -> Title]
  /\ None \notin Video \cup Folder
  /\ FolderOf \in [Video -> Folder \cup {None}]
  /\ MaxAttempts \in Nat \ {0}

(* "stalled" is processing with no bytes past the stall threshold, "rejected" a failure that fetching again cannot fix. *)
Health == {"processing", "stalled", "finished", "failed", "rejected", "gone"}

VideoRecord == [src: Video \cup {None}, tag: Video \cup {None}, title: Title,
                health: Health, at: Nat]

EntryStatus == {"absent", "pending", "fetching", "processing", "completed", "failed"}

Entry == [status: EntryStatus, vid: Nat, pending: Nat, attempts: Nat, permanent: BOOLEAN]

NoEntry == [status |-> "absent", vid |-> 0, pending |-> 0, attempts |-> 0, permanent |-> FALSE]

NewEntry == [NoEntry EXCEPT !.status = "pending"]

Entries == [Video -> Entry]

NoEntries == [v \in Video |-> NoEntry]

RunStatus == {"none", "in_progress", "completed", "failed", "paused"}

-----------------------------------------------------------------------------
(* A listing of the library and the index built from it. *)

Listed(lib) == {g \in DOMAIN lib : lib[g].health # "gone"}

IsDead(h) == h \in {"failed", "rejected"}

InProgress(h) == h \in {"processing", "stalled"}

HealthRank(h) == IF h = "finished" THEN 0 ELSE IF InProgress(h) THEN 1 ELSE 2

Tagged(lib, v) == {g \in Listed(lib) : lib[g].tag = v}

Untagged(lib) == {g \in Listed(lib) : lib[g].tag = None}

(* Mutant: any tagged copy may be indexed, so a dead one can shadow the working one. *)
AnyTagged(lib, v) == Tagged(lib, v)

Healthiest(lib, v) ==
  {g \in Tagged(lib, v) :
     \A h \in Tagged(lib, v) : HealthRank(lib[g].health) <= HealthRank(lib[h].health)}

(* Every index a listing can give, one for each order the equals may be listed in. *)
SourceIndexes(lib) ==
  {idx \in [Video -> 0 .. Len(lib)] :
     \A v \in Video : IF Tagged(lib, v) = {} THEN idx[v] = 0 ELSE idx[v] \in Healthiest(lib, v)}

IsTagged(idx, g) == \E v \in Video : idx[v] = g

DeadCopies(lib, v) == {g \in Tagged(lib, v) : IsDead(lib[g].health)}

-----------------------------------------------------------------------------
(* Matching a fetch whose answer was never seen. *)

Present(ents) == {v \in Video : ents[v].status # "absent"}

Lost(ents) == {v \in Present(ents) : ents[v].vid = 0 /\ ents[v].pending # 0}

Claimed(ents) == {ents[v].vid : v \in Present(ents)}

AmbiguousTitles(ents) ==
  {TitleOf[v] : v \in {x \in Lost(ents) : \E y \in Lost(ents) \ {x} : TitleOf[x] = TitleOf[y]}}

(* Mutant: the title is not compared. *)
AnyUntagged(lib, ents, v) == {g \in Untagged(lib) \ Claimed(ents) : lib[g].at >= ents[v].pending}

LostFetchMatches(lib, ents, v) ==
  IF TitleOf[v] \in AmbiguousTitles(ents) THEN {}
  ELSE {g \in Untagged(lib) \ Claimed(ents) :
          lib[g].title = TitleOf[v] /\ lib[g].at >= ents[v].pending}

(* The one untagged video that fits, or 0. *)
FindLostFetch(lib, ents, v) ==
  LET matches == LostFetchMatches(lib, ents, v)
  IN  IF v \in Lost(ents) /\ \E g \in matches : matches = {g}
      THEN CHOOSE g \in matches : TRUE
      ELSE 0

-----------------------------------------------------------------------------
(* The passes a run makes over the entries before it queues anything. *)

GivenUp(e, clean) == ~clean /\ (e.permanent \/ e.attempts >= MaxAttempts)

RequeueFailed(ents, inFolder, clean) ==
  [v \in Video |->
     IF v \in inFolder /\ ents[v].status = "failed" /\ ~GivenUp(ents[v], clean)
     THEN [ents[v] EXCEPT !.status = IF ents[v].vid # 0 THEN "processing" ELSE "pending"]
     ELSE ents[v]]

(* Mutant: a resume forgets the fetches whose answer it never saw. *)
ForgetLostFetches(lib, ents) == [v \in Video |-> [ents[v] EXCEPT !.pending = 0]]

RecoverLostFetches(lib, ents) ==
  [v \in Video |->
     LET g == FindLostFetch(lib, ents, v)
     IN  IF v \in Lost(ents)
         THEN [ents[v] EXCEPT !.pending = 0,
                              !.vid = g,
                              !.status = IF g # 0 THEN "processing" ELSE @]
         ELSE ents[v]]

(* Mutant: a fresh run starts from nothing. *)
AdoptNothing(lib, idx, saved) == NoEntries

(* A fresh run keeps only what a dead run left in Bunny untagged. *)
AdoptOrphans(lib, idx, saved) ==
  [v \in Video |->
     LET g == IF saved[v].vid # 0 THEN saved[v].vid ELSE FindLostFetch(lib, saved, v)
     IN  IF v \in Present(saved) /\ g \in Listed(lib) /\ ~IsTagged(idx, g) /\ idx[v] = 0
         THEN [saved[v] EXCEPT !.pending = 0, !.vid = g, !.status = "processing"]
         ELSE NoEntry]

PrepareEntries(ents, scope) ==
  [v \in Video |-> IF v \in scope /\ ents[v].status = "absent" THEN NewEntry ELSE ents[v]]

(* Mutant: a copy Bunny rejected for good is fetched again. *)
ReconciledRetrying(lib, e, g, clean) ==
  IF e.status \in {"completed", "failed"} \/ g = 0 THEN e
  ELSE IF IsDead(lib[g].health) THEN [e EXCEPT !.vid = 0, !.status = "pending"]
  ELSE [e EXCEPT !.vid = g,
                 !.status = IF lib[g].health = "finished" THEN "completed" ELSE "processing"]

(* What reconcileWithBunny makes of an entry whose tagged video is g; a stalled one it deletes is StalledDeleted. *)
Reconciled(lib, e, g, clean) ==
  IF e.status \in {"completed", "failed"} \/ g = 0 THEN e
  ELSE CASE lib[g].health = "finished" ->
              [e EXCEPT !.vid = g, !.status = "completed"]
         [] InProgress(lib[g].health) ->
              [e EXCEPT !.vid = g, !.status = "processing"]
         [] lib[g].health = "rejected" /\ ~clean ->
              [e EXCEPT !.vid = g, !.status = "failed", !.permanent = TRUE]
         [] OTHER ->
              [e EXCEPT !.vid = 0, !.status = "pending"]

StalledDeleted(e) == [e EXCEPT !.vid = 0, !.status = "pending"]

NeedsQueueing(idx, e) ==
  \/ e.status \in {"pending", "fetching"}
  \/ e.status = "processing" /\ e.vid # 0 /\ ~IsTagged(idx, e.vid)

(* An entry the source no longer lists, in a scope the run discovered, that Bunny does not hold. *)
GoneAtSource(ents, scope, folder) ==
  {v \in Present(ents) \ scope :
     /\ ents[v].vid = 0
     /\ ents[v].status # "completed"
     /\ folder = None \/ FolderOf[v] = folder}

FailGone(ents, gone) ==
  [v \in Video |->
     IF v \in gone THEN [ents[v] EXCEPT !.status = "failed", !.permanent = TRUE] ELSE ents[v]]

OverallStatus(ents) ==
  LET statuses == {ents[v].status : v \in Present(ents)}
  IN  IF "failed" \in statuses THEN "failed"
      ELSE IF statuses \subseteq {"completed"} THEN "completed" ELSE "in_progress"

(* Mutant: the status command takes a video with no failure for a finished one. *)
RefreshOptimistic(lib, e) ==
  IF e.vid \in Listed(lib) /\ ~IsDead(lib[e.vid].health)
  THEN [e EXCEPT !.status = "completed"] ELSE e

(* The status command: each entry brought up to date with the video it records. *)
RefreshEntry(lib, e) ==
  IF e.vid = 0 THEN e
  ELSE IF e.vid \notin Listed(lib)
       THEN [e EXCEPT !.status = IF @ = "completed" THEN @ ELSE "failed"]
  ELSE LET h == lib[e.vid].health
       IN  CASE h = "finished" -> [e EXCEPT !.status = "completed"]
             [] IsDead(h) -> [e EXCEPT !.status = "failed", !.permanent = @ \/ h = "rejected"]
             [] OTHER -> [e EXCEPT !.status = IF @ = "completed" THEN @ ELSE "processing"]

Refresh(lib, ents) ==
  [v \in Video |-> IF v \in Present(ents) THEN RefreshEntry(lib, ents[v]) ELSE ents[v]]
=============================================================================
