------------------------- MODULE StreamImportProofs -------------------------
(***************************************************************************)
(* Proofs about StreamImport, for every number of videos, runs, crashes    *)
(* and every way Bunny may process a video.  Its state is well typed and   *)
(* no fetch is outstanding that the journal on disk does not record (IInv);*)
(* what a run knows of its entries and its index keeps folder runs in      *)
(* their folder and rejected videos alone (RunInv); entries and tags are   *)
(* about the video they name (TruthInv); listings of what Bunny is done    *)
(* with do not go stale (KeptIn); no video is fetched beside a working     *)
(* tagged copy (OneInv); and no source video gets two copies (CopyInv).    *)
(***************************************************************************)
EXTENDS StreamImport, SequenceTheorems, FiniteSetTheorems, TLAPS

-----------------------------------------------------------------------------
(* What the passes over the journal's entries and a library return: every pass keeps entries entries. *)

(* Changing the health of a video, or of no video, keeps a library a library. *)
LEMMA HealthType ==
  ASSUME NEW videos \in Seq(VideoRecord), NEW g, NEW h \in Health
  PROVE  [videos EXCEPT ![g].health = h] \in Seq(VideoRecord)
<1>1. CASE g \in 1 .. Len(videos)
  <2>1. videos[g] \in VideoRecord
    BY <1>1, ElementOfSeq
  <2>2. [videos[g] EXCEPT !.health = h] \in VideoRecord
    BY <2>1 DEF VideoRecord
  <2>3. QED
    BY <1>1, <2>2, ExceptSeq
<1>2. CASE g \notin 1 .. Len(videos)
  <2>1. [videos EXCEPT ![g].health = h] = videos
    BY <1>2, IsASeq, LenProperties
  <2>2. QED
    BY <2>1
<1>3. QED
  BY <1>1, <1>2

(* The same for the tag of a video. *)
LEMMA TagType ==
  ASSUME NEW videos \in Seq(VideoRecord), NEW g, NEW v \in Video
  PROVE  [videos EXCEPT ![g].tag = v] \in Seq(VideoRecord)
<1>1. CASE g \in 1 .. Len(videos)
  <2>1. videos[g] \in VideoRecord
    BY <1>1, ElementOfSeq
  <2>2. [videos[g] EXCEPT !.tag = v] \in VideoRecord
    BY <2>1 DEF VideoRecord
  <2>3. QED
    BY <1>1, <2>2, ExceptSeq
<1>2. CASE g \notin 1 .. Len(videos)
  <2>1. [videos EXCEPT ![g].tag = v] = videos
    BY <1>2, IsASeq, LenProperties
  <2>2. QED
    BY <2>1
<1>3. QED
  BY <1>1, <1>2

(* An index maps every source video to a number. *)
LEMMA IndexType ==
  ASSUME NEW videos \in Seq(VideoRecord), NEW idx \in SourceIndexes(videos)
  PROVE  idx \in [Video -> Nat]
BY LenProperties DEF SourceIndexes

(* A lost fetch is matched to a GUID or to 0. *)
LEMMA FindLostFetchType ==
  ASSUME NEW videos \in Seq(VideoRecord), NEW ents, NEW v
  PROVE  FindLostFetch(videos, ents, v) \in Nat
<1> DEFINE matches == LostFetchMatches(videos, ents, v)
<1>1. matches \subseteq Nat
  BY LenProperties DEF LostFetchMatches, Untagged, Listed
<1>2. CASE v \in Lost(ents) /\ \E g \in matches : matches = {g}
  <2>1. FindLostFetch(videos, ents, v) = CHOOSE g \in matches : TRUE
    BY <1>2 DEF FindLostFetch
  <2>2. QED
    BY <1>1, <1>2, <2>1
<1>3. CASE ~(v \in Lost(ents) /\ \E g \in matches : matches = {g})
  BY <1>3 DEF FindLostFetch
<1>4. QED
  BY <1>2, <1>3

(* Requeueing failed entries, on a resume. *)
LEMMA RequeueFailedType ==
  ASSUME NEW ents \in Entries, NEW inFolder, NEW clean
  PROVE  RequeueFailed(ents, inFolder, clean) \in Entries
BY DEF RequeueFailed, Entries, Entry, EntryStatus

(* Matching lost fetches, on a resume. *)
LEMMA RecoverLostFetchesType ==
  ASSUME NEW videos \in Seq(VideoRecord), NEW ents \in Entries
  PROVE  RecoverLostFetches(videos, ents) \in Entries
<1> SUFFICES ASSUME NEW v \in Video
             PROVE  RecoverLostFetches(videos, ents)[v] \in Entry
  BY DEF RecoverLostFetches, Entries
<1>1. ents[v] \in Entry
  BY DEF Entries
<1>2. FindLostFetch(videos, ents, v) \in Nat
  BY FindLostFetchType
<1>3. QED
  BY <1>1, <1>2 DEF RecoverLostFetches, Entry, EntryStatus

LEMMA NoEntryType == NoEntry \in Entry /\ NewEntry \in Entry /\ NoEntries \in Entries
BY DEF NoEntry, NewEntry, NoEntries, Entries, Entry, EntryStatus

(* Adopting orphans, on a fresh run. *)
LEMMA AdoptOrphansType ==
  ASSUME NEW videos \in Seq(VideoRecord), NEW idx, NEW saved \in Entries
  PROVE  AdoptOrphans(videos, idx, saved) \in Entries
<1> SUFFICES ASSUME NEW v \in Video
             PROVE  AdoptOrphans(videos, idx, saved)[v] \in Entry
  BY DEF AdoptOrphans, Entries
<1>1. saved[v] \in Entry
  BY DEF Entries
<1> DEFINE g == IF saved[v].vid # 0 THEN saved[v].vid ELSE FindLostFetch(videos, saved, v)
<1>2. g \in Nat
  BY <1>1, FindLostFetchType DEF Entry
<1>3. [saved[v] EXCEPT !.pending = 0, !.vid = g, !.status = "processing"] \in Entry
  <2> HIDE DEF g
  <2> QED BY <1>1, <1>2 DEF Entry, EntryStatus
<1>4. NoEntry \in Entry
  BY NoEntryType
<1>5. QED
  BY <1>3, <1>4 DEF AdoptOrphans

(* Adding an entry for everything the source lists. *)
LEMMA PrepareEntriesType ==
  ASSUME NEW ents \in Entries, NEW folder
  PROVE  PrepareEntries(ents, folder) \in Entries
BY NoEntryType DEF PrepareEntries, Entries

(* Reconciling one entry with the video its tag names. *)
LEMMA ReconciledType ==
  ASSUME NEW e \in Entry, NEW videos, NEW g \in Nat, NEW clean
  PROVE  Reconciled(videos, e, g, clean) \in Entry /\ StalledDeleted(e) \in Entry
BY DEF Reconciled, StalledDeleted, Entry, EntryStatus

(* Failing what the source no longer lists. *)
LEMMA FailGoneType ==
  ASSUME NEW ents \in Entries, NEW gone
  PROVE  FailGone(ents, gone) \in Entries
BY DEF FailGone, Entries, Entry, EntryStatus

LEMMA OverallStatusType ==
  ASSUME NEW ents
  PROVE  OverallStatus(ents) \in RunStatus
BY DEF OverallStatus, RunStatus

(* The status command's refresh. *)
LEMMA RefreshType ==
  ASSUME NEW videos, NEW ents \in Entries
  PROVE  Refresh(videos, ents) \in Entries
<1> SUFFICES ASSUME NEW v \in Video
             PROVE  Refresh(videos, ents)[v] \in Entry
  BY DEF Refresh, Entries
<1>1. ents[v] \in Entry
  BY DEF Entries
<1>2. RefreshEntry(videos, ents[v]) \in Entry
  <2> DEFINE e == ents[v]
  <2> HIDE DEF e
  <2>1. e \in Entry
    BY <1>1 DEF e
  <2>2. RefreshEntry(videos, e) \in Entry
    BY <2>1 DEF RefreshEntry, Entry, EntryStatus
  <2>3. QED
    BY <2>2 DEF e
<1>3. QED
  BY <1>1, <1>2 DEF Refresh

-----------------------------------------------------------------------------
USE JournalAssumption, ImportAssumption

(* Typing. *)

LEMMA InitTyped == Init => TypeOK
<1> SUFFICES ASSUME Init PROVE TypeOK
  OBVIOUS
<1>1. NoEntries \in Entries
  BY NoEntryType
<1>2. Quiet \in OptionRecord
  BY DEF Quiet, OptionRecord
<1>3. << >> \in Seq(VideoRecord) /\ << >> \in Seq([snap: Seq(VideoRecord), index: [Video -> Nat]])
  BY EmptySeq
<1>4. NoIndex \in [Video -> Nat]
  BY DEF NoIndex
<1>5. "idle" \in Phase /\ "none" \in RunStatus /\ [v \in Video |-> "idle"] \in [Video -> WorkerState]
  BY DEF Phase, RunStatus, WorkerState
<1>6. journal \in [ents: Entries, status: RunStatus] /\ mem \in Entries
  BY <1>1, <1>5 DEF Init
<1>7. epoch \in Nat \ {0} /\ runs \in 0 .. MaxRuns /\ faults \in 0 .. MaxCrashes /\ net = {}
  BY DEF Init
<1>8. /\ lib \in Seq(VideoRecord) /\ snap \in Seq(VideoRecord) /\ opt \in OptionRecord
      /\ service \in Seq([snap: Seq(VideoRecord), index: [Video -> Nat]])
      /\ index \in [Video -> Nat] /\ reply \in [Video -> Nat] /\ w \in [Video -> WorkerState]
  BY <1>2, <1>3, <1>4, <1>5 DEF Init
<1>9. pc \in Phase /\ cached \in BOOLEAN /\ aborted \in BOOLEAN /\ scope \subseteq Video /\ todo \subseteq Video
  BY <1>5 DEF Init
<1>10. QED
  BY <1>6, <1>7, <1>8, <1>9 DEF TypeOK

(* What a run holds in memory is well typed once it is over. *)
LEMMA OverTyped ==
  ASSUME Over
  PROVE  /\ pc' \in Phase /\ opt' \in OptionRecord /\ cached' \in BOOLEAN /\ aborted' \in BOOLEAN
         /\ snap' \in Seq(VideoRecord) /\ index' \in [Video -> Nat] /\ scope' \subseteq Video
         /\ mem' \in Entries /\ todo' \subseteq Video /\ w' \in [Video -> WorkerState]
         /\ reply' \in [Video -> Nat]
<1>1. NoEntries \in Entries
  BY NoEntryType
<1>2. Quiet \in OptionRecord
  BY DEF Quiet, OptionRecord
<1>3. << >> \in Seq(VideoRecord)
  BY EmptySeq
<1>4. QED
  BY <1>1, <1>2, <1>3 DEF Over, Phase, NoIndex, WorkerState

(* A save keeps the journal well typed. *)
LEMMA FlushTyped ==
  ASSUME NEW ents \in Entries, NEW status \in RunStatus, Flush(ents, status)
  PROVE  journal' \in [ents: Entries, status: RunStatus]
BY DEF Flush

(* A worker's save keeps what it touches well typed. *)
LEMMA WorkerSavesTyped ==
  ASSUME TypeOK, NEW v \in Video, NEW e \in Entry, NEW s \in WorkerState, WorkerSaves(v, e, s)
  PROVE  /\ mem' \in Entries
         /\ journal' \in [ents: Entries, status: RunStatus]
         /\ w' \in [Video -> WorkerState]
<1>1. mem' \in Entries
  BY DEF TypeOK, Entries, WorkerSaves
<1>2. w' \in [Video -> WorkerState]
  BY DEF TypeOK, WorkerSaves
<1>3. QED
  BY <1>1, <1>2, FlushTyped DEF WorkerSaves, RunStatus

(* A new video of a legal source keeps the library a library. *)
LEMMA NewVideoTyped ==
  ASSUME TypeOK, NEW src \in Video \cup {None}, NEW title \in Title, NewVideo(src, title)
  PROVE  lib' \in Seq(VideoRecord)
<1>1. [src |-> src, tag |-> None, title |-> title, health |-> "processing", at |-> epoch]
        \in VideoRecord
  BY DEF VideoRecord, Health, TypeOK
<1>2. QED
  BY <1>1, AppendProperties DEF NewVideo, TypeOK

(* An entry stays an entry under each of the changes a worker makes to it. *)
LEMMA WorkerEntries ==
  ASSUME NEW e \in Entry
  PROVE  /\ Failed(e) \in Entry /\ Fetching(e) \in Entry
         /\ [e EXCEPT !.status = "pending"] \in Entry
         /\ [e EXCEPT !.status = "completed"] \in Entry
         /\ \A n \in Nat : [e EXCEPT !.pending = n] \in Entry
         /\ \A n \in Nat : [e EXCEPT !.pending = 0, !.vid = n, !.status = "processing"] \in Entry
         /\ \A s \in EntryStatus : [e EXCEPT !.pending = 0, !.status = s] \in Entry
         /\ \A b \in BOOLEAN : Failed([e EXCEPT !.permanent = b]) \in Entry
<1>1. Failed(e) \in Entry /\ Fetching(e) \in Entry
  <2>1. Failed(e) \in Entry
    BY DEF Failed, Entry, EntryStatus
  <2>2. e.attempts + 1 \in Nat
    BY DEF Entry
  <2>3. Fetching(e) \in Entry
    BY <2>2 DEF Fetching, Entry, EntryStatus
  <2>4. QED
    BY <2>1, <2>3
<1>2. [e EXCEPT !.status = "pending"] \in Entry /\ [e EXCEPT !.status = "completed"] \in Entry
  BY DEF Entry, EntryStatus
<1>3. ASSUME NEW n \in Nat PROVE [e EXCEPT !.pending = n] \in Entry
  BY DEF Entry
<1>4. ASSUME NEW n \in Nat
      PROVE  [e EXCEPT !.pending = 0, !.vid = n, !.status = "processing"] \in Entry
  BY DEF Entry, EntryStatus
<1>5. ASSUME NEW s \in EntryStatus PROVE [e EXCEPT !.pending = 0, !.status = s] \in Entry
  BY DEF Entry
<1>6. ASSUME NEW b \in BOOLEAN PROVE Failed([e EXCEPT !.permanent = b]) \in Entry
  BY DEF Failed, Entry, EntryStatus
<1>7. QED
  BY <1>1, <1>2, <1>3, <1>4, <1>5, <1>6

(* Deleting a video keeps the library a library. *)
LEMMA DeleteTyped ==
  ASSUME TypeOK
  PROVE  \A g : Delete(g) => lib' \in Seq(VideoRecord)
<1> TAKE g
<1>1. "gone" \in Health /\ lib \in Seq(VideoRecord)
  BY DEF Health, TypeOK
<1>2. [lib EXCEPT ![g].health = "gone"] \in Seq(VideoRecord)
  BY <1>1, HealthType
<1>3. QED
  BY <1>2 DEF Delete

(* Every step of the run outside its workers, of the host and of Bunny keeps the state well typed. *)
LEMMA StartTyped == TypeOK /\ (GetSummary \/ StartRun \/ LoadIndex \/ LoadFails) => TypeOK'
<1> SUFFICES ASSUME TypeOK, GetSummary \/ StartRun \/ LoadIndex \/ LoadFails PROVE TypeOK'
  OBVIOUS
<1>1. CASE GetSummary
  <2>1. PICK idx \in SourceIndexes(lib) : service' = <<[snap |-> lib, index |-> idx]>>
    BY <1>1 DEF GetSummary
  <2>2. [snap |-> lib, index |-> idx] \in [snap: Seq(VideoRecord), index: [Video -> Nat]]
    BY IndexType DEF TypeOK
  <2>3. service' \in Seq([snap: Seq(VideoRecord), index: [Video -> Nat]])
    BY <2>1, <2>2
  <2>4. QED
    BY <1>1, <2>3 DEF TypeOK, GetSummary, volatile
<1>2. CASE StartRun
  <2>1. runs' \in 0 .. MaxRuns /\ pc' \in Phase /\ opt' \in OptionRecord
    BY <1>2 DEF StartRun, TypeOK, Phase
  <2>2. /\ service' \in Seq([snap: Seq(VideoRecord), index: [Video -> Nat]])
        /\ cached' \in BOOLEAN /\ snap' \in Seq(VideoRecord) /\ index' \in [Video -> Nat]
    <3>1. CASE UNCHANGED <<service, cached, snap, index>>
      BY <3>1 DEF TypeOK
    <3>2. CASE /\ service # << >>
               /\ cached' = TRUE /\ snap' = service[1].snap /\ index' = service[1].index
               /\ service' = << >>
      <4>1. service[1] \in [snap: Seq(VideoRecord), index: [Video -> Nat]]
        <5> DEFINE S == [snap: Seq(VideoRecord), index: [Video -> Nat]]
        <5> HIDE DEF S
        <5>1. service \in Seq(S)
          BY DEF TypeOK, S
        <5>2. Len(service) \in Nat /\ Len(service) # 0
          BY <3>2, <5>1, EmptySeq, LenProperties
        <5>3. service[1] \in S
          BY <5>1, <5>2, ElementOfSeq
        <5>4. QED
          BY <5>3 DEF S
      <4>2. QED
        BY <3>2, <4>1, EmptySeq
    <3>3. QED
      BY <1>2, <3>1, <3>2 DEF StartRun
  <2>3. QED
    BY <1>2, <2>1, <2>2 DEF TypeOK, StartRun
<1>3. CASE LoadIndex
  <2>1. snap' \in Seq(VideoRecord) /\ index' \in [Video -> Nat]
    BY <1>3, IndexType DEF LoadIndex, TypeOK
  <2>2. scope' \subseteq Video
    BY <1>3 DEF LoadIndex
  <2>3. mem' \in Entries
    BY <1>3, <2>1, RequeueFailedType, RecoverLostFetchesType, AdoptOrphansType DEF LoadIndex, TypeOK
  <2>4. QED
    BY <1>3, <2>1, <2>2, <2>3 DEF LoadIndex, TypeOK, Phase, durable
<1>4. CASE LoadFails
  BY <1>4, OverTyped DEF LoadFails, TypeOK, durable
<1>5. QED
  BY <1>1, <1>2, <1>3, <1>4

LEMMA PassesTyped ==
  TypeOK /\ (CollectionReady \/ CollectionsFail \/ Prepare \/ BeginQueue \/ BeginWait \/ Finish) => TypeOK'
<1> SUFFICES ASSUME TypeOK, CollectionReady \/ CollectionsFail \/ Prepare \/ BeginQueue \/ BeginWait \/ Finish
             PROVE  TypeOK'
  OBVIOUS
<1>1. CASE CollectionReady
  BY <1>1, FlushTyped DEF CollectionReady, RunStatus, TypeOK, volatile
<1>2. CASE CollectionsFail
  <2>1. journal' \in [ents: Entries, status: RunStatus]
    BY <1>2, FlushTyped DEF CollectionsFail, RunFails, RunStatus, TypeOK
  <2>2. QED
    BY <1>2, <2>1, OverTyped DEF CollectionsFail, RunFails, TypeOK
<1>3. CASE Prepare
  <2>1. mem' \in Entries
    BY <1>3, PrepareEntriesType DEF Prepare, TypeOK
  <2>2. journal' \in [ents: Entries, status: RunStatus]
    BY <1>3, <2>1, FlushTyped DEF Prepare, RunStatus
  <2>3. todo' \subseteq Video
    BY <1>3 DEF Prepare, Present
  <2>4. QED
    BY <1>3, <2>1, <2>2, <2>3 DEF Prepare, TypeOK, Phase
<1>4. CASE BeginQueue
  <2>1. journal' \in [ents: Entries, status: RunStatus]
    BY <1>4, FlushTyped DEF BeginQueue, RunStatus, TypeOK
  <2>2. todo' \subseteq Video
    BY <1>4 DEF BeginQueue, Present
  <2>3. QED
    BY <1>4, <2>1, <2>2 DEF BeginQueue, TypeOK, Phase
<1>5. CASE BeginWait
  <2>1. todo' \subseteq Video
    BY <1>5 DEF BeginWait, Present
  <2>2. QED
    BY <1>5, <2>1 DEF BeginWait, TypeOK, Phase, durable
<1>6. CASE Finish
  <2>1. journal' \in [ents: Entries, status: RunStatus]
    <3>1. CASE aborted
      BY <1>6, <3>1, FlushTyped DEF Finish, RunStatus, TypeOK
    <3>2. CASE ~aborted
      BY <1>6, <3>2, FlushTyped, FailGoneType, OverallStatusType DEF Finish, TypeOK
    <3>3. QED
      BY <3>1, <3>2
  <2>2. QED
    BY <1>6, <2>1, OverTyped DEF Finish, TypeOK
<1>7. QED
  BY <1>1, <1>2, <1>3, <1>4, <1>5, <1>6

LEMMA ReconcileTyped ==
  ASSUME TypeOK, NEW v \in Video, ReconcileEntry(v) \/ DeleteStalled(v) \/ DeleteStalledFails(v)
  PROVE  TypeOK'
<1>1. mem[v] \in Entry /\ index[v] \in Nat
  BY DEF TypeOK, Entries
<1>2. Delete(index[v]) => lib' \in Seq(VideoRecord)
  BY DeleteTyped
<1>3. CASE ReconcileEntry(v)
  <2>1. mem' \in Entries
    BY <1>1, <1>3, ReconciledType DEF ReconcileEntry, TypeOK, Entries
  <2>2. QED
    BY <1>3, <2>1 DEF ReconcileEntry, TypeOK, durable
<1>4. CASE DeleteStalled(v)
  <2>1. mem' \in Entries
    BY <1>1, <1>4, ReconciledType DEF DeleteStalled, TypeOK, Entries
  <2>2. QED
    BY <1>2, <1>4, <2>1 DEF DeleteStalled, TypeOK
<1>5. CASE DeleteStalledFails(v)
  <2>1. journal' \in [ents: Entries, status: RunStatus]
    BY <1>5, FlushTyped DEF DeleteStalledFails, RunStatus, TypeOK
  <2>2. lib' \in Seq(VideoRecord)
    BY <1>2, <1>5 DEF DeleteStalledFails, TypeOK
  <2>3. QED
    BY <1>5, <2>1, <2>2, OverTyped DEF DeleteStalledFails, TypeOK
<1>6. QED
  BY <1>3, <1>4, <1>5

(* A step of one video's worker keeps the state well typed. *)
LEMMA WorkerTyped ==
  ASSUME TypeOK, NEW v \in Video, WorkerStep(v) \/ Timeout(v) \/ LateTag(v)
  PROVE  TypeOK'
<1>1. mem[v] \in Entry
  BY DEF TypeOK, Entries
<1>2. /\ Failed(mem[v]) \in Entry /\ Fetching(mem[v]) \in Entry
      /\ [mem[v] EXCEPT !.status = "pending"] \in Entry
      /\ [mem[v] EXCEPT !.status = "completed"] \in Entry
      /\ \A n \in Nat : [mem[v] EXCEPT !.pending = n] \in Entry
      /\ \A n \in Nat : [mem[v] EXCEPT !.pending = 0, !.vid = n, !.status = "processing"] \in Entry
      /\ \A s \in EntryStatus : [mem[v] EXCEPT !.pending = 0, !.status = s] \in Entry
      /\ \A b \in BOOLEAN : Failed([mem[v] EXCEPT !.permanent = b]) \in Entry
  BY <1>1, WorkerEntries
<1>3. \A s \in WorkerState : [w EXCEPT ![v] = s] \in [Video -> WorkerState]
  BY DEF TypeOK
<1>4. [reply EXCEPT ![v] = 0] \in [Video -> Nat]
  BY DEF TypeOK
<1>5. \A g : Delete(g) => lib' \in Seq(VideoRecord)
  BY DeleteTyped
<1>6. \A g : [lib EXCEPT ![g].tag = v] \in Seq(VideoRecord)
  BY TagType DEF TypeOK
<1>7. CASE PickForTag(v)
  BY <1>3, <1>7 DEF PickForTag, InPool, TypeOK, WorkerState
<1>8. CASE PickForFetch(v)
  <2>1. CASE opt.clean /\ DeadCopies(snap, v) # {}
    <3>1. w' = [w EXCEPT ![v] = "clean"] /\ UNCHANGED <<mem, journal>>
      BY <1>8, <2>1 DEF PickForFetch
    <3>2. w' \in [Video -> WorkerState]
      BY <1>3, <3>1 DEF WorkerState
    <3>3. todo' \subseteq Video /\ UNCHANGED <<lib, net, reply, InPool>>
      BY <1>8 DEF PickForFetch, TypeOK
    <3>4. QED
      BY <3>1, <3>2, <3>3 DEF InPool, TypeOK
  <2>2. CASE ~(opt.clean /\ DeadCopies(snap, v) # {})
    <3>1. WorkerSaves(v, Fetching(mem[v]), "lookup")
      BY <1>8, <2>2 DEF PickForFetch
    <3>2. "lookup" \in WorkerState
      BY DEF WorkerState
    <3>3. QED
      BY <1>2, <1>8, <3>1, <3>2, WorkerSavesTyped DEF PickForFetch, InPool, TypeOK
  <2>3. QED
    BY <2>1, <2>2
<1>9. CASE DeleteDeadCopy(v)
  BY <1>5, <1>9 DEF DeleteDeadCopy, InPool, TypeOK
<1>10. CASE CleanDone(v)
  <2>1. "lookup" \in WorkerState
    BY DEF WorkerState
  <2>2. QED
    BY <1>2, <1>10, <2>1, WorkerSavesTyped DEF CleanDone, InPool, TypeOK
<1>11. CASE SendFetch(v)
  <2>1. "sent" \in WorkerState /\ [mem[v] EXCEPT !.pending = epoch] \in Entry
    BY <1>2 DEF WorkerState, TypeOK
  <2>2. net' \subseteq [v: Video, run: 0 .. MaxRuns]
    BY <1>11 DEF SendFetch, TypeOK
  <2>3. QED
    BY <1>11, <2>1, <2>2, WorkerSavesTyped DEF SendFetch, InPool, TypeOK
<1>12. CASE PausedBeforeFetch(v)
  <2>1. "idle" \in WorkerState /\ [mem[v] EXCEPT !.status = "pending"] \in Entry
    BY <1>2 DEF WorkerState
  <2>2. WorkerSaves(v, [mem[v] EXCEPT !.status = "pending"], "idle")
    BY <1>12 DEF PausedBeforeFetch
  <2>3. /\ mem' \in Entries /\ w' \in [Video -> WorkerState]
        /\ journal' \in [ents: Entries, status: RunStatus]
    BY <2>1, <2>2, WorkerSavesTyped
  <2>4. QED
    BY <1>12, <2>3 DEF PausedBeforeFetch, InPool, TypeOK
<1>13. CASE WorkFails(v)
  <2>1. "idle" \in WorkerState
    BY DEF WorkerState
  <2>2. lib' \in Seq(VideoRecord)
    <3>1. CASE UNCHANGED lib
      BY <3>1 DEF TypeOK
    <3>2. CASE \E g \in DeadCopies(snap, v) : Delete(g)
      BY <1>5, <3>2
    <3>3. CASE lib' = [lib EXCEPT ![mem[v].vid].tag = v]
      BY <1>6, <3>3
    <3>4. QED
      BY <1>13, <3>1, <3>2, <3>3 DEF WorkFails
  <2>3. QED
    BY <1>2, <1>13, <2>1, <2>2, WorkerSavesTyped DEF WorkFails, InPool, TypeOK
<1>14. CASE FetchAnswered(v)
  <2>1. (IF w[v] = "sent" THEN "tag" ELSE "idle") \in WorkerState
    BY DEF WorkerState
  <2>2. [mem[v] EXCEPT !.pending = 0, !.vid = reply[v], !.status = "processing"] \in Entry
    BY <1>2 DEF TypeOK
  <2>3. /\ mem' \in Entries
        /\ journal' \in [ents: Entries, status: RunStatus]
        /\ w' \in [Video -> WorkerState]
    BY <1>14, <2>1, <2>2, WorkerSavesTyped DEF FetchAnswered
  <2>4. QED
    BY <1>4, <1>14, <2>3 DEF FetchAnswered, InPool, TypeOK
<1>15. CASE FetchRefused(v)
  <2> DEFINE s == IF aborted /\ mem[v].vid = 0 THEN "pending" ELSE "failed"
  <2>1. s \in EntryStatus /\ "idle" \in WorkerState
    BY DEF EntryStatus, WorkerState
  <2>2. [mem[v] EXCEPT !.pending = 0, !.status = s] \in Entry
    BY <1>2, <2>1
  <2>3. /\ mem' \in Entries
        /\ journal' \in [ents: Entries, status: RunStatus]
        /\ w' \in [Video -> WorkerState]
    BY <1>15, <2>1, <2>2, WorkerSavesTyped DEF FetchRefused
  <2>4. QED
    BY <1>4, <1>15, <2>3 DEF FetchRefused, InPool, TypeOK
<1>16. CASE FetchIndeterminate(v)
  <2>1. "idle" \in WorkerState
    BY DEF WorkerState
  <2>2. QED
    BY <1>2, <1>4, <1>16, <2>1, WorkerSavesTyped DEF FetchIndeterminate, InPool, TypeOK
<1>17. CASE TagWritten(v)
  <2>1. "idle" \in WorkerState
    BY DEF WorkerState
  <2>2. QED
    BY <1>1, <1>6, <1>17, <2>1, WorkerSavesTyped DEF TagWritten, InPool, TypeOK
<1>18. CASE PickForWait(v)
  BY <1>3, <1>18 DEF PickForWait, InPool, TypeOK, WorkerState
<1>19. CASE Encoded(v)
  <2> DEFINE h == lib[mem[v].vid].health
             e == IF h = "finished" THEN [mem[v] EXCEPT !.status = "completed"]
                  ELSE Failed([mem[v] EXCEPT !.permanent = mem[v].permanent \/ h = "rejected"])
  <2>1. (mem[v].permanent \/ h = "rejected") \in BOOLEAN
    OBVIOUS
  <2>2. e \in Entry /\ "idle" \in WorkerState
    BY <1>2, <2>1 DEF WorkerState
  <2>3. WorkerSaves(v, e, "idle") /\ UNCHANGED <<lib, net, todo, reply, InPool>>
    BY <1>19 DEF Encoded
  <2>4. QED
    <3> HIDE DEF e
    <3>1. /\ mem' \in Entries
          /\ journal' \in [ents: Entries, status: RunStatus]
          /\ w' \in [Video -> WorkerState]
      BY <2>2, <2>3, WorkerSavesTyped
    <3>2. QED
      BY <2>3, <3>1 DEF InPool, TypeOK
<1>20. CASE WaitFails(v)
  <2>1. "idle" \in WorkerState
    BY DEF WorkerState
  <2>2. QED
    BY <1>2, <1>20, <2>1, WorkerSavesTyped DEF WaitFails, InPool, TypeOK
<1>21. CASE WaitPaused(v)
  BY <1>3, <1>21 DEF WaitPaused, InPool, TypeOK, WorkerState
<1>22. CASE Timeout(v)
  <2>1. (CASE w[v] = "sent" -> "late" [] w[v] = "tag" -> "latetag" [] OTHER -> "idle") \in WorkerState
    BY DEF WorkerState
  <2>2. faults' \in 0 .. MaxCrashes
    BY <1>22 DEF Timeout, TypeOK
  <2>3. /\ mem' \in Entries
        /\ journal' \in [ents: Entries, status: RunStatus]
        /\ w' \in [Video -> WorkerState]
    BY <1>2, <1>22, <2>1, WorkerSavesTyped DEF Timeout
  <2>4. QED
    BY <1>22, <2>2, <2>3 DEF Timeout, TypeOK
<1>23. CASE LateTag(v)
  BY <1>3, <1>6, <1>23 DEF LateTag, InPool, TypeOK, WorkerState
<1>24. QED
  BY <1>7, <1>8, <1>9, <1>10, <1>11, <1>12, <1>13, <1>14, <1>15, <1>16, <1>17, <1>18, <1>19,
     <1>20, <1>21, <1>22, <1>23 DEF WorkerStep

(* A step of the host, of Bunny or of anyone else keeps the state well typed. *)
LEMMA WorldTyped ==
  TypeOK /\ World => TypeOK'
<1> SUFFICES ASSUME TypeOK, World PROVE TypeOK'
  OBVIOUS
<1>1. CASE Abort
  BY <1>1 DEF Abort, TypeOK, durable
<1>2. CASE Crash
  <2>1. faults' \in 0 .. MaxCrashes
    BY <1>2 DEF Crash, TypeOK
  <2>2. QED
    BY <1>2, <2>1, OverTyped DEF Crash, TypeOK
<1>3. CASE RefreshStatus
  <2>1. Refresh(lib, journal.ents) \in Entries
    BY RefreshType DEF TypeOK
  <2>2. journal' \in [ents: Entries, status: RunStatus]
    BY <1>3, <2>1, OverallStatusType, FlushTyped DEF RefreshStatus
  <2>3. QED
    BY <1>3, <2>2 DEF RefreshStatus, TypeOK, volatile
<1>4. CASE GetSummary
  BY <1>4, StartTyped
<1>5. CASE ForeignUpload
  <2>1. PICK t \in ForeignTitles : NewVideo(None, t)
    BY <1>5 DEF ForeignUpload
  <2>2. t \in Title
    BY ImportAssumption
  <2>3. lib' \in Seq(VideoRecord)
    BY <2>1, <2>2, NewVideoTyped
  <2>4. QED
    BY <1>5, <2>3 DEF ForeignUpload, TypeOK, volatile
<1>6. CASE Tick
  BY <1>6 DEF Tick, TypeOK, volatile
<1>7. CASE CollectionReady
  BY <1>7, PassesTyped
<1>8. CASE \E v \in Video : Timeout(v) \/ LateTag(v)
  BY <1>8, WorkerTyped
<1>9. ASSUME NEW f \in net, Land(f) PROVE TypeOK'
  <2>1. f.v \in Video /\ TitleOf[f.v] \in Title
    BY DEF TypeOK
  <2>2. lib' \in Seq(VideoRecord)
    BY <1>9, <2>1, NewVideoTyped DEF Land
  <2>3. reply' \in [Video -> Nat]
    BY <1>9, LenProperties DEF Land, TypeOK
  <2>4. QED
    BY <1>9, <2>2, <2>3 DEF Land, TypeOK
<1>10. ASSUME NEW f \in net, NotLanded(f) PROVE TypeOK'
  <2>1. reply' \in [Video -> Nat]
    <3>1. [reply EXCEPT ![f.v] = Refused] \in [Video -> Nat]
      BY DEF TypeOK, Refused
    <3>2. reply' = reply \/ reply' = [reply EXCEPT ![f.v] = Refused]
      BY <1>10 DEF NotLanded
    <3>3. QED
      BY <3>1, <3>2 DEF TypeOK
  <2>2. QED
    BY <1>10, <2>1 DEF NotLanded, TypeOK
<1>11. ASSUME NEW g \in DOMAIN lib, Progress(g) PROVE TypeOK'
  <2>1. PICK h \in Health : lib' = [lib EXCEPT ![g].health = h]
    BY <1>11 DEF Progress
  <2>2. lib' \in Seq(VideoRecord)
    BY <2>1, HealthType DEF TypeOK
  <2>3. QED
    BY <1>11, <2>2 DEF Progress, TypeOK, volatile
<1>12. QED
  BY <1>1, <1>2, <1>3, <1>4, <1>5, <1>6, <1>7, <1>8, <1>9, <1>10, <1>11 DEF World

LEMMA NextTyped == TypeOK /\ [Next]_vars => TypeOK'
<1> SUFFICES ASSUME TypeOK, [Next]_vars PROVE TypeOK'
  OBVIOUS
<1>1. CASE StartRun
  BY <1>1, StartTyped
<1>2. CASE RunStep
  BY <1>2, StartTyped, PassesTyped, ReconcileTyped, WorkerTyped DEF RunStep
<1>3. CASE World
  BY <1>3, WorldTyped
<1>4. CASE UNCHANGED vars
  BY <1>4 DEF vars, durable, volatile, TypeOK
<1>5. QED
  BY <1>1, <1>2, <1>3, <1>4 DEF Next

(* The journal, the library, the requests under way and all a run holds stay well formed, whatever happens: TypeOK is an invariant. *)
THEOREM TypeCorrect == Spec => []TypeOK
<1>1. QED
  BY InitTyped, NextTyped, PTL DEF Spec

-----------------------------------------------------------------------------
(* Write-ahead. *)

Sending(v) == [v |-> v, run |-> runs] \in net

EarlyPhase == {"loading", "collections", "reconcile"}

(* Requests belong to runs that were started. *)
RequestsStarted == \A f \in net : f.run <= runs

(* Before its pools start, and when no run is under way, nothing is in flight for this run. *)
NothingEarly ==
  /\ pc \in EarlyPhase => \A v \in Video : ~Sending(v)
  /\ pc \in EarlyPhase \cup {"idle"} => \A v \in Video : w[v] = "idle" /\ reply[v] = 0

(* A video still to be fetched in this run has no request of this run, and no answer. *)
ToFetchIsFresh ==
  \A v \in Video :
    /\ w[v] \in {"clean", "lookup"} => ~Sending(v) /\ reply[v] = 0
    /\ pc = "queue" /\ v \in todo => w[v] = "idle" /\ ~Sending(v) /\ reply[v] = 0

(* Workers fetch only in the queue phase. *)
FetchersQueue == \A v \in Video : w[v] \in {"clean", "lookup", "sent", "tag"} => pc = "queue"

(* An answer comes after its request was handled. *)
AnswersHandled == \A v \in Video : reply[v] # 0 => ~Sending(v)

(* The run remembers every fetch it has outstanding. *)
OutstandingKnown ==
  pc # "idle" => \A v \in Video : Sending(v) \/ w[v] = "sent" => mem[v].pending # 0

IInv ==
  /\ TypeOK /\ JournalCurrent /\ RequestsStarted /\ NothingEarly /\ ToFetchIsFresh
  /\ FetchersQueue /\ AnswersHandled /\ OutstandingKnown

LEMMA InitProtocol == Init => IInv
<1> SUFFICES ASSUME Init PROVE IInv
  OBVIOUS
<1>1. TypeOK
  BY InitTyped
<1>2. JournalCurrent /\ RequestsStarted /\ NothingEarly /\ ToFetchIsFresh /\ FetchersQueue
      /\ AnswersHandled /\ OutstandingKnown
  BY DEF Init, NoIndex, JournalCurrent, RequestsStarted, NothingEarly, ToFetchIsFresh,
         FetchersQueue, AnswersHandled, OutstandingKnown, EarlyPhase
<1>3. QED
  BY <1>1, <1>2 DEF IInv

(* A run that is over leaves nothing that could break the protocol, if no request was sent. *)
LEMMA OverKeeps ==
  ASSUME IInv, TypeOK', Over, UNCHANGED <<net, runs>>
  PROVE  IInv'
<1>1. /\ pc' = "idle" /\ todo' = {} /\ reply' = [v \in Video |-> 0]
      /\ w' = [v \in Video |-> "idle"]
  BY DEF Over, NoIndex
<1>2. JournalCurrent' /\ NothingEarly' /\ ToFetchIsFresh' /\ FetchersQueue' /\ AnswersHandled'
      /\ OutstandingKnown'
  BY <1>1 DEF JournalCurrent, NothingEarly, ToFetchIsFresh, FetchersQueue, AnswersHandled,
              OutstandingKnown, EarlyPhase
<1>3. RequestsStarted'
  BY DEF IInv, RequestsStarted
<1>4. QED
  BY <1>2, <1>3 DEF IInv

(* While a run has not reached its pools, whatever it does to its entries is safe: nothing is in flight. *)
LEMMA EarlyKeeps ==
  ASSUME IInv, TypeOK', pc \in EarlyPhase, pc' \in EarlyPhase \cup {"queue"},
         UNCHANGED <<net, runs, w, reply>>, JournalCurrent'
  PROVE  IInv'
<1>1. \A v \in Video : ~Sending(v) /\ ~(Sending(v))' /\ w'[v] = "idle" /\ reply'[v] = 0
  BY DEF IInv, NothingEarly, Sending
<1>2. NothingEarly' /\ ToFetchIsFresh' /\ FetchersQueue' /\ AnswersHandled' /\ OutstandingKnown'
  BY <1>1 DEF NothingEarly, ToFetchIsFresh, FetchersQueue, AnswersHandled, OutstandingKnown,
              EarlyPhase
<1>3. RequestsStarted'
  BY DEF IInv, RequestsStarted
<1>4. QED
  BY <1>2, <1>3 DEF IInv

(* A step that leaves alone everything the protocol speaks of. *)
LEMMA FrameKeeps ==
  ASSUME IInv, TypeOK', UNCHANGED <<net, runs, w, reply, pc, todo, mem, journal>>
  PROVE  IInv'
BY DEF IInv, JournalCurrent, RequestsStarted, NothingEarly, ToFetchIsFresh, FetchersQueue,
       AnswersHandled, OutstandingKnown, EarlyPhase, Sending

LEMMA StartKeeps ==
  ASSUME IInv, TypeOK', GetSummary \/ StartRun \/ LoadIndex \/ LoadFails
  PROVE  IInv'
<1>1. CASE GetSummary
  BY <1>1, FrameKeeps DEF GetSummary, volatile
<1>2. CASE StartRun
  <2>1. \A v \in Video : w'[v] = "idle" /\ reply'[v] = 0
    BY <1>2 DEF StartRun, IInv, NothingEarly
  <2>2. RequestsStarted' /\ \A v \in Video : ~(Sending(v))'
    BY <1>2 DEF StartRun, IInv, RequestsStarted, Sending, TypeOK
  <2>3. pc' = "loading"
    BY <1>2 DEF StartRun
  <2>4. QED
    BY <2>1, <2>2, <2>3 DEF IInv, JournalCurrent, NothingEarly, ToFetchIsFresh, FetchersQueue,
                            AnswersHandled, OutstandingKnown, EarlyPhase
<1>3. CASE LoadIndex
  <2>1. JournalCurrent'
    BY <1>3 DEF LoadIndex, JournalCurrent
  <2>2. QED
    BY <1>3, <2>1, EarlyKeeps DEF LoadIndex, EarlyPhase, durable
<1>4. CASE LoadFails
  BY <1>4, OverKeeps DEF LoadFails, durable
<1>5. QED
  BY <1>1, <1>2, <1>3, <1>4

LEMMA PassesKeep ==
  ASSUME IInv, TypeOK',
         CollectionReady \/ CollectionsFail \/ Prepare \/ BeginQueue \/ BeginWait \/ Finish
  PROVE  IInv'
<1>1. CASE CollectionReady
  <2>1. JournalCurrent'
    BY <1>1 DEF CollectionReady, volatile, JournalCurrent
  <2>2. QED
    BY <1>1, <2>1, EarlyKeeps DEF CollectionReady, volatile, EarlyPhase
<1>2. CASE CollectionsFail
  BY <1>2, OverKeeps DEF CollectionsFail, RunFails
<1>3. CASE Prepare
  <2>1. JournalCurrent'
    BY <1>3 DEF Prepare, JournalCurrent
  <2>2. QED
    BY <1>3, <2>1, EarlyKeeps DEF Prepare, EarlyPhase
<1>4. CASE BeginQueue
  <2>1. JournalCurrent'
    BY <1>4 DEF BeginQueue, JournalCurrent, Flush
  <2>2. QED
    BY <1>4, <2>1, EarlyKeeps DEF BeginQueue, EarlyPhase
<1>5. CASE BeginWait
  <2>1. pc = "queue" /\ pc' = "wait" /\ UNCHANGED <<net, runs, w, reply, mem, journal>>
    BY <1>5 DEF BeginWait, durable
  <2>2. \A v \in Video : w[v] \notin {"clean", "lookup", "sent", "tag"}
    BY <1>5 DEF BeginWait, Occupied
  <2>3. JournalCurrent' /\ RequestsStarted' /\ NothingEarly'
    BY <2>1 DEF IInv, JournalCurrent, RequestsStarted, NothingEarly, EarlyPhase
  <2>4. ToFetchIsFresh' /\ FetchersQueue'
    BY <2>1, <2>2 DEF ToFetchIsFresh, FetchersQueue
  <2>5. AnswersHandled' /\ OutstandingKnown'
    BY <2>1 DEF IInv, AnswersHandled, OutstandingKnown, Sending
  <2>6. QED
    BY <2>3, <2>4, <2>5 DEF IInv
<1>6. CASE Finish
  BY <1>6, OverKeeps DEF Finish
<1>7. QED
  BY <1>1, <1>2, <1>3, <1>4, <1>5, <1>6

LEMMA ReconcileKeeps ==
  ASSUME IInv, TypeOK', NEW v \in Video, ReconcileEntry(v) \/ DeleteStalled(v) \/ DeleteStalledFails(v)
  PROVE  IInv'
<1>1. CASE ReconcileEntry(v)
  <2>1. JournalCurrent'
    BY <1>1 DEF ReconcileEntry, JournalCurrent
  <2>2. QED
    BY <1>1, <2>1, EarlyKeeps DEF ReconcileEntry, EarlyPhase, durable
<1>2. CASE DeleteStalled(v)
  <2>1. JournalCurrent'
    BY <1>2 DEF DeleteStalled, JournalCurrent
  <2>2. QED
    BY <1>2, <2>1, EarlyKeeps DEF DeleteStalled, EarlyPhase
<1>3. CASE DeleteStalledFails(v)
  BY <1>3, OverKeeps DEF DeleteStalledFails
<1>4. QED
  BY <1>1, <1>2, <1>3

(* A worker's save that sends nothing and forgets no outstanding fetch. *)
LEMMA SaveKeeps ==
  ASSUME IInv, TypeOK', NEW v \in Video, NEW e \in Entry, NEW s \in WorkerState,
         WorkerSaves(v, e, s), UNCHANGED <<net, runs, pc>>, pc \in {"queue", "wait"},
         todo' \subseteq todo, pc = "queue" => v \notin todo',
         mem[v].pending # 0 => e.pending # 0 \/ ~Sending(v),
         s \in {"clean", "lookup"} => ~Sending(v) /\ reply'[v] = 0,
         s = "sent" => e.pending # 0,
         s \in {"clean", "lookup", "sent", "tag"} => pc = "queue",
         \A x \in Video : reply'[x] = reply[x] \/ reply'[x] = 0
  PROVE  IInv'
<1>1. /\ mem' = [mem EXCEPT ![v] = e] /\ journal'.ents = mem' /\ w' = [w EXCEPT ![v] = s]
      /\ mem'[v] = e /\ w'[v] = s
      /\ \A x \in Video \ {v} : mem'[x] = mem[x] /\ w'[x] = w[x]
  BY DEF WorkerSaves, Flush, IInv, TypeOK, Entries
<1>2. \A x \in Video : (Sending(x))' = Sending(x)
  BY DEF Sending
<1>3. JournalCurrent' /\ RequestsStarted' /\ NothingEarly'
  BY <1>1 DEF IInv, JournalCurrent, RequestsStarted, NothingEarly, EarlyPhase
<1>4. ToFetchIsFresh'
  BY <1>1, <1>2 DEF IInv, ToFetchIsFresh
<1>5. FetchersQueue'
  BY <1>1 DEF IInv, FetchersQueue
<1>6. AnswersHandled'
  BY <1>2 DEF IInv, AnswersHandled
<1>7. OutstandingKnown'
  BY <1>1, <1>2 DEF IInv, OutstandingKnown
<1>8. QED
  BY <1>3, <1>4, <1>5, <1>6, <1>7 DEF IInv

(* A worker that moves on without a save, to a state that sends nothing. *)
LEMMA MoveKeeps ==
  ASSUME IInv, TypeOK', NEW v \in Video, NEW s \in WorkerState,
         w' = [w EXCEPT ![v] = s], UNCHANGED <<net, runs, pc, mem, journal, reply>>,
         pc \in {"queue", "wait"}, todo' \subseteq todo, pc = "queue" => v \notin todo',
         s = "clean" => ~Sending(v) /\ reply[v] = 0,
         s \notin {"lookup", "sent"},
         s \in {"clean", "tag"} => pc = "queue"
  PROVE  IInv'
<1>1. w'[v] = s /\ \A x \in Video \ {v} : w'[x] = w[x]
  BY DEF IInv, TypeOK
<1>2. \A x \in Video : (Sending(x))' = Sending(x)
  BY DEF Sending
<1>3. JournalCurrent' /\ RequestsStarted' /\ NothingEarly'
  BY DEF IInv, JournalCurrent, RequestsStarted, NothingEarly, EarlyPhase
<1>4. ToFetchIsFresh' /\ FetchersQueue' /\ AnswersHandled' /\ OutstandingKnown'
  BY <1>1, <1>2 DEF IInv, ToFetchIsFresh, FetchersQueue, AnswersHandled, OutstandingKnown
<1>5. QED
  BY <1>3, <1>4 DEF IInv

(* A worker that is busy runs in the pools, on a video that is not left to do. *)
LEMMA BusyInPool ==
  ASSUME IInv, NEW v \in Video, w[v] # "idle"
  PROVE  pc \in {"queue", "wait"} /\ (pc = "queue" => v \notin todo)
<1>1. pc \in Phase /\ pc \notin EarlyPhase \cup {"idle"}
  BY DEF IInv, TypeOK, NothingEarly
<1>2. QED
  BY <1>1 DEF IInv, ToFetchIsFresh, Phase, EarlyPhase

LEMMA WorkerKeeps ==
  ASSUME IInv, TypeOK', NEW v \in Video, WorkerStep(v) \/ Timeout(v) \/ LateTag(v)
  PROVE  IInv'
<1>1. mem[v] \in Entry /\ epoch # 0
  BY DEF IInv, TypeOK, Entries
<1>2. /\ Failed(mem[v]) \in Entry /\ Fetching(mem[v]) \in Entry
      /\ [mem[v] EXCEPT !.status = "pending"] \in Entry
      /\ [mem[v] EXCEPT !.status = "completed"] \in Entry
      /\ \A n \in Nat : [mem[v] EXCEPT !.pending = n] \in Entry
      /\ \A n \in Nat : [mem[v] EXCEPT !.pending = 0, !.vid = n, !.status = "processing"] \in Entry
      /\ \A s \in EntryStatus : [mem[v] EXCEPT !.pending = 0, !.status = s] \in Entry
      /\ \A b \in BOOLEAN : Failed([mem[v] EXCEPT !.permanent = b]) \in Entry
  BY <1>1, WorkerEntries
<1>3. /\ Failed(mem[v]).pending = mem[v].pending /\ Fetching(mem[v]).pending = mem[v].pending
      /\ [mem[v] EXCEPT !.status = "pending"].pending = mem[v].pending
      /\ [mem[v] EXCEPT !.status = "completed"].pending = mem[v].pending
      /\ [mem[v] EXCEPT !.pending = epoch].pending = epoch
      /\ \A b \in BOOLEAN : Failed([mem[v] EXCEPT !.permanent = b]).pending = mem[v].pending
  BY <1>1 DEF Failed, Fetching, Entry
<1>4. \A s \in {"idle", "clean", "lookup", "sent", "tag", "await", "late", "latetag"} : s \in WorkerState
  BY DEF WorkerState
<1>5. w[v] # "idle" => pc \in {"queue", "wait"} /\ (pc = "queue" => v \notin todo)
  BY BusyInPool
<1>6. pc = "queue" /\ v \in todo => w[v] = "idle" /\ ~Sending(v) /\ reply[v] = 0
  BY DEF IInv, ToFetchIsFresh
<1>7. CASE PickForTag(v)
  <2>1. "tag" \in WorkerState
    BY DEF WorkerState
  <2>2. w' = [w EXCEPT ![v] = "tag"] /\ UNCHANGED <<net, runs, pc, mem, journal, reply>>
    BY <1>7 DEF PickForTag, InPool
  <2>3. pc = "queue" /\ todo' \subseteq todo /\ v \notin todo'
    BY <1>7 DEF PickForTag
  <2> DEFINE s == "tag"
  <2>4. s \in WorkerState /\ s \notin {"lookup", "sent"} /\ s # "clean" /\ w' = [w EXCEPT ![v] = s]
    BY <2>1, <2>2
  <2> HIDE DEF s
  <2>5. QED
    BY <2>2, <2>3, <2>4, MoveKeeps
<1>8. CASE PickForFetch(v)
  <2>1. CASE opt.clean /\ DeadCopies(snap, v) # {}
    BY <1>4, <1>6, <1>8, <2>1, MoveKeeps DEF PickForFetch, CanPick, InPool
  <2>2. CASE ~(opt.clean /\ DeadCopies(snap, v) # {})
    BY <1>2, <1>3, <1>4, <1>6, <1>8, <2>2, SaveKeeps DEF PickForFetch, CanPick, InPool
  <2>3. QED
    BY <2>1, <2>2
<1>9. CASE DeleteDeadCopy(v)
  BY <1>9, FrameKeeps DEF DeleteDeadCopy, InPool
<1>10. CASE CleanDone(v)
  <2>1. pc = "queue" /\ ~Sending(v) /\ reply[v] = 0
    BY <1>10 DEF CleanDone, IInv, FetchersQueue, ToFetchIsFresh
  <2>2. QED
    BY <1>2, <1>3, <1>4, <1>5, <1>10, <2>1, SaveKeeps DEF CleanDone, InPool
<1>11. CASE SendFetch(v)
  <2> DEFINE e == [mem[v] EXCEPT !.pending = epoch]
  <2>1. pc = "queue" /\ ~Sending(v) /\ reply[v] = 0 /\ v \notin todo
    BY <1>5, <1>11 DEF SendFetch, IInv, FetchersQueue, ToFetchIsFresh
  <2>2. e.pending # 0 /\ WorkerSaves(v, e, "sent") /\ net' = net \cup {[v |-> v, run |-> runs]}
        /\ UNCHANGED <<lib, todo, reply, InPool>>
    BY <1>1, <1>3, <1>11 DEF SendFetch
  <2> HIDE DEF e
  <2>3. /\ mem'[v] = e /\ w'[v] = "sent" /\ journal'.ents = mem'
        /\ \A x \in Video \ {v} : mem'[x] = mem[x] /\ w'[x] = w[x]
    BY <2>2 DEF WorkerSaves, Flush, IInv, TypeOK, Entries
  <2>4. pc' = "queue" /\ runs' = runs /\ todo' = todo /\ reply' = reply
    BY <2>1, <2>2 DEF InPool
  <2>5. \A x \in Video \ {v} : (Sending(x))' = Sending(x)
    BY <2>2, <2>4 DEF Sending
  <2>6. JournalCurrent' /\ NothingEarly'
    BY <2>3, <2>4 DEF JournalCurrent, NothingEarly, EarlyPhase
  <2>7. RequestsStarted'
    BY <2>2, <2>4 DEF IInv, TypeOK, RequestsStarted
  <2>8. ToFetchIsFresh' /\ FetchersQueue'
    BY <2>1, <2>3, <2>4, <2>5 DEF IInv, ToFetchIsFresh, FetchersQueue
  <2>9. AnswersHandled'
    BY <2>1, <2>4, <2>5 DEF IInv, AnswersHandled
  <2>10. OutstandingKnown'
    BY <2>1, <2>2, <2>3, <2>5 DEF IInv, OutstandingKnown
  <2>11. QED
    BY <2>6, <2>7, <2>8, <2>9, <2>10 DEF IInv
<1>12. CASE PausedBeforeFetch(v)
  <2> DEFINE e == [mem[v] EXCEPT !.status = "pending"]
  <2>1. /\ e \in Entry /\ e.pending = mem[v].pending /\ "idle" \in WorkerState
        /\ WorkerSaves(v, e, "idle") /\ UNCHANGED <<net, runs, pc, todo, reply>>
    BY <1>2, <1>3, <1>4, <1>12 DEF PausedBeforeFetch, InPool
  <2>2. pc \in {"queue", "wait"} /\ (pc = "queue" => v \notin todo)
    BY <1>5, <1>12 DEF PausedBeforeFetch
  <2> HIDE DEF e
  <2>3. QED
    BY <2>1, <2>2, SaveKeeps
<1>13. CASE WorkFails(v)
  BY <1>2, <1>3, <1>4, <1>5, <1>13, SaveKeeps DEF WorkFails, InPool
<1>14. CASE FetchAnswered(v)
  <2> DEFINE e == [mem[v] EXCEPT !.pending = 0, !.vid = reply[v], !.status = "processing"]
             s == IF w[v] = "sent" THEN "tag" ELSE "idle"
  <2>1. e \in Entry /\ s \in WorkerState
    BY <1>2, <1>4 DEF IInv, TypeOK
  <2>2. ~Sending(v)
    BY <1>14 DEF FetchAnswered, IInv, AnswersHandled
  <2>3. w[v] = "sent" => pc = "queue"
    BY DEF IInv, FetchersQueue
  <2>4. /\ WorkerSaves(v, e, s) /\ reply' = [reply EXCEPT ![v] = 0]
        /\ UNCHANGED <<lib, net, todo, InPool>> /\ w[v] # "idle"
    BY <1>14 DEF FetchAnswered
  <2>5. s \notin {"clean", "lookup", "sent"} /\ (s = "tag" => pc = "queue")
    BY <2>3
  <2>6. \A x \in Video : reply'[x] = reply[x] \/ reply'[x] = 0
    BY <2>4 DEF IInv, TypeOK
  <2> HIDE DEF e, s
  <2>7. QED
    BY <1>5, <2>1, <2>2, <2>4, <2>5, <2>6, SaveKeeps DEF InPool
<1>15. CASE FetchRefused(v)
  <2> DEFINE s == IF aborted /\ mem[v].vid = 0 THEN "pending" ELSE "failed"
             e == [mem[v] EXCEPT !.pending = 0, !.status = s]
  <2>1. s \in EntryStatus
    BY DEF EntryStatus
  <2>2. e \in Entry
    BY <1>2, <2>1
  <2>3. ~Sending(v)
    BY <1>15 DEF FetchRefused, IInv, AnswersHandled, Refused, ImportAssumption
  <2>4. /\ WorkerSaves(v, e, "idle") /\ reply' = [reply EXCEPT ![v] = 0]
        /\ UNCHANGED <<lib, net, todo, InPool>> /\ w[v] # "idle"
    BY <1>15 DEF FetchRefused
  <2>5. \A x \in Video : reply'[x] = reply[x] \/ reply'[x] = 0
    BY <2>4 DEF IInv, TypeOK
  <2> HIDE DEF e
  <2>6. QED
    BY <1>4, <1>5, <2>2, <2>3, <2>4, <2>5, SaveKeeps DEF InPool
<1>16. CASE FetchIndeterminate(v)
  <2>1. \A x \in Video : reply'[x] = reply[x] \/ reply'[x] = 0
    BY <1>16 DEF FetchIndeterminate, IInv, TypeOK
  <2>2. QED
    BY <1>2, <1>3, <1>4, <1>5, <1>16, <2>1, SaveKeeps DEF FetchIndeterminate, InPool
<1>17. CASE TagWritten(v)
  BY <1>1, <1>4, <1>5, <1>17, SaveKeeps DEF TagWritten, InPool
<1>18. CASE PickForWait(v)
  <2>1. "await" \in WorkerState /\ "await" \notin {"clean", "lookup", "sent", "tag"}
    BY DEF WorkerState
  <2>2. /\ w' = [w EXCEPT ![v] = "await"] /\ UNCHANGED <<net, runs, pc, mem, journal, reply>>
        /\ pc \in {"queue", "wait"} /\ todo' \subseteq todo /\ (pc = "queue" => v \notin todo')
    BY <1>18 DEF PickForWait, InPool
  <2>3. QED
    BY <2>1, <2>2, MoveKeeps
<1>19. CASE Encoded(v)
  <2> DEFINE h == lib[mem[v].vid].health
             e == IF h = "finished" THEN [mem[v] EXCEPT !.status = "completed"]
                  ELSE Failed([mem[v] EXCEPT !.permanent = mem[v].permanent \/ h = "rejected"])
  <2>1. (mem[v].permanent \/ h = "rejected") \in BOOLEAN
    OBVIOUS
  <2>2. e \in Entry /\ e.pending = mem[v].pending
    BY <1>2, <1>3, <2>1
  <2>3. WorkerSaves(v, e, "idle") /\ UNCHANGED <<lib, net, todo, reply, InPool>> /\ w[v] # "idle"
    BY <1>19 DEF Encoded
  <2> HIDE DEF e
  <2>4. QED
    BY <1>4, <1>5, <2>2, <2>3, SaveKeeps DEF InPool
<1>20. CASE WaitFails(v)
  BY <1>2, <1>3, <1>4, <1>5, <1>20, SaveKeeps DEF WaitFails, InPool
<1>21. CASE WaitPaused(v)
  <2>1. "idle" \in WorkerState /\ "idle" \notin {"clean", "lookup", "sent", "tag"}
    BY DEF WorkerState
  <2>2. /\ w' = [w EXCEPT ![v] = "idle"] /\ UNCHANGED <<net, runs, pc, mem, journal, reply>>
        /\ pc \in {"queue", "wait"} /\ todo' \subseteq todo /\ (pc = "queue" => v \notin todo')
    BY <1>5, <1>21 DEF WaitPaused, InPool
  <2>3. QED
    BY <2>1, <2>2, MoveKeeps
<1>22. CASE Timeout(v)
  <2> DEFINE s == CASE w[v] = "sent" -> "late" [] w[v] = "tag" -> "latetag" [] OTHER -> "idle"
  <2>1. s \in WorkerState /\ s \notin {"clean", "lookup", "sent", "tag"}
    BY <1>4
  <2>2. WorkerSaves(v, Failed(mem[v]), s) /\ UNCHANGED <<net, runs, pc, todo, reply>> /\ w[v] # "idle"
    BY <1>22 DEF Timeout
  <2> HIDE DEF s
  <2>3. QED
    BY <1>2, <1>3, <1>5, <2>1, <2>2, SaveKeeps
<1>23. CASE LateTag(v)
  <2>1. "idle" \in WorkerState /\ "idle" \notin {"clean", "lookup", "sent", "tag"}
    BY DEF WorkerState
  <2>2. /\ w' = [w EXCEPT ![v] = "idle"] /\ UNCHANGED <<net, runs, pc, mem, journal, reply>>
        /\ pc \in {"queue", "wait"} /\ todo' \subseteq todo /\ (pc = "queue" => v \notin todo')
    BY <1>5, <1>23 DEF LateTag, InPool
  <2>3. QED
    BY <2>1, <2>2, MoveKeeps
<1>24. QED
  BY <1>7, <1>8, <1>9, <1>10, <1>11, <1>12, <1>13, <1>14, <1>15, <1>16, <1>17, <1>18, <1>19,
     <1>20, <1>21, <1>22, <1>23 DEF WorkerStep

(* A request leaving the network: at most the answer to a request of this run appears. *)
LEMMA HandledKeeps ==
  ASSUME IInv, TypeOK', NEW f \in net, net' = net \ {f}, NEW r,
         reply' = reply \/ (Awaited(f) /\ reply' = [reply EXCEPT ![f.v] = r]),
         UNCHANGED <<journal, runs, pc, mem, todo, w>>
  PROVE  IInv'
<1>1. f.v \in Video /\ f = [v |-> f.v, run |-> f.run]
  BY DEF IInv, TypeOK
<1>2. \A x \in Video : (Sending(x))' => Sending(x)
  BY DEF Sending
<1>3. \A x \in Video : reply'[x] # reply[x] => x = f.v /\ w[x] \in {"sent", "late"} /\ ~(Sending(x))'
  <2>1. CASE reply' = reply
    BY <2>1
  <2>2. CASE Awaited(f) /\ reply' = [reply EXCEPT ![f.v] = r]
    <3>1. f = [v |-> f.v, run |-> runs] /\ ~(Sending(f.v))'
      BY <1>1, <2>2 DEF Awaited, Sending
    <3>2. \A x \in Video : x # f.v => reply'[x] = reply[x]
      BY <2>2 DEF IInv, TypeOK
    <3>3. QED
      BY <2>2, <3>1, <3>2 DEF Awaited
  <2>3. QED
    BY <2>1, <2>2
<1>4. JournalCurrent' /\ RequestsStarted' /\ FetchersQueue'
  BY DEF IInv, JournalCurrent, RequestsStarted, FetchersQueue
<1>5. NothingEarly'
  BY <1>2, <1>3 DEF IInv, NothingEarly, EarlyPhase
<1>6. ToFetchIsFresh'
  BY <1>2, <1>3 DEF IInv, ToFetchIsFresh
<1>7. AnswersHandled'
  BY <1>2, <1>3 DEF IInv, AnswersHandled
<1>8. OutstandingKnown'
  BY <1>2 DEF IInv, OutstandingKnown
<1>9. QED
  BY <1>4, <1>5, <1>6, <1>7, <1>8 DEF IInv

LEMMA WorldKeeps ==
  ASSUME IInv, TypeOK', World
  PROVE  IInv'
<1>1. CASE Abort
  BY <1>1, FrameKeeps DEF Abort, durable
<1>2. CASE Crash
  BY <1>2, OverKeeps DEF Crash
<1>3. CASE RefreshStatus
  <2>1. pc = "idle" /\ UNCHANGED <<net, runs, w, reply, pc, todo, mem>>
    BY <1>3 DEF RefreshStatus, volatile
  <2>2. QED
    BY <2>1 DEF IInv, JournalCurrent, RequestsStarted, NothingEarly, ToFetchIsFresh, FetchersQueue,
                AnswersHandled, OutstandingKnown, EarlyPhase, Sending
<1>4. CASE GetSummary
  BY <1>4, StartKeeps
<1>5. CASE ForeignUpload
  BY <1>5, FrameKeeps DEF ForeignUpload, volatile
<1>6. CASE Tick
  BY <1>6, FrameKeeps DEF Tick, volatile
<1>7. CASE CollectionReady
  BY <1>7, PassesKeep
<1>8. CASE \E v \in Video : Timeout(v) \/ LateTag(v)
  BY <1>8, WorkerKeeps
<1>9. ASSUME NEW f \in net, Land(f) PROVE IInv'
  BY <1>9, HandledKeeps DEF Land
<1>10. ASSUME NEW f \in net, NotLanded(f) PROVE IInv'
  <2>1. reply' = reply \/ (Awaited(f) /\ reply' = [reply EXCEPT ![f.v] = Refused])
    BY <1>10 DEF NotLanded
  <2>2. QED
    BY <1>10, <2>1, HandledKeeps DEF NotLanded
<1>11. ASSUME NEW g \in DOMAIN lib, Progress(g) PROVE IInv'
  BY <1>11, FrameKeeps DEF Progress, volatile
<1>12. QED
  BY <1>1, <1>2, <1>3, <1>4, <1>5, <1>6, <1>7, <1>8, <1>9, <1>10, <1>11 DEF World

LEMMA NextKeeps == IInv /\ [Next]_vars => IInv'
<1> SUFFICES ASSUME IInv, [Next]_vars PROVE IInv'
  OBVIOUS
<1>1. TypeOK'
  BY NextTyped DEF IInv
<1>2. CASE StartRun
  BY <1>1, <1>2, StartKeeps
<1>3. CASE RunStep
  BY <1>1, <1>3, StartKeeps, PassesKeep, ReconcileKeeps, WorkerKeeps DEF RunStep
<1>4. CASE World
  BY <1>1, <1>4, WorldKeeps
<1>5. CASE UNCHANGED vars
  BY <1>1, <1>5, FrameKeeps DEF vars, durable, volatile
<1>6. QED
  BY <1>2, <1>3, <1>4, <1>5 DEF Next

(* The invariant gives write-ahead: in its pools a run's memory is on disk, and before them nothing is in flight. *)
LEMMA ProtocolWritesAhead == IInv => WriteAhead
<1> SUFFICES ASSUME IInv, NEW v \in Video,
                    w[v] = "sent" \/ (pc # "idle" /\ Sending(v))
             PROVE  journal.ents[v].pending # 0
  BY DEF WriteAhead, Sending
<1>1. pc \in {"queue", "wait"}
  BY DEF IInv, TypeOK, FetchersQueue, NothingEarly, Phase, EarlyPhase
<1>2. QED
  BY <1>1 DEF IInv, JournalCurrent, OutstandingKnown

(* However many runs, videos, crashes and lost answers there are, the journal on disk records an outstanding fetch whenever this run has one: WriteAhead is an invariant. *)
THEOREM JournaledBeforeSent == Spec => []WriteAhead
<1>1. QED
  BY InitProtocol, NextKeeps, ProtocolWritesAhead, PTL DEF Spec

(* While its pools run, a run's entries are on disk as they are in memory: a crash there loses only answers still in flight. *)
THEOREM PoolsJournaled == Spec => []JournalCurrent
<1>1. IInv => JournalCurrent
  BY DEF IInv
<1>2. QED
  BY <1>1, InitProtocol, NextKeeps, PTL DEF Spec

-----------------------------------------------------------------------------
(* What steps do, told in the fields the later invariants speak of. *)

DeletesDead(v) == \E g \in DeadCopies(snap, v) : lib' = [lib EXCEPT ![g].health = "gone"]

WritesTag(v) == lib[mem[v].vid].health # "gone" /\ lib' = [lib EXCEPT ![mem[v].vid].tag = v]

(* The worker of v goes to state s and its entry to status st; the entry's video and pending date stay. *)
Carries(v, s, st) ==
  /\ w'[v] = s /\ mem'[v].status = st
  /\ mem'[v].vid = mem[v].vid /\ mem'[v].pending = mem[v].pending

TakesUp(v) ==
  /\ pc = "queue" /\ v \in todo /\ v \notin todo'
  /\ \/ mem[v].status = "processing" /\ mem[v].vid # 0 /\ Carries(v, "tag", "processing")
     \/ /\ ~(mem[v].status = "processing" /\ mem[v].vid # 0)
        /\ Carries(v, "clean", mem[v].status) \/ Carries(v, "lookup", "fetching")
  /\ UNCHANGED <<lib, net, reply>>

Cleans(v) ==
  /\ w[v] = "clean"
  /\ \/ Carries(v, "clean", mem[v].status) /\ DeletesDead(v)
     \/ Carries(v, "lookup", "fetching") /\ UNCHANGED lib
  /\ UNCHANGED <<net, reply>>

Sends(v) ==
  /\ w[v] = "lookup" /\ w'[v] = "sent"
  /\ mem'[v].status = mem[v].status /\ mem'[v].vid = mem[v].vid /\ mem'[v].pending = epoch
  /\ net' = net \cup {[v |-> v, run |-> runs]}
  /\ UNCHANGED <<lib, reply>>

StopsEarly(v) ==
  /\ w[v] \in {"clean", "lookup"} /\ mem[v].vid = 0 /\ mem[v].pending = 0
  /\ Carries(v, "idle", "pending")
  /\ UNCHANGED <<lib, net, reply>>

GivesUp(v) ==
  /\ w[v] \in {"clean", "lookup", "sent", "tag", "await"}
  /\ \E s \in {"idle", "late", "latetag"} :
       /\ Carries(v, s, "failed")
       /\ s = "late" => w[v] = "sent"
       /\ s = "latetag" => w[v] = "tag"
  /\ \/ UNCHANGED lib
     \/ w[v] = "clean" /\ DeletesDead(v)
     \/ w[v] = "tag" /\ WritesTag(v)
  /\ reply'[v] \in {0, reply[v]} /\ UNCHANGED net

HearsGUID(v) ==
  /\ w[v] \in {"sent", "late"} /\ reply[v] \notin {0, Refused} /\ reply'[v] = 0
  /\ w'[v] = (IF w[v] = "sent" THEN "tag" ELSE "idle")
  /\ mem'[v].status = "processing" /\ mem'[v].vid = reply[v] /\ mem'[v].pending = 0
  /\ UNCHANGED <<lib, net>>

HearsRefusal(v) ==
  /\ w[v] = "sent" /\ reply[v] = Refused /\ reply'[v] = 0
  /\ w'[v] = "idle" /\ mem'[v].vid = mem[v].vid /\ mem'[v].pending = 0
  /\ mem'[v].status = "failed" \/ (mem'[v].status = "pending" /\ mem[v].vid = 0)
  /\ UNCHANGED <<lib, net>>

Tags(v) ==
  /\ w[v] \in {"tag", "latetag"} /\ Carries(v, "idle", mem[v].status)
  /\ WritesTag(v) /\ UNCHANGED <<net, reply>>

Awaits(v) ==
  /\ pc = "wait" /\ v \in todo /\ v \notin todo' /\ Carries(v, "await", mem[v].status)
  /\ UNCHANGED <<lib, net, reply>>

StopsWaiting(v) ==
  /\ w[v] = "await"
  /\ \/ Carries(v, "idle", mem[v].status)
     \/ Carries(v, "idle", "completed") /\ lib[mem[v].vid].health = "finished"
  /\ UNCHANGED <<lib, net, reply>>

(* What every step of the worker of v leaves alone. *)
OthersStay(v) ==
  /\ pc \in {"queue", "wait"} /\ todo' \in {todo, todo \ {v}} /\ journal'.ents = mem'
  /\ UNCHANGED <<epoch, service, runs, pc, opt, cached, aborted, snap, index, scope>>
  /\ \A x \in Video \ {v} : mem'[x] = mem[x] /\ w'[x] = w[x] /\ reply'[x] = reply[x]

LEMMA WorkerMoves ==
  ASSUME IInv, TypeOK', NEW v \in Video, WorkerStep(v) \/ Timeout(v) \/ LateTag(v)
  PROVE  /\ OthersStay(v)
         /\ \/ TakesUp(v) \/ Cleans(v) \/ Sends(v) \/ StopsEarly(v) \/ GivesUp(v) \/ HearsGUID(v)
            \/ HearsRefusal(v) \/ Tags(v) \/ Awaits(v) \/ StopsWaiting(v)
<1>1. /\ mem \in [Video -> Entry] /\ w \in [Video -> WorkerState] /\ reply \in [Video -> Nat]
      /\ mem[v] \in Entry
  BY DEF IInv, TypeOK, Entries
<1>2. pc \in {"queue", "wait"}
  BY <1>1, BusyInPool DEF WorkerStep, PickForTag, PickForFetch, DeleteDeadCopy, CleanDone, SendFetch,
     PausedBeforeFetch, WorkFails, FetchAnswered, FetchRefused, FetchIndeterminate, TagWritten,
     PickForWait, Encoded, WaitFails, WaitPaused, Timeout, LateTag
<1>3. IInv'
  BY WorkerKeeps
<1>4. pc' = pc => journal'.ents = mem'
  BY <1>2, <1>3 DEF IInv, JournalCurrent
<1>5. ASSUME NEW e, NEW s, WorkerSaves(v, e, s)
      PROVE  /\ mem'[v] = e /\ w'[v] = s
             /\ \A x \in Video \ {v} : mem'[x] = mem[x] /\ w'[x] = w[x]
  BY <1>1, <1>5 DEF WorkerSaves
<1>6. ASSUME NEW s, w' = [w EXCEPT ![v] = s], mem' = mem
      PROVE  /\ Carries(v, s, mem[v].status)
             /\ \A x \in Video \ {v} : mem'[x] = mem[x] /\ w'[x] = w[x]
  BY <1>1, <1>6 DEF Carries
<1>7. /\ Failed(mem[v]).status = "failed" /\ Failed(mem[v]).vid = mem[v].vid
      /\ Failed(mem[v]).pending = mem[v].pending
      /\ Fetching(mem[v]).status = "fetching" /\ Fetching(mem[v]).vid = mem[v].vid
      /\ Fetching(mem[v]).pending = mem[v].pending
  BY <1>1 DEF Failed, Fetching, Entry
<1>8. ASSUME NEW s, WorkerSaves(v, Failed(mem[v]), s)
      PROVE  Carries(v, s, "failed")
  BY <1>5, <1>7, <1>8 DEF Carries
<1>9. ASSUME NEW s, WorkerSaves(v, Fetching(mem[v]), s)
      PROVE  Carries(v, s, "fetching")
  BY <1>5, <1>7, <1>9 DEF Carries
<1>10. ASSUME NEW r, reply' = [reply EXCEPT ![v] = r]
       PROVE  reply'[v] = r /\ \A x \in Video \ {v} : reply'[x] = reply[x]
  BY <1>1, <1>10
<1>11. CASE PickForTag(v)
  <2>1. w' = [w EXCEPT ![v] = "tag"] /\ UNCHANGED <<lib, net, journal, mem, reply, InPool>> /\ todo' = todo \ {v}
        /\ pc = "queue" /\ v \in todo /\ mem[v].status = "processing" /\ mem[v].vid # 0
    BY <1>11 DEF PickForTag, CanPick
  <2>2. OthersStay(v)
    BY <1>2, <1>4, <1>6, <2>1 DEF OthersStay, InPool
  <2>3. Carries(v, "tag", mem[v].status)
    BY <1>6, <2>1
  <2>4. TakesUp(v)
    BY <2>1, <2>3 DEF TakesUp
  <2>5. QED
    BY <2>2, <2>4
<1>12. CASE PickForFetch(v)
  <2>1. /\ UNCHANGED <<lib, net, reply, InPool>> /\ todo' = todo \ {v}
        /\ pc = "queue" /\ v \in todo /\ ~(mem[v].status = "processing" /\ mem[v].vid # 0)
    BY <1>12 DEF PickForFetch, CanPick
  <2>2. \/ w' = [w EXCEPT ![v] = "clean"] /\ mem' = mem
        \/ WorkerSaves(v, Fetching(mem[v]), "lookup")
    BY <1>12 DEF PickForFetch
  <2>3. OthersStay(v)
    BY <1>2, <1>4, <1>5, <1>6, <2>1, <2>2 DEF OthersStay, InPool
  <2>4. TakesUp(v)
    BY <1>6, <1>9, <2>1, <2>2 DEF TakesUp
  <2>5. QED
    BY <2>3, <2>4
<1>13. CASE DeleteDeadCopy(v)
  <2>1. /\ UNCHANGED <<net, journal, mem, todo, w, reply, InPool>> /\ w[v] = "clean"
    BY <1>13 DEF DeleteDeadCopy
  <2>2. DeletesDead(v)
    BY <1>13 DEF DeleteDeadCopy, DeletesDead, Delete
  <2>3. OthersStay(v)
    BY <1>2, <1>4, <2>1 DEF OthersStay, InPool
  <2>4. Cleans(v)
    BY <2>1, <2>2 DEF Cleans, Carries
  <2>5. QED
    BY <2>3, <2>4
<1>14. CASE CleanDone(v)
  <2>1. /\ UNCHANGED <<lib, net, todo, reply, InPool>> /\ w[v] = "clean"
        /\ WorkerSaves(v, Fetching(mem[v]), "lookup")
    BY <1>14 DEF CleanDone
  <2>2. OthersStay(v)
    BY <1>2, <1>4, <1>5, <2>1 DEF OthersStay, InPool
  <2>3. Cleans(v)
    BY <1>9, <2>1 DEF Cleans
  <2>4. QED
    BY <2>2, <2>3
<1>15. CASE SendFetch(v)
  <2> DEFINE e == [mem[v] EXCEPT !.pending = epoch]
  <2>1. /\ UNCHANGED <<lib, todo, reply, InPool>> /\ w[v] = "lookup"
        /\ WorkerSaves(v, e, "sent") /\ net' = net \cup {[v |-> v, run |-> runs]}
    BY <1>15 DEF SendFetch
  <2>2. e.status = mem[v].status /\ e.vid = mem[v].vid /\ e.pending = epoch
    BY <1>1 DEF Entry
  <2> HIDE DEF e
  <2>3. OthersStay(v)
    BY <1>2, <1>4, <1>5, <2>1 DEF OthersStay, InPool
  <2>4. Sends(v)
    BY <1>5, <2>1, <2>2 DEF Sends
  <2>5. QED
    BY <2>3, <2>4
<1>16. CASE PausedBeforeFetch(v)
  <2> DEFINE e == [mem[v] EXCEPT !.status = "pending"]
  <2>1. /\ UNCHANGED <<lib, net, todo, reply, InPool>> /\ w[v] \in {"clean", "lookup"}
        /\ mem[v].vid = 0 /\ mem[v].pending = 0 /\ WorkerSaves(v, e, "idle")
    BY <1>16 DEF PausedBeforeFetch
  <2>2. e.status = "pending" /\ e.vid = mem[v].vid /\ e.pending = mem[v].pending
    BY <1>1 DEF Entry
  <2> HIDE DEF e
  <2>3. OthersStay(v)
    BY <1>2, <1>4, <1>5, <2>1 DEF OthersStay, InPool
  <2>4. StopsEarly(v)
    BY <1>5, <2>1, <2>2 DEF StopsEarly, Carries
  <2>5. QED
    BY <2>3, <2>4
<1>17. CASE WorkFails(v)
  <2>1. /\ UNCHANGED <<net, todo, reply, InPool>> /\ w[v] \in {"clean", "lookup", "tag"}
        /\ WorkerSaves(v, Failed(mem[v]), "idle")
    BY <1>17 DEF WorkFails
  <2>2. \/ UNCHANGED lib
        \/ w[v] = "clean" /\ DeletesDead(v)
        \/ w[v] = "tag" /\ WritesTag(v)
    BY <1>17 DEF WorkFails, DeletesDead, WritesTag, Delete
  <2>3. OthersStay(v)
    BY <1>2, <1>4, <1>5, <2>1 DEF OthersStay, InPool
  <2>4. GivesUp(v)
    BY <1>8, <2>1, <2>2 DEF GivesUp
  <2>5. QED
    BY <2>3, <2>4
<1>18. CASE FetchAnswered(v)
  <2> DEFINE e == [mem[v] EXCEPT !.pending = 0, !.vid = reply[v], !.status = "processing"]
             s == IF w[v] = "sent" THEN "tag" ELSE "idle"
  <2>1. /\ UNCHANGED <<lib, net, todo, InPool>> /\ w[v] \in {"sent", "late"}
        /\ reply[v] \notin {0, Refused} /\ reply' = [reply EXCEPT ![v] = 0] /\ WorkerSaves(v, e, s)
    BY <1>18 DEF FetchAnswered
  <2>2. e.status = "processing" /\ e.vid = reply[v] /\ e.pending = 0
    BY <1>1 DEF Entry
  <2> HIDE DEF e
  <2>3. OthersStay(v)
    BY <1>2, <1>4, <1>5, <1>10, <2>1 DEF OthersStay, InPool
  <2>4. HearsGUID(v)
    BY <1>5, <1>10, <2>1, <2>2 DEF HearsGUID
  <2>5. QED
    BY <2>3, <2>4
<1>19. CASE FetchRefused(v)
  <2> DEFINE s == IF aborted /\ mem[v].vid = 0 THEN "pending" ELSE "failed"
             e == [mem[v] EXCEPT !.pending = 0, !.status = s]
  <2>1. /\ UNCHANGED <<lib, net, todo, InPool>> /\ w[v] = "sent"
        /\ reply[v] = Refused /\ reply' = [reply EXCEPT ![v] = 0] /\ WorkerSaves(v, e, "idle")
    BY <1>19 DEF FetchRefused
  <2>2. e.status = s /\ e.vid = mem[v].vid /\ e.pending = 0
    BY <1>1 DEF Entry
  <2> HIDE DEF e
  <2>3. OthersStay(v)
    BY <1>2, <1>4, <1>5, <1>10, <2>1 DEF OthersStay, InPool
  <2>4. HearsRefusal(v)
    BY <1>5, <1>10, <2>1, <2>2 DEF HearsRefusal
  <2>5. QED
    BY <2>3, <2>4
<1>20. CASE FetchIndeterminate(v)
  <2>1. /\ UNCHANGED <<lib, net, todo, InPool>> /\ w[v] = "sent"
        /\ reply' = [reply EXCEPT ![v] = 0] /\ WorkerSaves(v, Failed(mem[v]), "idle")
    BY <1>20 DEF FetchIndeterminate
  <2>2. OthersStay(v)
    BY <1>2, <1>4, <1>5, <1>10, <2>1 DEF OthersStay, InPool
  <2>3. GivesUp(v)
    BY <1>8, <1>10, <2>1 DEF GivesUp
  <2>4. QED
    BY <2>2, <2>3
<1>21. CASE TagWritten(v)
  <2>1. /\ UNCHANGED <<net, todo, reply, InPool>> /\ w[v] = "tag"
        /\ WritesTag(v) /\ WorkerSaves(v, mem[v], "idle")
    BY <1>21 DEF TagWritten, WritesTag
  <2>2. OthersStay(v)
    BY <1>2, <1>4, <1>5, <2>1 DEF OthersStay, InPool
  <2>3. Tags(v)
    BY <1>5, <2>1 DEF Tags, Carries
  <2>4. QED
    BY <2>2, <2>3
<1>22. CASE PickForWait(v)
  <2>1. w' = [w EXCEPT ![v] = "await"] /\ UNCHANGED <<lib, net, journal, mem, reply, InPool>> /\ todo' = todo \ {v}
        /\ pc = "wait" /\ v \in todo
    BY <1>22 DEF PickForWait, CanPick
  <2>2. OthersStay(v)
    BY <1>2, <1>4, <1>6, <2>1 DEF OthersStay, InPool
  <2>3. Awaits(v)
    BY <1>6, <2>1 DEF Awaits
  <2>4. QED
    BY <2>2, <2>3
<1>23. CASE Encoded(v)
  <2> DEFINE h == lib[mem[v].vid].health
             d == [mem[v] EXCEPT !.status = "completed"]
             f == Failed([mem[v] EXCEPT !.permanent = mem[v].permanent \/ h = "rejected"])
             e == IF h = "finished" THEN d ELSE f
  <2>1. /\ UNCHANGED <<lib, net, todo, reply, InPool>> /\ w[v] = "await"
        /\ WorkerSaves(v, e, "idle")
    BY <1>23 DEF Encoded
  <2>2. d.status = "completed" /\ d.vid = mem[v].vid /\ d.pending = mem[v].pending
    BY <1>1 DEF Entry
  <2>3. f.status = "failed" /\ f.vid = mem[v].vid /\ f.pending = mem[v].pending
    BY <1>1 DEF Entry, Failed
  <2> HIDE DEF d, f
  <2>4. OthersStay(v)
    BY <1>2, <1>4, <1>5, <2>1 DEF OthersStay, InPool
  <2>5. CASE h = "finished"
    <3>1. mem'[v] = d /\ w'[v] = "idle"
      BY <1>5, <2>1, <2>5
    <3>2. StopsWaiting(v)
      BY <2>1, <2>2, <2>5, <3>1 DEF StopsWaiting, Carries
    <3>3. QED
      BY <2>4, <3>2
  <2>6. CASE h # "finished"
    <3>1. mem'[v] = f /\ w'[v] = "idle"
      BY <1>5, <2>1, <2>6
    <3>2. GivesUp(v)
      BY <2>1, <2>3, <3>1 DEF GivesUp, Carries
    <3>3. QED
      BY <2>4, <3>2
  <2>7. QED
    BY <2>5, <2>6
<1>24. CASE WaitFails(v)
  <2>1. /\ UNCHANGED <<lib, net, todo, reply, InPool>> /\ w[v] = "await"
        /\ WorkerSaves(v, Failed(mem[v]), "idle")
    BY <1>24 DEF WaitFails
  <2>2. OthersStay(v)
    BY <1>2, <1>4, <1>5, <2>1 DEF OthersStay, InPool
  <2>3. GivesUp(v)
    BY <1>8, <2>1 DEF GivesUp
  <2>4. QED
    BY <2>2, <2>3
<1>25. CASE WaitPaused(v)
  <2>1. w' = [w EXCEPT ![v] = "idle"] /\ UNCHANGED <<lib, net, journal, mem, todo, reply, InPool>>
        /\ w[v] = "await"
    BY <1>25 DEF WaitPaused
  <2>2. OthersStay(v)
    BY <1>2, <1>4, <1>6, <2>1 DEF OthersStay, InPool
  <2>3. StopsWaiting(v)
    BY <1>6, <2>1 DEF StopsWaiting
  <2>4. QED
    BY <2>2, <2>3
<1>26. CASE Timeout(v)
  <2> DEFINE s == CASE w[v] = "sent" -> "late" [] w[v] = "tag" -> "latetag" [] OTHER -> "idle"
  <2>1. /\ UNCHANGED <<lib, net, todo, reply, epoch, service, runs, pc, opt, cached, aborted, snap,
                       index, scope>>
        /\ w[v] \in {"clean", "lookup", "sent", "tag", "await"} /\ WorkerSaves(v, Failed(mem[v]), s)
    BY <1>26 DEF Timeout
  <2>2. s \in {"idle", "late", "latetag"} /\ (s = "late" => w[v] = "sent") /\ (s = "latetag" => w[v] = "tag")
    OBVIOUS
  <2> HIDE DEF s
  <2>3. OthersStay(v)
    BY <1>2, <1>4, <1>5, <2>1 DEF OthersStay
  <2>4. GivesUp(v)
    BY <1>8, <2>1, <2>2 DEF GivesUp
  <2>5. QED
    BY <2>3, <2>4
<1>27. CASE LateTag(v)
  <2>1. w' = [w EXCEPT ![v] = "idle"] /\ UNCHANGED <<net, journal, mem, todo, reply, InPool>>
        /\ w[v] = "latetag" /\ WritesTag(v)
    BY <1>27 DEF LateTag, WritesTag
  <2>2. OthersStay(v)
    BY <1>2, <1>4, <1>6, <2>1 DEF OthersStay, InPool
  <2>3. Tags(v)
    BY <1>6, <2>1 DEF Tags
  <2>4. QED
    BY <2>2, <2>3
<1>28. QED
  BY <1>11, <1>12, <1>13, <1>14, <1>15, <1>16, <1>17, <1>18, <1>19, <1>20, <1>21, <1>22, <1>23,
     <1>24, <1>25, <1>26, <1>27 DEF WorkerStep

(* A video whose health is set keeps the rest of its record, and the others theirs. *)
LEMMA HealthSet ==
  ASSUME NEW s \in Seq(VideoRecord), NEW g, NEW h \in Health,
         NEW t, t = [s EXCEPT ![g].health = h]
  PROVE  /\ DOMAIN t = DOMAIN s /\ Len(t) = Len(s)
         /\ \A k \in DOMAIN s : /\ t[k].src = s[k].src /\ t[k].tag = s[k].tag
                                /\ t[k].title = s[k].title /\ t[k].at = s[k].at
                                /\ t[k].health = IF k = g THEN h ELSE s[k].health
<1>1. t \in Seq(VideoRecord) /\ DOMAIN t = DOMAIN s
  BY HealthType
<1>2. DOMAIN s = 1 .. Len(s) /\ DOMAIN t = 1 .. Len(t) /\ Len(s) \in Nat /\ Len(t) \in Nat
  BY <1>1, LenProperties
<1>3. Len(t) = Len(s)
  BY <1>1, <1>2
<1>4. ASSUME NEW k \in DOMAIN s
      PROVE  /\ t[k].src = s[k].src /\ t[k].tag = s[k].tag
             /\ t[k].title = s[k].title /\ t[k].at = s[k].at
             /\ t[k].health = IF k = g THEN h ELSE s[k].health
  <2>1. s[k] \in VideoRecord
    BY <1>2, ElementOfSeq
  <2>2. CASE k = g
    <3>1. t[k] = [s[k] EXCEPT !.health = h]
      BY <2>2
    <3>2. QED
      BY <2>1, <2>2, <3>1 DEF VideoRecord
  <2>3. CASE k # g
    BY <2>3
  <2>4. QED
    BY <2>2, <2>3
<1>5. QED
  BY <1>1, <1>3, <1>4

(* The same for the tag. *)
LEMMA TagSet ==
  ASSUME NEW s \in Seq(VideoRecord), NEW g, NEW v \in Video,
         NEW t, t = [s EXCEPT ![g].tag = v]
  PROVE  /\ DOMAIN t = DOMAIN s /\ Len(t) = Len(s)
         /\ \A k \in DOMAIN s : /\ t[k].src = s[k].src /\ t[k].health = s[k].health
                                /\ t[k].title = s[k].title /\ t[k].at = s[k].at
                                /\ t[k].tag = IF k = g THEN v ELSE s[k].tag
<1>1. t \in Seq(VideoRecord) /\ DOMAIN t = DOMAIN s
  BY TagType
<1>2. DOMAIN s = 1 .. Len(s) /\ DOMAIN t = 1 .. Len(t) /\ Len(s) \in Nat /\ Len(t) \in Nat
  BY <1>1, LenProperties
<1>3. Len(t) = Len(s)
  BY <1>1, <1>2
<1>4. ASSUME NEW k \in DOMAIN s
      PROVE  /\ t[k].src = s[k].src /\ t[k].health = s[k].health
             /\ t[k].title = s[k].title /\ t[k].at = s[k].at
             /\ t[k].tag = IF k = g THEN v ELSE s[k].tag
  <2>1. s[k] \in VideoRecord
    BY <1>2, ElementOfSeq
  <2>2. CASE k = g
    <3>1. t[k] = [s[k] EXCEPT !.tag = v]
      BY <2>2
    <3>2. QED
      BY <2>1, <2>2, <3>1 DEF VideoRecord
  <2>3. CASE k # g
    BY <2>3
  <2>4. QED
    BY <2>2, <2>3
<1>5. QED
  BY <1>1, <1>3, <1>4

(* A video that is added comes last, untagged and processing. *)
LEMMA VideoAdded ==
  ASSUME TypeOK, NEW src \in Video \cup {None}, NEW title \in Title, NewVideo(src, title)
  PROVE  /\ DOMAIN lib = 1 .. Len(lib) /\ DOMAIN lib' = 1 .. Len(lib) + 1 /\ Len(lib') = Len(lib) + 1
         /\ \A k \in DOMAIN lib : k \in DOMAIN lib' /\ lib'[k] = lib[k]
         /\ lib'[Len(lib) + 1] = [src |-> src, tag |-> None, title |-> title,
                                  health |-> "processing", at |-> epoch]
<1> DEFINE r == [src |-> src, tag |-> None, title |-> title, health |-> "processing", at |-> epoch]
<1>1. lib \in Seq(VideoRecord) /\ lib' = Append(lib, r)
  BY DEF TypeOK, NewVideo
<1>2. r \in VideoRecord
  BY DEF TypeOK, VideoRecord, Health
<1> HIDE DEF r
<1>3. /\ lib' \in Seq(VideoRecord) /\ Len(lib') = Len(lib) + 1
      /\ \A k \in 1 .. Len(lib) : lib'[k] = lib[k]
      /\ lib'[Len(lib) + 1] = r
  BY <1>1, <1>2, AppendProperties
<1>4. DOMAIN lib = 1 .. Len(lib) /\ DOMAIN lib' = 1 .. Len(lib') /\ Len(lib) \in Nat
  BY <1>1, <1>3, LenProperties
<1>5. QED
  BY <1>3, <1>4 DEF r

(* The deletes of a run: a dead copy of a video it cleans up for, or the stalled copy it is to retry. *)
Removes ==
  \E g \in DOMAIN snap :
    /\ lib' = [lib EXCEPT ![g].health = "gone"]
    /\ \/ \E v \in Video : g \in DeadCopies(snap, v)
       \/ \E v \in Video : index[v] = g /\ snap[g].health = "stalled"

LEMMA LibrarySteps ==
  ASSUME IInv, [Next]_vars, index \in SourceIndexes(snap)
  PROVE  \/ lib' = lib
         \/ Removes
         \/ \E v \in Video : w[v] \in {"tag", "latetag"} /\ WritesTag(v)
         \/ ForeignUpload
         \/ \E f \in net : Land(f)
         \/ \E g \in DOMAIN lib : Progress(g)
<1>0. TypeOK'
  BY NextTyped DEF IInv
<1>1. ASSUME NEW v \in Video, StalledToRetry(v), Delete(index[v])
      PROVE  Removes
  <2>1. index[v] # 0 /\ snap[index[v]].health = "stalled"
    BY <1>1 DEF StalledToRetry
  <2>2. index[v] \in DOMAIN snap
    BY <2>1 DEF SourceIndexes, Healthiest, Tagged, Listed
  <2>3. QED
    BY <1>1, <2>1, <2>2 DEF Removes, Delete
<1>2. ASSUME NEW v \in Video, DeletesDead(v)
      PROVE  Removes
  BY <1>2 DEF DeletesDead, Removes, DeadCopies, Tagged, Listed
<1>3. CASE StartRun
  BY <1>3 DEF StartRun
<1>4. CASE LoadIndex \/ LoadFails
  BY <1>4 DEF LoadIndex, LoadFails, durable
<1>5. CASE CollectionsFail \/ Prepare \/ BeginQueue \/ BeginWait \/ Finish
  BY <1>5 DEF CollectionsFail, RunFails, Prepare, BeginQueue, BeginWait, durable, Finish
<1>6. ASSUME NEW v \in Video, ReconcileEntry(v) \/ DeleteStalled(v) \/ DeleteStalledFails(v)
      PROVE  lib' = lib \/ Removes
  BY <1>1, <1>6 DEF ReconcileEntry, durable, DeleteStalled, DeleteStalledFails
<1>7. ASSUME NEW v \in Video, WorkerStep(v) \/ Timeout(v) \/ LateTag(v)
      PROVE  lib' = lib \/ Removes \/ (w[v] \in {"tag", "latetag"} /\ WritesTag(v))
  BY <1>0, <1>2, <1>7, WorkerMoves DEF TakesUp, Cleans, Sends, StopsEarly, GivesUp, HearsGUID, HearsRefusal,
                           Tags, Awaits, StopsWaiting
<1>8. CASE World
  BY <1>7, <1>8 DEF World, Abort, durable, Crash, RefreshStatus, GetSummary, Tick, CollectionReady,
                    NotLanded
<1>9. CASE UNCHANGED vars
  BY <1>9 DEF vars, durable
<1>10. QED
  BY <1>3, <1>4, <1>5, <1>6, <1>7, <1>8, <1>9 DEF Next, RunStep

(* Whatever happens, a video keeps its GUID, source, title and date, and its health moves as Bunny moves it or to "gone". *)
Onward ==
  /\ Len(lib) <= Len(lib') /\ DOMAIN lib \subseteq DOMAIN lib'
  /\ \A g \in DOMAIN lib :
       /\ lib'[g].src = lib[g].src /\ lib'[g].title = lib[g].title /\ lib'[g].at = lib[g].at
       /\ \/ lib'[g].health \in {lib[g].health, "gone"}
          \/ <<lib[g].health, lib'[g].health>> \in HealthSteps

LEMMA LibraryGoesOn ==
  ASSUME IInv, [Next]_vars, index \in SourceIndexes(snap)
  PROVE  Onward
<1>1. lib \in Seq(VideoRecord) /\ TypeOK
  BY DEF IInv, TypeOK
<1>2. Len(lib) \in Nat /\ DOMAIN lib = 1 .. Len(lib)
  BY <1>1, LenProperties
<1>3. CASE lib' = lib
  BY <1>2, <1>3 DEF Onward
<1>4. CASE Removes
  <2>1. PICK g : lib' = [lib EXCEPT ![g].health = "gone"]
    BY <1>4 DEF Removes
  <2>2. "gone" \in Health
    BY DEF Health
  <2>3. QED
    BY <1>1, <1>2, <2>1, <2>2, HealthSet DEF Onward
<1>5. ASSUME NEW v \in Video, WritesTag(v)
      PROVE  Onward
  <2>1. lib' = [lib EXCEPT ![mem[v].vid].tag = v]
    BY <1>5 DEF WritesTag
  <2>2. QED
    BY <1>1, <1>2, <2>1, TagSet DEF Onward
<1>6. CASE ForeignUpload
  <2>1. PICK t \in ForeignTitles : NewVideo(None, t)
    BY <1>6 DEF ForeignUpload
  <2>2. t \in Title
    BY ImportAssumption DEF ImportAssumption
  <2>3. /\ Len(lib') = Len(lib) + 1
        /\ \A k \in DOMAIN lib : k \in DOMAIN lib' /\ lib'[k] = lib[k]
    BY <1>1, <2>1, <2>2, VideoAdded
  <2>4. QED
    BY <1>2, <2>3 DEF Onward
<1>7. ASSUME NEW f \in net, Land(f)
      PROVE  Onward
  <2>1. f.v \in Video /\ TitleOf[f.v] \in Title
    BY <1>1, JournalAssumption DEF TypeOK, JournalAssumption
  <2>2. NewVideo(f.v, TitleOf[f.v])
    BY <1>7 DEF Land
  <2>3. /\ Len(lib') = Len(lib) + 1
        /\ \A k \in DOMAIN lib : k \in DOMAIN lib' /\ lib'[k] = lib[k]
    BY <1>1, <2>1, <2>2, VideoAdded
  <2>4. QED
    BY <1>2, <2>3 DEF Onward
<1>8. ASSUME NEW g \in DOMAIN lib, Progress(g)
      PROVE  Onward
  <2>1. PICK h \in Health : <<lib[g].health, h>> \in HealthSteps /\ lib' = [lib EXCEPT ![g].health = h]
    BY <1>8 DEF Progress
  <2>2. /\ DOMAIN lib' = DOMAIN lib /\ Len(lib') = Len(lib)
        /\ \A k \in DOMAIN lib : /\ lib'[k].src = lib[k].src /\ lib'[k].title = lib[k].title
                                 /\ lib'[k].at = lib[k].at
                                 /\ lib'[k].health = IF k = g THEN h ELSE lib[k].health
    BY <1>1, <2>1, HealthSet
  <2>3. ASSUME NEW k \in DOMAIN lib
        PROVE  lib'[k].health = lib[k].health \/ <<lib[k].health, lib'[k].health>> \in HealthSteps
    <3>1. CASE k = g
      BY <2>1, <2>2, <3>1
    <3>2. CASE k # g
      BY <2>2, <3>2
    <3>3. QED
      BY <3>1, <3>2
  <2>4. QED
    BY <1>2, <2>2, <2>3 DEF Onward
<1>9. QED
  BY <1>3, <1>4, <1>5, <1>6, <1>7, <1>8, LibrarySteps

-----------------------------------------------------------------------------
(* What the passes do to one entry. *)

LEMMA RequeuedEntry ==
  ASSUME NEW ents \in Entries, NEW inFolder, NEW clean \in BOOLEAN, NEW v \in Video,
         NEW e, e = RequeueFailed(ents, inFolder, clean)[v]
  PROVE  /\ e.vid = ents[v].vid /\ e.pending = ents[v].pending
         /\ \/ e = ents[v]
            \/ /\ ents[v].status = "failed"
               /\ e.status = IF ents[v].vid # 0 THEN "processing" ELSE "pending"
<1>1. ents[v] \in Entry
  BY DEF Entries
<1>2. CASE v \in inFolder /\ ents[v].status = "failed" /\ ~GivenUp(ents[v], clean)
  <2>1. e = [ents[v] EXCEPT !.status = IF ents[v].vid # 0 THEN "processing" ELSE "pending"]
    BY <1>2 DEF RequeueFailed
  <2>2. QED
    BY <1>1, <1>2, <2>1 DEF Entry
<1>3. CASE ~(v \in inFolder /\ ents[v].status = "failed" /\ ~GivenUp(ents[v], clean))
  BY <1>3 DEF RequeueFailed
<1>4. QED
  BY <1>2, <1>3

LEMMA RecoveredEntry ==
  ASSUME NEW s, NEW ents \in Entries, NEW v \in Video,
         NEW e, e = RecoverLostFetches(s, ents)[v],
         NEW g, g = FindLostFetch(s, ents, v)
  PROVE  IF v \in Lost(ents)
         THEN /\ e.pending = 0 /\ e.vid = g
              /\ e.status = IF g # 0 THEN "processing" ELSE ents[v].status
         ELSE e = ents[v]
<1>1. ents[v] \in Entry
  BY DEF Entries
<1>2. CASE v \in Lost(ents)
  <2>1. e = [ents[v] EXCEPT !.pending = 0, !.vid = g,
                            !.status = IF g # 0 THEN "processing" ELSE ents[v].status]
    BY <1>2 DEF RecoverLostFetches
  <2>2. QED
    BY <1>1, <1>2, <2>1 DEF Entry
<1>3. CASE v \notin Lost(ents)
  BY <1>3 DEF RecoverLostFetches
<1>4. QED
  BY <1>2, <1>3

LEMMA AdoptedEntry ==
  ASSUME NEW s, NEW idx, NEW saved \in Entries, NEW v \in Video,
         NEW e, e = AdoptOrphans(s, idx, saved)[v],
         NEW g, g = IF saved[v].vid # 0 THEN saved[v].vid ELSE FindLostFetch(s, saved, v)
  PROVE  IF v \in Present(saved) /\ g \in Listed(s) /\ ~IsTagged(idx, g) /\ idx[v] = 0
         THEN e.status = "processing" /\ e.vid = g /\ e.pending = 0
         ELSE e = NoEntry
<1>1. saved[v] \in Entry
  BY DEF Entries
<1>2. CASE v \in Present(saved) /\ g \in Listed(s) /\ ~IsTagged(idx, g) /\ idx[v] = 0
  <2>1. e = [saved[v] EXCEPT !.pending = 0, !.vid = g, !.status = "processing"]
    BY <1>2 DEF AdoptOrphans
  <2>2. QED
    BY <1>1, <1>2, <2>1 DEF Entry
<1>3. CASE ~(v \in Present(saved) /\ g \in Listed(s) /\ ~IsTagged(idx, g) /\ idx[v] = 0)
  BY <1>3 DEF AdoptOrphans
<1>4. QED
  BY <1>2, <1>3

LEMMA NewEntries ==
  /\ NoEntry.status = "absent" /\ NoEntry.vid = 0 /\ NoEntry.pending = 0
  /\ NewEntry.status = "pending" /\ NewEntry.vid = 0 /\ NewEntry.pending = 0
BY DEF NewEntry, NoEntry

(* What reconciling may make of entry e whose indexed video is g. *)
Outcome(s, e, g, clean, r) ==
  /\ r.pending = e.pending
  /\ \/ r = e /\ (e.status \in {"completed", "failed"} \/ g = 0)
     \/ /\ e.status \notin {"completed", "failed"} /\ g # 0
        /\ \/ r.vid = g /\ r.status = "completed" /\ s[g].health = "finished"
           \/ r.vid = g /\ r.status = "processing" /\ InProgress(s[g].health)
           \/ r.vid = g /\ r.status = "failed" /\ s[g].health = "rejected" /\ ~clean
           \/ /\ r.vid = 0 /\ r.status = "pending"
              /\ s[g].health # "finished" /\ ~InProgress(s[g].health)
              /\ s[g].health = "rejected" => clean

LEMMA ReconciledEntry ==
  ASSUME NEW s, NEW e \in Entry, NEW g \in Nat, NEW clean \in BOOLEAN,
         NEW r, r = Reconciled(s, e, g, clean)
  PROVE  Outcome(s, e, g, clean, r)
<1> USE DEF Outcome
<1>1. CASE e.status \in {"completed", "failed"} \/ g = 0
  BY <1>1 DEF Reconciled
<1> DEFINE h == s[g].health
<1>2. CASE ~(e.status \in {"completed", "failed"} \/ g = 0) /\ h = "finished"
  <2>1. r = [e EXCEPT !.vid = g, !.status = "completed"]
    BY <1>2 DEF Reconciled, InProgress
  <2>2. QED
    BY <1>2, <2>1 DEF Entry
<1>3. CASE ~(e.status \in {"completed", "failed"} \/ g = 0) /\ InProgress(h)
  <2>1. r = [e EXCEPT !.vid = g, !.status = "processing"]
    BY <1>3 DEF Reconciled, InProgress
  <2>2. QED
    BY <1>3, <2>1 DEF Entry
<1>4. CASE ~(e.status \in {"completed", "failed"} \/ g = 0) /\ h = "rejected" /\ ~clean
  <2>1. r = [e EXCEPT !.vid = g, !.status = "failed", !.permanent = TRUE]
    BY <1>4 DEF Reconciled, InProgress
  <2>2. QED
    BY <1>4, <2>1 DEF Entry
<1>5. CASE /\ ~(e.status \in {"completed", "failed"} \/ g = 0) /\ h # "finished"
           /\ ~InProgress(h) /\ ~(h = "rejected" /\ ~clean)
  <2>1. r = [e EXCEPT !.vid = 0, !.status = "pending"]
    BY <1>5 DEF Reconciled
  <2>2. QED
    BY <1>5, <2>1 DEF Entry
<1>6. QED
  BY <1>1, <1>2, <1>3, <1>4, <1>5

LEMMA StalledDeletedEntry ==
  ASSUME NEW e \in Entry, NEW r, r = StalledDeleted(e)
  PROVE  r.vid = 0 /\ r.status = "pending" /\ r.pending = e.pending
BY DEF StalledDeleted, Entry

LEMMA GoneEntry ==
  ASSUME NEW ents \in Entries, NEW gone, NEW v \in Video, NEW e, e = FailGone(ents, gone)[v]
  PROVE  /\ e.vid = ents[v].vid /\ e.pending = ents[v].pending
         /\ e.status = IF v \in gone THEN "failed" ELSE ents[v].status
<1>1. ents[v] \in Entry
  BY DEF Entries
<1>2. CASE v \in gone
  <2>1. e = [ents[v] EXCEPT !.status = "failed", !.permanent = TRUE]
    BY <1>2 DEF FailGone
  <2>2. QED
    BY <1>1, <1>2, <2>1 DEF Entry
<1>3. CASE v \notin gone
  BY <1>3 DEF FailGone
<1>4. QED
  BY <1>2, <1>3

LEMMA RefreshedEntry ==
  ASSUME NEW s, NEW ents \in Entries, NEW v \in Video, NEW e, e = Refresh(s, ents)[v]
  PROVE  /\ e.vid = ents[v].vid /\ e.pending = ents[v].pending
         /\ \/ e = ents[v]
            \/ /\ ents[v].vid # 0 /\ ents[v].status # "absent"
               /\ \/ e.status \in {"failed", "processing", ents[v].status}
                  \/ /\ e.status = "completed" /\ ents[v].vid \in Listed(s)
                     /\ s[ents[v].vid].health = "finished"
<1>1. ents[v] \in Entry
  BY DEF Entries
<1> DEFINE o == ents[v]
           h == s[o.vid].health
<1>2. CASE v \notin Present(ents) \/ o.vid = 0
  <2>1. e = ents[v]
    BY <1>2 DEF Refresh, RefreshEntry
  <2>2. QED
    BY <2>1
<1>3. CASE v \in Present(ents) /\ o.vid # 0
  <2>0. e = RefreshEntry(s, o) /\ o.status # "absent"
    BY <1>3 DEF Refresh, Present
  <2>1. CASE o.vid \notin Listed(s)
    <3>1. e = [o EXCEPT !.status = IF o.status = "completed" THEN o.status ELSE "failed"]
      BY <1>3, <2>0, <2>1 DEF RefreshEntry
    <3>2. QED
      BY <1>1, <1>3, <2>0, <3>1 DEF Entry
  <2>2. CASE o.vid \in Listed(s) /\ h = "finished"
    <3>1. e = [o EXCEPT !.status = "completed"]
      BY <1>3, <2>0, <2>2 DEF RefreshEntry, IsDead
    <3>2. QED
      BY <1>1, <1>3, <2>0, <2>2, <3>1 DEF Entry
  <2>3. CASE o.vid \in Listed(s) /\ IsDead(h)
    <3>1. e = [o EXCEPT !.status = "failed", !.permanent = o.permanent \/ h = "rejected"]
      BY <1>3, <2>0, <2>3 DEF RefreshEntry, IsDead
    <3>2. QED
      BY <1>1, <1>3, <2>0, <3>1 DEF Entry
  <2>4. CASE o.vid \in Listed(s) /\ h # "finished" /\ ~IsDead(h)
    <3>1. e = [o EXCEPT !.status = IF o.status = "completed" THEN o.status ELSE "processing"]
      BY <1>3, <2>0, <2>4 DEF RefreshEntry
    <3>2. QED
      BY <1>1, <1>3, <2>0, <3>1 DEF Entry
  <2>5. QED
    BY <2>1, <2>2, <2>3, <2>4
<1>4. QED
  BY <1>2, <1>3

-----------------------------------------------------------------------------
(* What a run knows: the shape of its entries, its listing, and why a video is queued. *)

Taken(s, idx) == Len(s) <= Len(lib) /\ idx \in SourceIndexes(s)

(* Listings are no longer than the library they were taken from, and indexes are indexes of them. *)
ListingsTaken ==
  /\ Taken(snap, index)
  /\ \A i \in DOMAIN service : Taken(service[i].snap, service[i].index)

(* An entry that is to be fetched records no video, and one that records a video has no fetch outstanding. *)
Shapely(e) ==
  /\ e.status \in {"absent", "pending", "fetching"} => e.vid = 0
  /\ e.vid # 0 \/ e.status = "absent" => e.pending = 0

EntriesShapely == \A v \in Video : Shapely(journal.ents[v]) /\ Shapely(mem[v])

NonePending == pc \in {"collections", "reconcile"} => \A v \in Video : mem[v].pending = 0

(* What a worker's state says of its entry. *)
WorkerShapely(v) ==
  /\ pc = "queue" /\ v \in todo =>
       /\ NeedsQueueing(index, mem[v]) /\ mem[v].pending = 0
       /\ v \in InFolder \/ mem[v].vid # 0
  /\ w[v] \in {"clean", "lookup"} =>
       mem[v].status \in {"pending", "fetching"} /\ mem[v].pending = 0 /\ v \in InFolder
  /\ w[v] \in {"lookup", "sent"} => mem[v].status = "fetching"
  /\ w[v] = "tag" => mem[v].status = "processing" /\ mem[v].vid # 0
  /\ w[v] = "late" => mem[v].status = "failed" /\ mem[v].vid = 0
  /\ w[v] = "latetag" => mem[v].status = "failed" /\ mem[v].vid # 0
  /\ w[v] = "await" => pc = "wait" /\ mem[v].status = "processing" /\ mem[v].vid # 0
  /\ pc = "wait" /\ v \in todo =>
       w[v] = "idle" /\ mem[v].status = "processing" /\ mem[v].vid # 0

WorkersShapely == \A v \in Video : WorkerShapely(v)

ScopeInFolder ==
  pc \notin {"idle", "loading"} => \A v \in scope : opt.folder = None \/ FolderOf[v] = opt.folder

Queueable(v) == pc = "reconcile" /\ v \notin todo /\ NeedsQueueing(index, mem[v])

ToFetch(v) == (pc = "queue" /\ v \in todo) \/ w[v] \in {"clean", "lookup"}

(* Bunny held no tagged copy of the video when its library was listed, or only dead ones, or one that was stalled and is deleted. *)
Cleared(v) ==
  \/ index[v] = 0
  \/ IsDead(snap[index[v]].health) /\ (snap[index[v]].health = "rejected" => opt.clean)
  \/ snap[index[v]].health = "stalled" /\ lib[index[v]].health = "gone"

QueuedCleared == \A v \in Video : Queueable(v) \/ ToFetch(v) => Cleared(v)

RunInv ==
  /\ IInv /\ ListingsTaken /\ EntriesShapely /\ NonePending /\ WorkersShapely /\ ScopeInFolder
  /\ QueuedCleared

LEMMA NothingIndexed == NoIndex \in SourceIndexes(<< >>)
<1>1. \A v \in Video : Tagged(<< >>, v) = {}
  BY DEF Tagged, Listed
<1>2. NoIndex \in [Video -> 0 .. Len(<< >>)] /\ \A v \in Video : NoIndex[v] = 0
  BY DEF NoIndex
<1>3. QED
  BY <1>1, <1>2 DEF SourceIndexes

(* A video the index leads to is in the listing, tagged, and none that is tagged is healthier. *)
LEMMA IndexLeads ==
  ASSUME NEW s, NEW idx \in SourceIndexes(s), NEW v \in Video
  PROVE  /\ idx[v] # 0 => idx[v] \in Healthiest(s, v) /\ idx[v] \in Tagged(s, v) /\ idx[v] \in DOMAIN s
         /\ idx[v] = 0 => Tagged(s, v) = {}
<1>1. CASE Tagged(s, v) = {}
  BY <1>1 DEF SourceIndexes
<1>2. CASE Tagged(s, v) # {}
  BY <1>2 DEF SourceIndexes, Healthiest, Tagged, Listed
<1>3. QED
  BY <1>1, <1>2

LEMMA InitRuns == Init => RunInv
<1> SUFFICES ASSUME Init PROVE RunInv
  OBVIOUS
<1>1. /\ snap = << >> /\ index = NoIndex /\ service = << >> /\ lib = << >> /\ scope = {}
      /\ mem = NoEntries /\ journal.ents = NoEntries /\ pc = "idle" /\ todo = {}
      /\ \A v \in Video : w[v] = "idle"
  BY DEF Init
<1>2. ListingsTaken
  BY <1>1, NothingIndexed DEF ListingsTaken, Taken
<1>3. \A v \in Video : Shapely(NoEntries[v])
  BY NewEntries DEF NoEntries, Shapely
<1>4. EntriesShapely /\ NonePending /\ WorkersShapely /\ ScopeInFolder /\ QueuedCleared
  BY <1>1, <1>3 DEF EntriesShapely, NonePending, WorkersShapely, WorkerShapely, ScopeInFolder, QueuedCleared,
                    Queueable, ToFetch
<1>5. QED
  BY InitProtocol, <1>2, <1>4 DEF RunInv

(* Listings are taken when the library is listed, and the library only grows. *)
LEMMA ListingsKept ==
  ASSUME IInv, ListingsTaken, [Next]_vars
  PROVE  ListingsTaken'
<1>0. TypeOK /\ TypeOK'
  BY NextTyped DEF IInv
<1>1. Onward
  BY LibraryGoesOn DEF ListingsTaken, Taken
<1>2. Len(lib) <= Len(lib') /\ Len(lib) \in Nat /\ Len(lib') \in Nat
  BY <1>0, <1>1, LenProperties DEF Onward, TypeOK
<1>3. ASSUME NEW s \in Seq(VideoRecord), NEW idx, Taken(s, idx)
      PROVE  Len(s) <= Len(lib') /\ idx \in SourceIndexes(s)
  BY <1>2, <1>3, LenProperties DEF Taken
<1>4. snap \in Seq(VideoRecord) /\ \A i \in DOMAIN service : service[i].snap \in Seq(VideoRecord)
  <2> DEFINE S == [snap: Seq(VideoRecord), index: [Video -> Nat]]
  <2>1. service \in Seq(S)
    BY <1>0 DEF TypeOK
  <2>2. \A x \in S : x.snap \in Seq(VideoRecord)
    OBVIOUS
  <2> HIDE DEF S
  <2>3. \A i \in DOMAIN service : service[i] \in S
    BY <2>1, ElementOfSeq, LenProperties
  <2>4. QED
    BY <1>0, <2>2, <2>3 DEF TypeOK
<1>5. Taken(snap, index)' \/ snap' # snap \/ index' # index
  BY <1>3, <1>4 DEF ListingsTaken, Taken
<1>6. (\A i \in DOMAIN service : Taken(service[i].snap, service[i].index))' \/ service' # service
  BY <1>3, <1>4 DEF ListingsTaken, Taken
<1>7. CASE Over /\ UNCHANGED service
  BY <1>2, <1>6, <1>7, NothingIndexed DEF Over, ListingsTaken, Taken
<1>8. CASE UNCHANGED <<snap, index, service>>
  BY <1>5, <1>6, <1>8 DEF ListingsTaken
<1>9. CASE GetSummary
  <2>1. PICK idx \in SourceIndexes(lib) : service' = <<[snap |-> lib, index |-> idx]>>
    BY <1>9 DEF GetSummary
  <2>2. UNCHANGED <<snap, index, lib>>
    BY <1>9 DEF GetSummary, volatile
  <2>3. \A i \in DOMAIN service' : service'[i].snap = lib /\ service'[i].index = idx
    BY <2>1
  <2>4. QED
    BY <1>2, <1>5, <2>2, <2>3 DEF ListingsTaken, Taken
<1>10. CASE StartRun
  <2>1. CASE UNCHANGED <<service, cached, snap, index>>
    BY <1>8, <2>1
  <2>2. CASE /\ service # << >> /\ snap' = service[1].snap /\ index' = service[1].index
             /\ service' = << >>
    <3>1. 1 \in DOMAIN service
      BY <1>0, <2>2 DEF TypeOK
    <3>2. Taken(service[1].snap, service[1].index) /\ service[1].snap \in Seq(VideoRecord)
      BY <1>4, <3>1 DEF ListingsTaken
    <3>3. QED
      BY <1>3, <2>2, <3>2 DEF ListingsTaken, Taken
  <2>3. QED
    BY <1>10, <2>1, <2>2 DEF StartRun
<1>11. CASE LoadIndex
  <2>1. UNCHANGED service /\ lib' = lib
    BY <1>11 DEF LoadIndex, durable
  <2>2. Taken(snap, index)'
    BY <1>2, <1>5, <1>11, <2>1 DEF LoadIndex, Taken
  <2>3. QED
    BY <1>6, <2>1, <2>2 DEF ListingsTaken
<1>12. CASE LoadFails \/ CollectionsFail \/ Finish \/ Crash
  BY <1>7, <1>12 DEF LoadFails, CollectionsFail, RunFails, Finish, Crash, durable
<1>13. CASE Prepare \/ BeginQueue \/ BeginWait
  BY <1>8, <1>13 DEF Prepare, BeginQueue, BeginWait, durable
<1>14. ASSUME NEW v \in Video, ReconcileEntry(v) \/ DeleteStalled(v) \/ DeleteStalledFails(v)
       PROVE  ListingsTaken'
  BY <1>7, <1>8, <1>14 DEF ReconcileEntry, durable, DeleteStalled, DeleteStalledFails
<1>15. ASSUME NEW v \in Video, WorkerStep(v) \/ Timeout(v) \/ LateTag(v)
       PROVE  ListingsTaken'
  BY <1>0, <1>8, <1>15, WorkerMoves DEF OthersStay
<1>16. CASE World
  BY <1>8, <1>9, <1>12, <1>15, <1>16
     DEF World, Abort, durable, RefreshStatus, volatile, ForeignUpload, Tick, CollectionReady, Land,
         NotLanded, Progress
<1>17. CASE UNCHANGED vars
  BY <1>8, <1>17 DEF vars, durable, volatile
<1>18. QED
  BY <1>10, <1>11, <1>12, <1>13, <1>14, <1>15, <1>16, <1>17 DEF Next, RunStep

(* Once a video is cleared for fetching it stays so: a deleted copy never comes back. *)
LEMMA ClearedStays ==
  ASSUME TypeOK, ListingsTaken, Onward, UNCHANGED <<opt, snap, index>>, NEW v \in Video, Cleared(v)
  PROVE  Cleared(v)'
<1>1. CASE index[v] # 0 /\ snap[index[v]].health = "stalled" /\ lib[index[v]].health = "gone"
  <2>1. index[v] \in DOMAIN snap
    BY <1>1, IndexLeads DEF ListingsTaken, Taken
  <2>2. index[v] \in DOMAIN lib
    BY <2>1, LenProperties DEF ListingsTaken, Taken, TypeOK
  <2>3. lib'[index[v]].health = "gone"
    <3>1. \A h : <<"gone", h>> \notin HealthSteps
      BY ImportAssumption DEF ImportAssumption
    <3>2. QED
      BY <1>1, <2>2, <3>1 DEF Onward
  <2>4. QED
    BY <1>1, <2>3 DEF Cleared
<1>2. QED
  BY <1>1 DEF Cleared

LEMMA OverRuns ==
  ASSUME RunInv, IInv', ListingsTaken', Over, \A v \in Video : Shapely(journal.ents[v])'
  PROVE  RunInv'
<1>1. /\ pc' = "idle" /\ todo' = {} /\ scope' = {} /\ mem' = NoEntries
      /\ \A v \in Video : w'[v] = "idle"
  BY DEF Over
<1>2. \A v \in Video : mem'[v] = NoEntry
  BY <1>1 DEF NoEntries
<1>3. EntriesShapely'
  BY <1>2, NewEntries DEF EntriesShapely, Shapely
<1>4. NonePending' /\ WorkersShapely' /\ ScopeInFolder' /\ QueuedCleared'
  BY <1>1 DEF NonePending, WorkersShapely, WorkerShapely, ScopeInFolder, QueuedCleared, Queueable, ToFetch
<1>5. QED
  BY <1>3, <1>4 DEF RunInv

(* A step that leaves alone what the run works on. *)
LEMMA FrameRuns ==
  ASSUME RunInv, IInv', ListingsTaken', Onward,
         UNCHANGED <<pc, opt, snap, index, scope, mem, todo, w>>,
         \A v \in Video : Shapely(journal.ents[v])'
  PROVE  RunInv'
<1>1. EntriesShapely' /\ NonePending' /\ ScopeInFolder'
  BY DEF RunInv, EntriesShapely, NonePending, ScopeInFolder, Shapely
<1>2. WorkersShapely'
  BY DEF RunInv, WorkersShapely, WorkerShapely, InFolder
<1>3. QueuedCleared'
  <2>1. ASSUME NEW v \in Video, (Queueable(v) \/ ToFetch(v))'
        PROVE  Cleared(v)'
    <3>1. Cleared(v)
      BY <2>1 DEF RunInv, QueuedCleared, Queueable, ToFetch
    <3>2. QED
      BY <3>1, ClearedStays DEF RunInv, IInv
  <2>2. QED
    BY <2>1 DEF QueuedCleared
<1>4. QED
  BY <1>1, <1>2, <1>3 DEF RunInv

LEMMA StartRuns ==
  ASSUME RunInv, IInv', ListingsTaken', StartRun
  PROVE  RunInv'
<1>1. /\ pc = "idle" /\ pc' = "loading" /\ UNCHANGED <<journal, mem, w, todo, scope>>
  BY DEF StartRun
<1>2. \A v \in Video : w'[v] = "idle"
  BY <1>1 DEF RunInv, IInv, NothingEarly
<1>3. EntriesShapely'
  BY <1>1 DEF RunInv, EntriesShapely, Shapely
<1>4. NonePending' /\ WorkersShapely' /\ QueuedCleared'
  BY <1>1, <1>2 DEF NonePending, WorkersShapely, WorkerShapely, QueuedCleared, Queueable, ToFetch
<1>5. QED
  BY <1>1, <1>3, <1>4 DEF RunInv, ScopeInFolder


(* Loading the index: whatever the recovery pass makes of the entries, no fetch stays outstanding. *)
LEMMA LoadedEntries ==
  ASSUME RunInv, TypeOK', LoadIndex, NEW v \in Video
  PROVE  Shapely(mem[v])' /\ mem'[v].pending = 0
<1>1. /\ journal.ents \in Entries /\ opt.clean \in BOOLEAN
      /\ snap' \in Seq(VideoRecord)
  BY DEF RunInv, IInv, TypeOK, OptionRecord
<1>2. Shapely(journal.ents[v]) /\ journal.ents[v] \in Entry
  BY <1>1 DEF RunInv, EntriesShapely, Entries
<1>3. CASE Resumed
  <2> DEFINE F == IF opt.folder = None THEN Video ELSE scope'
             R == RequeueFailed(journal.ents, F, opt.clean)
             g == FindLostFetch(snap', R, v)
  <2>1. mem' = RecoverLostFetches(snap', R)
    BY <1>3 DEF LoadIndex
  <2>2. R \in Entries
    BY <1>1, RequeueFailedType
  <2>3. /\ R[v].vid = journal.ents[v].vid /\ R[v].pending = journal.ents[v].pending
        /\ \/ R[v] = journal.ents[v]
           \/ /\ journal.ents[v].status = "failed"
              /\ R[v].status = IF journal.ents[v].vid # 0 THEN "processing" ELSE "pending"
    BY <1>1, RequeuedEntry
  <2> HIDE DEF R, g
  <2>4. IF v \in Lost(R)
        THEN /\ mem'[v].pending = 0 /\ mem'[v].vid = g
             /\ mem'[v].status = IF g # 0 THEN "processing" ELSE R[v].status
        ELSE mem'[v] = R[v]
    BY <2>1, <2>2, RecoveredEntry DEF g
  <2>5. Shapely(R[v])
    BY <1>2, <2>3 DEF Shapely
  <2>6. CASE v \in Lost(R)
    <3>1. R[v].vid = 0
      BY <2>6 DEF Lost
    <3>2. QED
      BY <2>4, <2>5, <2>6, <3>1 DEF Shapely, Lost, Present
  <2>7. CASE v \notin Lost(R)
    <3>1. R[v].pending = 0
      BY <2>5, <2>7 DEF Shapely, Lost, Present
    <3>2. QED
      BY <2>4, <2>5, <2>7, <3>1 DEF Shapely
  <2>8. QED
    BY <2>6, <2>7
<1>4. CASE ~Resumed
  <2>1. mem' = AdoptOrphans(snap', index', journal.ents)
    BY <1>4 DEF LoadIndex
  <2>2. mem'[v] = NoEntry \/ (mem'[v].status = "processing" /\ mem'[v].pending = 0)
    BY <1>1, <2>1, AdoptedEntry
  <2>3. QED
    BY <2>2, NewEntries DEF Shapely
<1>5. QED
  BY <1>3, <1>4

LEMMA LoadRuns ==
  ASSUME RunInv, IInv', ListingsTaken', LoadIndex
  PROVE  RunInv'
<1>1. pc = "loading" /\ pc' = "collections" /\ UNCHANGED <<journal, w, todo, opt>>
  BY DEF LoadIndex, durable
<1>2. \A v \in Video : w'[v] = "idle"
  BY <1>1 DEF RunInv, IInv, NothingEarly, EarlyPhase
<1>3. EntriesShapely' /\ NonePending'
  BY <1>1, LoadedEntries DEF RunInv, IInv, EntriesShapely, NonePending, Shapely
<1>4. WorkersShapely' /\ QueuedCleared'
  BY <1>1, <1>2 DEF WorkersShapely, WorkerShapely, QueuedCleared, Queueable, ToFetch
<1>5. ScopeInFolder'
  BY <1>1 DEF ScopeInFolder, LoadIndex
<1>6. QED
  BY <1>3, <1>4, <1>5 DEF RunInv

LEMMA PrepareRuns ==
  ASSUME RunInv, IInv', ListingsTaken', Prepare
  PROVE  RunInv'
<1>1. /\ pc = "collections" /\ pc' = "reconcile" /\ UNCHANGED <<w, opt, scope, index>>
      /\ mem' = PrepareEntries(mem, scope) /\ journal'.ents = mem' /\ todo' = Present(mem')
  BY DEF Prepare, Flush
<1>2. \A v \in Video : w'[v] = "idle"
  BY <1>1 DEF RunInv, IInv, NothingEarly, EarlyPhase
<1>3. ASSUME NEW v \in Video
      PROVE  Shapely(mem[v])' /\ mem'[v].pending = 0
  <2>1. mem'[v] = NewEntry \/ mem'[v] = mem[v]
    BY <1>1 DEF PrepareEntries
  <2>2. Shapely(mem[v]) /\ mem[v].pending = 0
    BY <1>1 DEF RunInv, EntriesShapely, NonePending
  <2>3. QED
    BY <2>1, <2>2, NewEntries DEF Shapely
<1>4. EntriesShapely' /\ NonePending'
  BY <1>1, <1>3 DEF EntriesShapely, NonePending, Shapely
<1>5. \A v \in Video : v \notin todo' => ~NeedsQueueing(index', mem'[v])
  BY <1>1 DEF Present, NeedsQueueing
<1>6. WorkersShapely' /\ QueuedCleared'
  BY <1>1, <1>2, <1>5 DEF WorkersShapely, WorkerShapely, QueuedCleared, Queueable, ToFetch
<1>7. ScopeInFolder'
  BY <1>1 DEF RunInv, ScopeInFolder
<1>8. QED
  BY <1>4, <1>6, <1>7 DEF RunInv

(* An entry is reconciled or its stalled copy deleted: if it is queued after that, its video is cleared. *)
LEMMA ReconcileRuns ==
  ASSUME RunInv, IInv', ListingsTaken', Onward, NEW v \in Video,
         ReconcileEntry(v) \/ DeleteStalled(v)
  PROVE  RunInv'
<1>1. /\ pc = "reconcile" /\ v \in todo /\ todo' = todo \ {v}
      /\ UNCHANGED <<journal, pc, opt, snap, index, scope, w>>
  BY DEF ReconcileEntry, DeleteStalled, durable
<1>2. /\ mem \in [Video -> Entry] /\ mem[v] \in Entry /\ index[v] \in Nat /\ opt.clean \in BOOLEAN
  BY DEF RunInv, IInv, TypeOK, Entries, OptionRecord
<1>3. \A x \in Video \ {v} : mem'[x] = mem[x]
  BY <1>2 DEF ReconcileEntry, DeleteStalled
<1>4. Shapely(mem[v]) /\ mem[v].pending = 0
  BY <1>1 DEF RunInv, EntriesShapely, NonePending
<1>5. /\ Shapely(mem[v])' /\ mem'[v].pending = 0
      /\ NeedsQueueing(index', mem'[v]) => Cleared(v)'
  <2>1. CASE ReconcileEntry(v)
    <3> DEFINE e == mem[v]
               g == index[v]
               r == mem'[v]
    <3>1. r = Reconciled(snap, e, g, opt.clean) /\ e \in Entry /\ g \in Nat
      BY <1>2, <2>1 DEF ReconcileEntry
    <3> HIDE DEF e, g, r
    <3>2. Outcome(snap, e, g, opt.clean, r)
      BY <1>2, <3>1, ReconciledEntry
    <3> USE DEF e, g, r
    <3>3. Shapely(r) /\ r.pending = 0
      BY <1>4, <3>2 DEF Shapely, Outcome
    <3>4. g # 0 => snap[g].health \in Health \ {"gone"}
      <4>1. ASSUME g # 0
            PROVE  snap[g].health \in Health \ {"gone"}
        <5>1. g \in DOMAIN snap /\ snap[g].health # "gone"
          BY <4>1, IndexLeads DEF RunInv, ListingsTaken, Taken, Tagged, Listed
        <5>2. snap \in Seq(VideoRecord)
          BY DEF RunInv, IInv, TypeOK
        <5>3. snap[g] \in VideoRecord
          BY <5>1, <5>2, ElementOfSeq, LenProperties
        <5>4. QED
          BY <5>1, <5>3 DEF VideoRecord
      <4>2. QED
        BY <4>1
    <3>5. ASSUME NeedsQueueing(index, r)
          PROVE  g = 0 \/ (IsDead(snap[g].health) /\ (snap[g].health = "rejected" => opt.clean))
      <4>1. ~(r.vid = g /\ r.status = "processing")
        BY <3>5 DEF NeedsQueueing, IsTagged
      <4>2. QED
        BY <3>2, <3>4, <3>5, <4>1 DEF Outcome, NeedsQueueing, IsDead, InProgress, Health
    <3>6. QED
      BY <1>1, <3>3, <3>5 DEF Shapely, Cleared
  <2>2. CASE DeleteStalled(v)
    <3>1. mem'[v] = StalledDeleted(mem[v]) /\ StalledToRetry(v) /\ Delete(index[v])
      BY <1>2, <2>2 DEF DeleteStalled
    <3>2. mem'[v].vid = 0 /\ mem'[v].status = "pending" /\ mem'[v].pending = 0
      BY <1>2, <1>4, <3>1, StalledDeletedEntry
    <3>3. index[v] # 0 /\ snap[index[v]].health = "stalled"
      BY <3>1 DEF StalledToRetry
    <3>4. index[v] \in DOMAIN lib
      <4>1. index[v] \in DOMAIN snap
        BY <3>3, IndexLeads DEF RunInv, ListingsTaken, Taken
      <4>2. Len(snap) <= Len(lib) /\ snap \in Seq(VideoRecord) /\ lib \in Seq(VideoRecord)
        BY DEF RunInv, ListingsTaken, Taken, IInv, TypeOK
      <4>3. QED
        BY <4>1, <4>2, LenProperties
    <3>5. lib'[index[v]].health = "gone"
      <4>1. "gone" \in Health /\ lib \in Seq(VideoRecord)
        BY DEF Health, RunInv, IInv, TypeOK
      <4>2. lib' = [lib EXCEPT ![index[v]].health = "gone"]
        BY <3>1 DEF Delete
      <4>3. QED
        BY <3>4, <4>1, <4>2, HealthSet
    <3>6. QED
      BY <1>1, <3>2, <3>3, <3>5 DEF Shapely, Cleared
  <2>3. QED
    BY <2>1, <2>2
<1>6. EntriesShapely' /\ NonePending'
  BY <1>1, <1>3, <1>5 DEF RunInv, EntriesShapely, NonePending, Shapely
<1>7. WorkersShapely'
  <2>1. \A x \in Video : w[x] = "idle"
    BY <1>1 DEF RunInv, IInv, NothingEarly, EarlyPhase
  <2>2. QED
    BY <1>1, <2>1 DEF WorkersShapely, WorkerShapely
<1>8. QueuedCleared'
  <2>1. ASSUME NEW x \in Video, (Queueable(x) \/ ToFetch(x))'
        PROVE  Cleared(x)'
    <3>1. ~ToFetch(x)'
      BY <1>1 DEF RunInv, IInv, NothingEarly, EarlyPhase, ToFetch
    <3>2. CASE x = v
      BY <1>5, <2>1, <3>1, <3>2 DEF Queueable
    <3>3. CASE x # v
      <4>1. Queueable(x)
        BY <1>1, <1>3, <2>1, <3>1, <3>3 DEF Queueable
      <4>2. Cleared(x)
        BY <4>1 DEF RunInv, QueuedCleared
      <4>3. QED
        BY <1>1, <4>2, ClearedStays DEF RunInv, IInv
    <3>4. QED
      BY <3>2, <3>3
  <2>2. QED
    BY <2>1 DEF QueuedCleared
<1>9. ScopeInFolder'
  BY <1>1 DEF RunInv, ScopeInFolder
<1>10. QED
  BY <1>6, <1>7, <1>8, <1>9 DEF RunInv

LEMMA BeginRuns ==
  ASSUME RunInv, IInv', ListingsTaken', Onward, BeginQueue \/ BeginWait
  PROVE  RunInv'
<1>1. /\ UNCHANGED <<lib, opt, snap, index, scope, mem, w>> /\ journal'.ents \in {mem, journal.ents}
      /\ pc' \in {"queue", "wait"}
  BY DEF BeginQueue, BeginWait, durable, Flush
<1>2. EntriesShapely' /\ NonePending' /\ ScopeInFolder'
  <2>1. pc \in {"reconcile", "queue"}
    BY DEF BeginQueue, BeginWait
  <2>2. QED
    BY <1>1, <2>1 DEF RunInv, EntriesShapely, NonePending, ScopeInFolder, Shapely
<1>3. CASE BeginQueue
  <2>1. /\ pc = "reconcile" /\ pc' = "queue" /\ todo = {}
        /\ todo' = {v \in Present(mem) : Scoped(v) /\ NeedsQueueing(index, mem[v])}
    BY <1>3 DEF BeginQueue
  <2>2. \A v \in Video : w[v] = "idle" /\ mem[v].pending = 0
    BY <2>1 DEF RunInv, IInv, NothingEarly, EarlyPhase, NonePending
  <2>3. WorkersShapely'
    BY <1>1, <2>1, <2>2 DEF WorkersShapely, WorkerShapely, Scoped, InFolder
  <2>4. \A v \in Video : (Queueable(v) \/ ToFetch(v))' => Queueable(v)
    BY <1>1, <2>1, <2>2 DEF Queueable, ToFetch
  <2>5. QueuedCleared'
    BY <1>1, <2>4, ClearedStays DEF RunInv, IInv, QueuedCleared
  <2>6. QED
    BY <1>2, <2>3, <2>5 DEF RunInv
<1>4. CASE BeginWait
  <2>1. /\ pc = "queue" /\ pc' = "wait" /\ Occupied = {}
        /\ todo' \subseteq {v \in Present(mem) : mem[v].status = "processing" /\ mem[v].vid # 0}
    BY <1>4 DEF BeginWait
  <2>2. \A v \in Video : w[v] \in {"idle", "late", "latetag"}
    BY <2>1 DEF Occupied, RunInv, IInv, TypeOK, WorkerState
  <2>3. ASSUME NEW v \in Video
        PROVE  WorkerShapely(v)'
    <3>1. WorkerShapely(v)
      BY DEF RunInv, WorkersShapely
    <3>2. QED
      BY <1>1, <2>1, <2>2, <3>1 DEF WorkerShapely
  <2>4. \A v \in Video : ~(Queueable(v) \/ ToFetch(v))'
    BY <1>1, <2>1, <2>2 DEF Queueable, ToFetch
  <2>5. QED
    BY <1>2, <2>3, <2>4 DEF RunInv, WorkersShapely, QueuedCleared
<1>5. QED
  BY <1>3, <1>4

LEMMA WorkerRuns ==
  ASSUME RunInv, IInv', ListingsTaken', Onward, NEW v \in Video,
         WorkerStep(v) \/ Timeout(v) \/ LateTag(v)
  PROVE  RunInv'
<1>1. /\ OthersStay(v)
      /\ \/ TakesUp(v) \/ Cleans(v) \/ Sends(v) \/ StopsEarly(v) \/ GivesUp(v) \/ HearsGUID(v)
         \/ HearsRefusal(v) \/ Tags(v) \/ Awaits(v) \/ StopsWaiting(v)
  BY WorkerMoves DEF RunInv, IInv
<1>2. /\ pc \in {"queue", "wait"} /\ todo' \in {todo, todo \ {v}} /\ journal'.ents = mem'
      /\ UNCHANGED <<pc, opt, snap, index, scope>>
      /\ \A x \in Video \ {v} : mem'[x] = mem[x] /\ w'[x] = w[x]
  BY <1>1 DEF OthersStay
<1>3. WorkerShapely(v) /\ Shapely(mem[v])
  BY DEF RunInv, WorkersShapely, EntriesShapely
<1>4. /\ w[v] # "idle" /\ pc = "queue" => v \notin todo
      /\ w[v] \in {"clean", "lookup", "sent", "tag"} => pc = "queue"
  BY BusyInPool DEF RunInv, IInv, FetchersQueue
<1>5. Shapely(mem[v])' /\ WorkerShapely(v)'
  <2>1. CASE TakesUp(v)
    BY <1>2, <1>3, <1>4, <2>1 DEF TakesUp, Carries, Shapely, WorkerShapely, NeedsQueueing, InFolder
  <2>2. CASE Cleans(v)
    BY <1>2, <1>3, <1>4, <2>2 DEF Cleans, Carries, Shapely, WorkerShapely, NeedsQueueing, InFolder
  <2>3. CASE Sends(v)
    BY <1>2, <1>3, <1>4, <2>3 DEF Sends, Shapely, WorkerShapely
  <2>4. CASE StopsEarly(v)
    BY <1>2, <1>3, <1>4, <2>4 DEF StopsEarly, Carries, Shapely, WorkerShapely
  <2>5. CASE GivesUp(v)
    BY <1>2, <1>3, <1>4, <2>5 DEF GivesUp, Carries, Shapely, WorkerShapely
  <2>6. CASE HearsGUID(v)
    BY <1>2, <1>3, <1>4, <2>6 DEF HearsGUID, Shapely, WorkerShapely
  <2>7. CASE HearsRefusal(v)
    BY <1>2, <1>3, <1>4, <2>7 DEF HearsRefusal, Shapely, WorkerShapely
  <2>8. CASE Tags(v)
    BY <1>2, <1>3, <1>4, <2>8 DEF Tags, Carries, Shapely, WorkerShapely
  <2>9. CASE Awaits(v)
    BY <1>2, <1>3, <1>4, <2>9 DEF Awaits, Carries, Shapely, WorkerShapely
  <2>10. CASE StopsWaiting(v)
    BY <1>2, <1>3, <1>4, <2>10 DEF StopsWaiting, Carries, Shapely, WorkerShapely
  <2>11. QED
    BY <1>1, <2>1, <2>2, <2>3, <2>4, <2>5, <2>6, <2>7, <2>8, <2>9, <2>10
<1>7. ASSUME NEW x \in Video \ {v}
      PROVE  WorkerShapely(x)' /\ Shapely(mem[x])'
  BY <1>2 DEF RunInv, WorkersShapely, WorkerShapely, EntriesShapely, Shapely, InFolder
<1>8. EntriesShapely' /\ WorkersShapely'
  BY <1>2, <1>5, <1>7 DEF EntriesShapely, WorkersShapely, Shapely
<1>9. NonePending' /\ ScopeInFolder'
  BY <1>2 DEF RunInv, NonePending, ScopeInFolder
<1>10. QueuedCleared'
  <2>1. ASSUME NEW x \in Video, (Queueable(x) \/ ToFetch(x))'
        PROVE  Cleared(x)'
    <3>1. ToFetch(x)'
      BY <1>2, <2>1 DEF Queueable
    <3>2. ASSUME x = v
          PROVE  ToFetch(x)
      <4>1. ToFetch(v)
        BY <1>1, <1>2, <3>1, <3>2
           DEF TakesUp, Cleans, Sends, StopsEarly, GivesUp, HearsGUID, HearsRefusal, Tags, Awaits,
               StopsWaiting, Carries, ToFetch
      <4>2. QED
        BY <3>2, <4>1
    <3>3. ASSUME x # v
          PROVE  ToFetch(x)
      BY <1>2, <3>1, <3>3 DEF ToFetch
    <3>4. ToFetch(x)
      BY <3>2, <3>3
    <3>5. Cleared(x)
      BY <3>4 DEF RunInv, QueuedCleared
    <3>6. QED
      BY <1>2, <3>5, ClearedStays DEF RunInv, IInv
  <2>2. QED
    BY <2>1 DEF QueuedCleared
<1>11. QED
  BY <1>8, <1>9, <1>10 DEF RunInv

LEMMA EndRuns ==
  ASSUME RunInv, IInv', ListingsTaken',
         \/ LoadFails \/ CollectionsFail \/ Finish \/ Crash
         \/ \E v \in Video : DeleteStalledFails(v)
  PROVE  RunInv'
<1>1. Over
  BY DEF LoadFails, CollectionsFail, RunFails, Finish, Crash, DeleteStalledFails
<1>2. mem \in Entries /\ EntriesShapely
  BY DEF RunInv, IInv, TypeOK
<1>3. \/ journal'.ents \in {journal.ents, mem}
      \/ \E gone : journal'.ents = FailGone(mem, gone)
  BY DEF LoadFails, CollectionsFail, RunFails, Finish, Crash, DeleteStalledFails, Flush, durable
<1>4. ASSUME NEW v \in Video
      PROVE  Shapely(journal.ents[v])'
  <2>1. CASE journal'.ents \in {journal.ents, mem}
    BY <1>2, <2>1 DEF EntriesShapely, Shapely
  <2>2. CASE \E gone : journal'.ents = FailGone(mem, gone)
    <3>1. PICK gone : journal'.ents = FailGone(mem, gone)
      BY <2>2
    <3> DEFINE e == journal'.ents[v]
    <3>2. /\ e.vid = mem[v].vid /\ e.pending = mem[v].pending
          /\ e.status = IF v \in gone THEN "failed" ELSE mem[v].status
      BY <1>2, <3>1, GoneEntry
    <3>3. QED
      BY <1>2, <3>2 DEF EntriesShapely, Shapely
  <2>3. QED
    BY <1>3, <2>1, <2>2
<1>5. QED
  BY <1>1, <1>4, OverRuns

LEMMA WorldRuns ==
  ASSUME RunInv, IInv', ListingsTaken', Onward, World
  PROVE  RunInv'
<1>1. journal.ents \in Entries /\ \A v \in Video : Shapely(journal.ents[v]) /\ Shapely(mem[v])
  BY DEF RunInv, EntriesShapely, IInv, TypeOK
<1>2. ASSUME UNCHANGED <<pc, opt, snap, index, scope, mem, todo, w>>,
             journal'.ents \in {journal.ents, mem}
      PROVE  RunInv'
  <2>1. \A v \in Video : Shapely(journal.ents[v])'
    BY <1>1, <1>2 DEF Shapely
  <2>2. QED
    BY <1>2, <2>1, FrameRuns
<1>3. CASE RefreshStatus
  <2>1. UNCHANGED volatile /\ journal'.ents = Refresh(lib, journal.ents)
    BY <1>3 DEF RefreshStatus, Flush
  <2>2. ASSUME NEW v \in Video
        PROVE  Shapely(journal.ents[v])'
    <3> DEFINE e == journal'.ents[v]
               o == journal.ents[v]
    <3>1. /\ e.vid = o.vid /\ e.pending = o.pending
          /\ \/ e = o
             \/ /\ o.vid # 0 /\ o.status # "absent"
                /\ \/ e.status \in {"failed", "processing", o.status}
                   \/ e.status = "completed"
      BY <1>1, <2>1, RefreshedEntry
    <3>2. QED
      BY <1>1, <3>1 DEF Shapely
  <2>3. QED
    BY <2>1, <2>2, FrameRuns DEF volatile
<1>4. CASE Abort \/ GetSummary \/ ForeignUpload \/ Tick \/ CollectionReady
  BY <1>2, <1>4 DEF Abort, durable, GetSummary, ForeignUpload, Tick, CollectionReady, volatile, Flush
<1>5. CASE (\E f \in net : Land(f) \/ NotLanded(f)) \/ \E g \in DOMAIN lib : Progress(g)
  BY <1>2, <1>5 DEF Land, NotLanded, Progress, volatile
<1>6. QED
  BY <1>3, <1>4, <1>5, EndRuns, WorkerRuns DEF World

LEMMA NextRuns == RunInv /\ [Next]_vars => RunInv'
<1> SUFFICES ASSUME RunInv, [Next]_vars PROVE RunInv'
  OBVIOUS
<1>1. IInv' /\ ListingsTaken' /\ Onward
  BY NextKeeps, ListingsKept, LibraryGoesOn DEF RunInv, ListingsTaken, Taken
<1>2. CASE StartRun
  BY <1>1, <1>2, StartRuns
<1>3. CASE RunStep
  BY <1>1, <1>3, LoadRuns, PrepareRuns, ReconcileRuns, BeginRuns, EndRuns, WorkerRuns DEF RunStep
<1>4. CASE World
  BY <1>1, <1>4, WorldRuns
<1>5. CASE UNCHANGED vars
  <2>1. \A v \in Video : Shapely(journal.ents[v])'
    BY <1>5 DEF vars, durable, RunInv, EntriesShapely, Shapely
  <2>2. QED
    BY <1>1, <1>5, <2>1, FrameRuns DEF vars, volatile
<1>6. QED
  BY <1>2, <1>3, <1>4, <1>5 DEF Next

(* For any folders, options and videos, a folder run never sends a fetch for a video outside its folder, though the journal it resumes holds others: ScopeRespected. *)
THEOREM FolderRunsInScope == Spec => ScopeRespected
<1>1. ASSUME RunInv, [Next]_vars, NEW v \in Video, w[v] = "lookup", opt.folder # None
      PROVE  FolderOf[v] = opt.folder
  <2>1. v \in scope /\ pc = "queue"
    BY <1>1 DEF RunInv, WorkersShapely, WorkerShapely, InFolder, IInv, FetchersQueue
  <2>2. QED
    BY <1>1, <2>1 DEF RunInv, ScopeInFolder
<1>2. RunInv /\ [Next]_vars
        => [\A v \in Video : w[v] = "lookup" /\ w'[v] = "sent" /\ opt.folder # None
              => FolderOf[v] = opt.folder]_vars
  BY <1>1
<1>3. QED
  BY <1>2, InitRuns, NextRuns, PTL DEF Spec, ScopeRespected

(* However often imports are run and resumed, without cleanFailed none fetches a video whose indexed copy Bunny rejected for good: RejectedLeftAlone. *)
THEOREM RejectedNotFetched == Spec => RejectedLeftAlone
<1>1. ASSUME RunInv, [Next]_vars, NEW v \in Video, w[v] = "lookup", ~opt.clean, index[v] # 0
      PROVE  snap[index[v]].health # "rejected"
  <2>1. Cleared(v)
    BY <1>1 DEF RunInv, QueuedCleared, ToFetch
  <2>2. QED
    BY <1>1, <2>1 DEF Cleared
<1>2. RunInv /\ [Next]_vars
        => [\A v \in Video : w[v] = "lookup" /\ w'[v] = "sent" /\ ~opt.clean /\ index[v] # 0
              => snap[index[v]].health # "rejected"]_vars
  BY <1>1
<1>3. QED
  BY <1>2, InitRuns, NextRuns, PTL DEF Spec, RejectedLeftAlone

-----------------------------------------------------------------------------
(* Where listings come from, and what entries record. *)

LEMMA ListingSources ==
  ASSUME IInv, [Next]_vars
  PROVE  /\ \/ snap' = snap \/ snap' = << >>
            \/ snap' = lib /\ lib' = lib
            \/ \E i \in DOMAIN service : snap' = service[i].snap
         /\ \A i \in DOMAIN service' :
              \/ i \in DOMAIN service /\ service'[i] = service[i]
              \/ service'[i].snap = lib /\ lib' = lib
<1> DEFINE Old == \A i \in DOMAIN service' : i \in DOMAIN service /\ service'[i] = service[i]
<1>1. UNCHANGED service => Old
  OBVIOUS
<1>2. CASE GetSummary
  BY <1>2 DEF GetSummary, volatile
<1>3. CASE StartRun
  <2>1. CASE UNCHANGED <<service, cached, snap, index>>
    BY <2>1
  <2>2. CASE service # << >> /\ snap' = service[1].snap /\ service' = << >>
    <3>1. 1 \in DOMAIN service
      BY <2>2 DEF IInv, TypeOK
    <3>2. QED
      BY <2>2, <3>1
  <2>3. QED
    BY <1>3, <2>1, <2>2 DEF StartRun
<1>4. CASE LoadIndex
  BY <1>1, <1>4 DEF LoadIndex, durable
<1>5. CASE LoadFails \/ CollectionsFail \/ Finish \/ Crash
  BY <1>1, <1>5 DEF LoadFails, CollectionsFail, RunFails, Finish, Crash, Over, durable
<1>6. CASE Prepare \/ BeginQueue \/ BeginWait
  BY <1>1, <1>6 DEF Prepare, BeginQueue, BeginWait, durable
<1>7. ASSUME NEW v \in Video, ReconcileEntry(v) \/ DeleteStalled(v) \/ DeleteStalledFails(v)
      PROVE  (snap' = snap \/ snap' = << >>) /\ Old
  BY <1>1, <1>7 DEF ReconcileEntry, durable, DeleteStalled, DeleteStalledFails, Over
<1>8. ASSUME NEW v \in Video, WorkerStep(v) \/ Timeout(v) \/ LateTag(v)
      PROVE  snap' = snap /\ Old
  BY <1>1, <1>8, NextTyped, WorkerMoves DEF OthersStay, IInv
<1>9. CASE World
  BY <1>1, <1>2, <1>5, <1>8, <1>9
     DEF World, Abort, durable, RefreshStatus, volatile, ForeignUpload, Tick, CollectionReady, Land,
         NotLanded, Progress
<1>10. CASE UNCHANGED vars
  BY <1>1, <1>10 DEF vars, durable, volatile
<1>11. QED
  BY <1>3, <1>4, <1>5, <1>6, <1>7, <1>8, <1>9, <1>10 DEF Next, RunStep

(* The videos of the source have titles of their own, which nobody else uploads under. *)
TellingTitles ==
  /\ \A u, v \in Video : TitleOf[u] = TitleOf[v] => u = v
  /\ \A v \in Video : TitleOf[v] \notin ForeignTitles

(* A video of the library is tagged truly and has the title of its source, or one that somebody else gave it. *)
TrueRecord(r) ==
  /\ r.tag \in {None, r.src}
  /\ IF r.src = None THEN r.title \in ForeignTitles ELSE r.title = TitleOf[r.src]

(* A listing shows a video as it is, but perhaps an earlier tag and health. *)
TrueListing(s) ==
  \A g \in DOMAIN s :
    /\ s[g].src = lib[g].src /\ s[g].title = lib[g].title /\ s[g].at = lib[g].at
    /\ TellingTitles /\ s[g].tag # None => s[g].tag = lib[g].src

TrueListings == TrueListing(snap) /\ \A i \in DOMAIN service : TrueListing(service[i].snap)

(* The video of an entry, or of an answer, exists; and with telling titles it was created from the entry's source video. *)
Own(v, g) == g \in DOMAIN lib /\ (TellingTitles => lib[g].src = v)

OwnEntries ==
  \A v \in Video : /\ journal.ents[v].vid # 0 => Own(v, journal.ents[v].vid)
                   /\ mem[v].vid # 0 => Own(v, mem[v].vid)

OwnAnswers == \A v \in Video : reply[v] \notin {0, Refused} => Own(v, reply[v])

TruthInv ==
  /\ RunInv /\ TrueListings /\ OwnEntries /\ OwnAnswers
  /\ TellingTitles => \A g \in DOMAIN lib : TrueRecord(lib[g])

LEMMA InitTruth == Init => TruthInv
<1> SUFFICES ASSUME Init PROVE TruthInv
  OBVIOUS
<1>1. /\ snap = << >> /\ service = << >> /\ lib = << >> /\ \A v \in Video : reply[v] = 0
      /\ mem = NoEntries /\ journal.ents = NoEntries
  BY DEF Init, NoIndex
<1>2. OwnEntries
  BY <1>1, NewEntries DEF OwnEntries, NoEntries
<1>3. TrueListings /\ OwnAnswers
  BY <1>1 DEF TrueListings, TrueListing, OwnAnswers
<1>4. QED
  BY <1>1, <1>2, <1>3, InitRuns DEF TruthInv

LEMMA OwnStays ==
  ASSUME Onward, NEW v, NEW g, Own(v, g)
  PROVE  Own(v, g)'
BY DEF Onward, Own

(* The listings are in the library. *)
LEMMA ListedThere ==
  ASSUME RunInv
  PROVE  /\ DOMAIN snap \subseteq DOMAIN lib
         /\ \A i \in DOMAIN service : DOMAIN service[i].snap \subseteq DOMAIN lib
<1>1. TypeOK /\ lib \in Seq(VideoRecord) /\ snap \in Seq(VideoRecord)
  BY DEF RunInv, IInv, TypeOK
<1>2. ASSUME NEW s \in Seq(VideoRecord), Len(s) <= Len(lib)
      PROVE  DOMAIN s \subseteq DOMAIN lib
  BY <1>1, <1>2, LenProperties
<1>3. \A i \in DOMAIN service : service[i].snap \in Seq(VideoRecord)
  <2> DEFINE S == [snap: Seq(VideoRecord), index: [Video -> Nat]]
  <2>1. service \in Seq(S)
    BY <1>1 DEF TypeOK
  <2>2. \A x \in S : x.snap \in Seq(VideoRecord)
    OBVIOUS
  <2> HIDE DEF S
  <2>3. \A i \in DOMAIN service : service[i] \in S
    BY <2>1, ElementOfSeq, LenProperties
  <2>4. QED
    BY <2>2, <2>3
<1>4. QED
  BY <1>1, <1>2, <1>3 DEF RunInv, ListingsTaken, Taken

(* Tags are written by workers on the video their entry records; nothing else changes a tag. *)
LEMMA LibraryTrue ==
  ASSUME TruthInv, [Next]_vars, TellingTitles
  PROVE  \A g \in DOMAIN lib' : TrueRecord(lib'[g])
<1>1. lib \in Seq(VideoRecord) /\ TypeOK /\ IInv /\ index \in SourceIndexes(snap)
  BY DEF TruthInv, RunInv, IInv, TypeOK, ListingsTaken, Taken
<1>2. \A g \in DOMAIN lib : TrueRecord(lib[g])
  BY DEF TruthInv
<1>3. CASE lib' = lib
  BY <1>2, <1>3
<1>4. ASSUME NEW g, NEW h \in Health, lib' = [lib EXCEPT ![g].health = h]
      PROVE  \A k \in DOMAIN lib' : TrueRecord(lib'[k])
  BY <1>1, <1>2, <1>4, HealthSet DEF TrueRecord
<1>5. ASSUME NEW v \in Video, w[v] \in {"tag", "latetag"}, WritesTag(v)
      PROVE  \A k \in DOMAIN lib' : TrueRecord(lib'[k])
  <2>1. mem[v].vid # 0
    BY <1>5 DEF TruthInv, RunInv, WorkersShapely, WorkerShapely
  <2>2. lib[mem[v].vid].src = v
    BY <2>1 DEF TruthInv, OwnEntries, Own
  <2>3. QED
    BY <1>1, <1>2, <1>5, <2>2, TagSet DEF WritesTag, TrueRecord
<1>6. ASSUME NEW src \in Video \cup {None}, NEW title \in Title, NewVideo(src, title),
             IF src = None THEN title \in ForeignTitles ELSE title = TitleOf[src]
      PROVE  \A k \in DOMAIN lib' : TrueRecord(lib'[k])
  <2> DEFINE n == Len(lib) + 1
  <2>1. /\ DOMAIN lib = 1 .. Len(lib) /\ DOMAIN lib' = 1 .. n /\ Len(lib) \in Nat
        /\ \A k \in DOMAIN lib : lib'[k] = lib[k]
        /\ lib'[n] = [src |-> src, tag |-> None, title |-> title, health |-> "processing", at |-> epoch]
    BY <1>1, <1>6, VideoAdded, LenProperties
  <2>2. TrueRecord(lib'[n])
    BY <1>6, <2>1 DEF TrueRecord
  <2>3. \A k \in DOMAIN lib' : k \in DOMAIN lib \/ k = n
    BY <2>1
  <2>4. QED
    BY <1>2, <2>1, <2>2, <2>3
<1>7. CASE Removes
  BY <1>4, <1>7 DEF Removes, Health
<1>8. CASE ForeignUpload
  BY ImportAssumption, <1>6, <1>8 DEF ForeignUpload, ImportAssumption
<1>9. ASSUME NEW f \in net, Land(f)
      PROVE  \A k \in DOMAIN lib' : TrueRecord(lib'[k])
  <2>1. f.v \in Video /\ TitleOf[f.v] \in Title /\ f.v # None
    BY <1>1, JournalAssumption DEF TypeOK, JournalAssumption
  <2>2. QED
    BY <1>6, <1>9, <2>1 DEF Land
<1>10. ASSUME NEW g \in DOMAIN lib, Progress(g)
       PROVE  \A k \in DOMAIN lib' : TrueRecord(lib'[k])
  BY <1>4, <1>10 DEF Progress
<1>11. QED
  BY <1>1, <1>3, <1>5, <1>7, <1>8, <1>9, <1>10, LibrarySteps

LEMMA ListingsTrue ==
  ASSUME TruthInv, [Next]_vars
  PROVE  TrueListings'
<1>1. Onward /\ IInv
  BY LibraryGoesOn DEF TruthInv, RunInv, ListingsTaken, Taken
<1>2. ASSUME NEW s, DOMAIN s \subseteq DOMAIN lib, TrueListing(s)
      PROVE  \A g \in DOMAIN s :
               /\ s[g].src = lib'[g].src /\ s[g].title = lib'[g].title /\ s[g].at = lib'[g].at
               /\ TellingTitles /\ s[g].tag # None => s[g].tag = lib'[g].src
  BY <1>1, <1>2 DEF Onward, TrueListing
<1>3. TrueListing(lib)
  BY DEF TrueListing, TruthInv, TrueRecord
<1>4. /\ DOMAIN snap \subseteq DOMAIN lib /\ TrueListing(snap)
      /\ \A i \in DOMAIN service : DOMAIN service[i].snap \subseteq DOMAIN lib /\ TrueListing(service[i].snap)
  BY ListedThere DEF TruthInv, TrueListings
<1>5. /\ \/ snap' = snap \/ snap' = << >>
         \/ snap' = lib /\ lib' = lib
         \/ \E i \in DOMAIN service : snap' = service[i].snap
      /\ \A i \in DOMAIN service' :
           \/ i \in DOMAIN service /\ service'[i] = service[i]
           \/ service'[i].snap = lib /\ lib' = lib
  BY <1>1, ListingSources
<1>6. TrueListing(snap)'
  BY <1>2, <1>3, <1>4, <1>5 DEF TrueListing
<1>7. ASSUME NEW i \in DOMAIN service'
      PROVE  TrueListing(service[i].snap)'
  BY <1>2, <1>3, <1>4, <1>5 DEF TrueListing
<1>8. QED
  BY <1>6, <1>7 DEF TrueListings

(* A lost fetch is matched to a listed, untagged, unclaimed video of its title. *)
LEMMA FoundFetch ==
  ASSUME NEW s, NEW ents, NEW v, NEW g, g = FindLostFetch(s, ents, v), g # 0
  PROVE  /\ v \in Lost(ents) /\ g \in LostFetchMatches(s, ents, v)
         /\ g \in Untagged(s) \ Claimed(ents) /\ s[g].title = TitleOf[v] /\ s[g].at >= ents[v].pending
<1>1. v \in Lost(ents) /\ g \in LostFetchMatches(s, ents, v)
  BY DEF FindLostFetch
<1>2. QED
  BY <1>1 DEF LostFetchMatches

(* With telling titles a match was created from the entry's source video. *)
LEMMA MatchOwn ==
  ASSUME NEW s, NEW v \in Video, NEW g \in DOMAIN s, DOMAIN s \subseteq DOMAIN lib, TrueListing(s),
         s[g].title = TitleOf[v], TypeOK, TellingTitles => \A k \in DOMAIN lib : TrueRecord(lib[k])
  PROVE  Own(v, g)
<1>1. g \in DOMAIN lib /\ lib[g].title = TitleOf[v]
  BY DEF TrueListing
<1>2. lib[g].src \in Video \cup {None}
  <2>1. lib \in Seq(VideoRecord)
    BY DEF TypeOK
  <2>2. lib[g] \in VideoRecord
    BY <1>1, <2>1, ElementOfSeq, LenProperties
  <2>3. QED
    BY <2>2 DEF VideoRecord
<1>3. ASSUME TellingTitles
      PROVE  lib[g].src = v
  BY <1>1, <1>2, <1>3 DEF TrueRecord, TellingTitles
<1>4. QED
  BY <1>1, <1>3 DEF Own

(* The video the index has under a source video's tag. *)
LEMMA IndexOwn ==
  ASSUME RunInv, TrueListings, NEW v \in Video, index[v] # 0
  PROVE  Own(v, index[v])
<1>1. index[v] \in DOMAIN snap /\ index[v] \in Tagged(snap, v)
  BY IndexLeads DEF RunInv, ListingsTaken, Taken
<1>2. snap[index[v]].tag # None
  BY <1>1, JournalAssumption DEF Tagged, JournalAssumption
<1>3. QED
  BY <1>1, <1>2, ListedThere DEF TrueListings, TrueListing, Own, Tagged

LEMMA LoadOwn ==
  ASSUME TruthInv, RunInv', TrueListings', LoadIndex, NEW v \in Video, mem'[v].vid # 0
  PROVE  Own(v, mem'[v].vid)
<1>1. /\ journal.ents \in Entries /\ opt.clean \in BOOLEAN /\ snap' \in Seq(VideoRecord) /\ TypeOK
      /\ lib' = lib
  BY DEF TruthInv, RunInv, IInv, TypeOK, OptionRecord, LoadIndex, durable
<1>2. journal.ents[v].vid # 0 => Own(v, journal.ents[v].vid)
  BY DEF TruthInv, OwnEntries
<1>3. ASSUME NEW ents, NEW g, g = FindLostFetch(snap', ents, v), g # 0
      PROVE  Own(v, g)
  <2>1. g \in DOMAIN snap' /\ snap'[g].title = TitleOf[v]
    BY <1>3, FoundFetch DEF Untagged, Listed
  <2>2. DOMAIN snap' \subseteq DOMAIN lib
    BY ListedThere DEF LoadIndex, TruthInv
  <2>3. TrueListing(snap')
    BY <1>1 DEF TrueListings, TrueListing
  <2>4. QED
    BY <1>1, <2>1, <2>2, <2>3, MatchOwn DEF TruthInv
<1>4. CASE Resumed
  <2> DEFINE F == IF opt.folder = None THEN Video ELSE scope'
             R == RequeueFailed(journal.ents, F, opt.clean)
             g == FindLostFetch(snap', R, v)
  <2>1. mem' = RecoverLostFetches(snap', R)
    BY <1>4 DEF LoadIndex
  <2>2. R \in Entries /\ R[v].vid = journal.ents[v].vid
    BY <1>1, RequeueFailedType, RequeuedEntry
  <2>3. g # 0 => Own(v, g)
    BY <1>3
  <2> HIDE DEF R, g
  <2>4. IF v \in Lost(R) THEN mem'[v].vid = g ELSE mem'[v] = R[v]
    BY <2>1, <2>2, RecoveredEntry DEF g
  <2>5. QED
    BY <1>2, <2>2, <2>3, <2>4
<1>5. CASE ~Resumed
  <2> DEFINE f == FindLostFetch(snap', journal.ents, v)
             g == IF journal.ents[v].vid # 0 THEN journal.ents[v].vid ELSE f
  <2>1. mem' = AdoptOrphans(snap', index', journal.ents)
    BY <1>5 DEF LoadIndex
  <2>2. f # 0 => Own(v, f)
    BY <1>3
  <2>3. mem'[v].vid \in {g, 0}
    BY <1>1, <2>1, AdoptedEntry, NewEntries
  <2> HIDE DEF f
  <2>4. QED
    BY <1>2, <2>2, <2>3
<1>6. QED
  BY <1>4, <1>5

(* An entry's video comes from what it recorded, from the index, from a match or from Bunny's answer. *)
LEMMA EntriesOwn ==
  ASSUME TruthInv, RunInv', TrueListings', [Next]_vars
  PROVE  OwnEntries'
<1>1. Onward /\ TypeOK /\ TypeOK' /\ mem \in Entries /\ journal.ents \in Entries
  BY LibraryGoesOn DEF TruthInv, RunInv, ListingsTaken, Taken, IInv, TypeOK
<1> DEFINE Old(v, e) == e.vid = 0 \/ Own(v, e.vid)
<1>2. \A v \in Video : Old(v, mem[v]) /\ Old(v, journal.ents[v])
  BY DEF TruthInv, OwnEntries
<1>3. ASSUME \A v \in Video : Old(v, mem'[v]) /\ Old(v, journal'.ents[v])
      PROVE  OwnEntries'
  <2>1. \A v \in Video : Old(v, mem'[v]) => (mem'[v].vid # 0 => Own(v, mem[v].vid)')
    BY <1>1 DEF Onward, Own
  <2>2. \A v \in Video : Old(v, journal'.ents[v]) => (journal'.ents[v].vid # 0 => Own(v, journal.ents[v].vid)')
    BY <1>1 DEF Onward, Own
  <2>3. QED
    BY <1>3, <2>1, <2>2 DEF OwnEntries
<1>4. ASSUME mem' \in {mem, NoEntries}, journal'.ents \in {journal.ents, mem}
      PROVE  OwnEntries'
  <2>1. \A v \in Video : NoEntries[v].vid = 0
    BY NewEntries DEF NoEntries
  <2> HIDE DEF Old
  <2>2. \A v \in Video : Old(v, NoEntries[v])
    BY <2>1 DEF Old
  <2>3. QED
    BY <1>2, <1>3, <1>4, <2>2
<1>5. CASE Finish
  <2>1. mem' = NoEntries
    BY <1>5 DEF Finish, Over
  <2>2. \/ journal'.ents = mem
        \/ \E gone : journal'.ents = FailGone(mem, gone)
    BY <1>5 DEF Finish, Flush
  <2>3. \A v \in Video : journal'.ents[v].vid = mem[v].vid
    BY <1>1, <2>2, GoneEntry
  <2>4. \A v \in Video : mem'[v].vid = 0
    BY <2>1, NewEntries DEF NoEntries
  <2>5. QED
    BY <1>2, <1>3, <2>3, <2>4
<1>6. CASE LoadIndex
  <2>1. journal' = journal
    BY <1>6 DEF LoadIndex, durable
  <2>2. \A v \in Video : Old(v, mem'[v])
    BY <1>6, LoadOwn
  <2>3. QED
    BY <1>2, <1>3, <2>1, <2>2
<1>7. CASE Prepare
  <2>1. mem' = PrepareEntries(mem, scope) /\ journal'.ents = mem'
    BY <1>7 DEF Prepare, Flush
  <2>2. \A v \in Video : mem'[v] = NewEntry \/ mem'[v] = mem[v]
    BY <2>1 DEF PrepareEntries
  <2>3. QED
    BY <1>2, <1>3, <2>1, <2>2, NewEntries
<1>8. ASSUME NEW v \in Video, ReconcileEntry(v) \/ DeleteStalled(v)
      PROVE  OwnEntries'
  <2>1. journal' = journal /\ \A x \in Video \ {v} : mem'[x] = mem[x]
    BY <1>1, <1>8 DEF ReconcileEntry, DeleteStalled, durable, Entries
  <2>2. mem[v] \in Entry /\ index[v] \in Nat /\ opt.clean \in BOOLEAN
    BY <1>1 DEF TypeOK, Entries, OptionRecord
  <2>3. CASE ReconcileEntry(v)
    <3> DEFINE e == mem[v]
               g == index[v]
               r == mem'[v]
    <3>1. r = Reconciled(snap, e, g, opt.clean) /\ e \in Entry /\ g \in Nat
      BY <1>1, <2>2, <2>3 DEF ReconcileEntry, Entries
    <3>2. g # 0 => Own(v, g)
      BY IndexOwn DEF TruthInv
    <3> HIDE DEF e, g, r
    <3>3. Outcome(snap, e, g, opt.clean, r)
      BY <2>2, <3>1, ReconciledEntry
    <3>4. r.vid \in {0, e.vid} \/ (r.vid = g /\ g # 0)
      BY <3>3 DEF Outcome
    <3>5. Old(v, r)
      BY <1>2, <3>2, <3>4 DEF e
    <3>6. QED
      BY <1>2, <1>3, <2>1, <3>5 DEF r
  <2>4. CASE DeleteStalled(v)
    <3>1. mem'[v] = StalledDeleted(mem[v])
      BY <1>1, <2>4 DEF DeleteStalled, Entries
    <3>2. mem'[v].vid = 0
      BY <2>2, <3>1, StalledDeletedEntry
    <3>3. QED
      BY <1>2, <1>3, <2>1, <3>2
  <2>5. QED
    BY <1>8, <2>3, <2>4
<1>9. ASSUME NEW v \in Video, WorkerStep(v) \/ Timeout(v) \/ LateTag(v)
      PROVE  OwnEntries'
  <2>1. /\ OthersStay(v)
        /\ \/ TakesUp(v) \/ Cleans(v) \/ Sends(v) \/ StopsEarly(v) \/ GivesUp(v) \/ HearsGUID(v)
           \/ HearsRefusal(v) \/ Tags(v) \/ Awaits(v) \/ StopsWaiting(v)
    BY <1>1, <1>9, WorkerMoves DEF TruthInv, RunInv
  <2>2. journal'.ents = mem' /\ \A x \in Video \ {v} : mem'[x] = mem[x]
    BY <2>1 DEF OthersStay
  <2>3. mem'[v].vid = mem[v].vid \/ (mem'[v].vid = reply[v] /\ reply[v] \notin {0, Refused})
    BY <2>1 DEF TakesUp, Cleans, Sends, StopsEarly, GivesUp, HearsGUID, HearsRefusal, Tags, Awaits,
                StopsWaiting, Carries
  <2>4. Old(v, mem'[v])
    BY <1>2, <2>3 DEF TruthInv, OwnAnswers
  <2>5. QED
    BY <1>2, <1>3, <2>2, <2>4
<1>10. CASE RefreshStatus
  <2>1. mem' = mem /\ journal'.ents = Refresh(lib, journal.ents)
    BY <1>10 DEF RefreshStatus, Flush, volatile
  <2>2. \A v \in Video : journal'.ents[v].vid = journal.ents[v].vid
    BY <1>1, <2>1, RefreshedEntry
  <2>3. QED
    BY <1>2, <1>3, <2>1, <2>2
<1>11. CASE StartRun \/ LoadFails \/ CollectionsFail \/ BeginQueue \/ BeginWait \/ UNCHANGED vars
  BY <1>4, <1>11 DEF StartRun, LoadFails, CollectionsFail, RunFails, BeginQueue, BeginWait, vars, durable,
                     volatile, Over, Flush
<1>12. ASSUME NEW v \in Video, DeleteStalledFails(v)
       PROVE  OwnEntries'
  BY <1>4, <1>12 DEF DeleteStalledFails, Over, Flush
<1>13. CASE World
  BY <1>4, <1>9, <1>10, <1>13
     DEF World, Abort, Crash, Over, durable, GetSummary, volatile, ForeignUpload, Tick,
         CollectionReady, Flush, Land, NotLanded, Progress
<1>14. QED
  BY <1>5, <1>6, <1>7, <1>8, <1>9, <1>11, <1>12, <1>13 DEF Next, RunStep

(* Bunny's answer names the video it has just created. *)
LEMMA AnswersOwn ==
  ASSUME TruthInv, TypeOK', [Next]_vars
  PROVE  OwnAnswers'
<1>1. Onward /\ TypeOK /\ reply \in [Video -> Nat]
  BY LibraryGoesOn DEF TruthInv, RunInv, ListingsTaken, Taken, IInv, TypeOK
<1>2. ASSUME \A v \in Video : reply'[v] \in {reply[v], 0, Refused}
      PROVE  OwnAnswers'
  BY <1>1, <1>2, OwnStays DEF TruthInv, OwnAnswers
<1>3. ASSUME NEW f \in net, Land(f)
      PROVE  OwnAnswers'
  <2>1. f.v \in Video /\ TitleOf[f.v] \in Title /\ NewVideo(f.v, TitleOf[f.v])
    BY <1>1, <1>3, JournalAssumption DEF TypeOK, JournalAssumption, Land
  <2>2. Len(lib) + 1 \in DOMAIN lib' /\ lib'[Len(lib) + 1].src = f.v
    <3>1. lib'[Len(lib) + 1] = [src |-> f.v, tag |-> None, title |-> TitleOf[f.v],
                                health |-> "processing", at |-> epoch]
      BY <1>1, <2>1, VideoAdded
    <3>2. DOMAIN lib' = 1 .. Len(lib) + 1 /\ Len(lib) \in Nat
      BY <1>1, <2>1, VideoAdded, LenProperties DEF TypeOK
    <3>3. QED
      BY <3>1, <3>2
  <2>4. \A v \in Video : reply'[v] = reply[v] \/ (v = f.v /\ reply'[v] = Len(lib) + 1)
    BY <1>1, <1>3 DEF Land
  <2>5. ASSUME NEW v \in Video, reply'[v] \notin {0, Refused}
        PROVE  Own(v, reply[v])'
    <3>1. CASE reply'[v] = reply[v]
      <4> DEFINE g == reply[v]
      <4>1. Own(v, g)
        BY <2>5, <3>1 DEF TruthInv, OwnAnswers
      <4>2. reply'[v] = g
        BY <3>1
      <4>3. QED
        BY <1>1, <4>1, <4>2 DEF Own, Onward
    <3>2. CASE v = f.v /\ reply'[v] = Len(lib) + 1
      BY <2>2, <3>2 DEF Own
    <3>3. QED
      BY <2>4, <3>1, <3>2
  <2>6. QED
    BY <2>5 DEF OwnAnswers, Refused
<1>4. ASSUME NEW f \in net, NotLanded(f)
      PROVE  OwnAnswers'
  BY <1>1, <1>2, <1>4 DEF NotLanded
<1>5. ASSUME NEW v \in Video, WorkerStep(v) \/ Timeout(v) \/ LateTag(v)
      PROVE  OwnAnswers'
  <2>1. /\ OthersStay(v)
        /\ \/ TakesUp(v) \/ Cleans(v) \/ Sends(v) \/ StopsEarly(v) \/ GivesUp(v) \/ HearsGUID(v)
           \/ HearsRefusal(v) \/ Tags(v) \/ Awaits(v) \/ StopsWaiting(v)
    BY <1>5, WorkerMoves DEF TruthInv, RunInv, IInv
  <2>2. reply'[v] \in {0, reply[v]}
    BY <2>1 DEF TakesUp, Cleans, Sends, StopsEarly, GivesUp, HearsGUID, HearsRefusal, Tags, Awaits,
                StopsWaiting
  <2>3. QED
    BY <1>2, <2>1, <2>2 DEF OthersStay
<1>6. Over => OwnAnswers'
  BY DEF Over, NoIndex, OwnAnswers
<1>7. UNCHANGED reply => OwnAnswers'
  BY <1>2
<1>8. QED
  BY <1>3, <1>4, <1>5, <1>6, <1>7
     DEF Next, RunStep, World, StartRun, LoadIndex, LoadFails, CollectionsFail, RunFails, Prepare, BeginQueue,
         BeginWait, Finish, ReconcileEntry, DeleteStalled, DeleteStalledFails, Abort, durable,
         Crash, RefreshStatus, GetSummary, ForeignUpload, Tick, CollectionReady, Progress, vars, volatile

LEMMA NextTruth == TruthInv /\ [Next]_vars => TruthInv'
<1> SUFFICES ASSUME TruthInv, [Next]_vars PROVE TruthInv'
  OBVIOUS
<1>1. RunInv' /\ TrueListings'
  BY NextRuns, ListingsTrue DEF TruthInv
<1>2. OwnEntries' /\ OwnAnswers'
  BY <1>1, EntriesOwn, AnswersOwn DEF RunInv, IInv
<1>3. (TellingTitles => \A g \in DOMAIN lib : TrueRecord(lib[g]))'
  BY LibraryTrue DEF TellingTitles
<1>4. QED
  BY <1>1, <1>2, <1>3 DEF TruthInv

(* When the source's titles are its own, the dedup tag never lies, whatever was lost, recovered, refreshed or deleted: TruthfulTags is an invariant. *)
THEOREM TagsTruthful ==
  ASSUME TellingTitles
  PROVE  Spec => []TruthfulTags
<1>1. TruthInv => TruthfulTags
  BY DEF TruthInv, TrueRecord, TruthfulTags
<1>2. QED
  BY <1>1, InitTruth, NextTruth, PTL DEF Spec

-----------------------------------------------------------------------------
(* What a listing says of the library later on. *)

(* Bunny moves no video out of the healths of H. *)
Closed(H) == \A s \in HealthSteps : s[1] \in H => s[2] \in H

(* What was listed with a health of H has one of H. *)
KeptIn(H) ==
  /\ \A g \in DOMAIN snap : snap[g].health \in H => lib[g].health \in H
  /\ \A i \in DOMAIN service : \A g \in DOMAIN service[i].snap :
       service[i].snap[g].health \in H => lib[g].health \in H

LEMMA KeepsIn ==
  ASSUME NEW H, "gone" \in H, Closed(H), RunInv, KeptIn(H), [Next]_vars
  PROVE  KeptIn(H)'
<1>1. Onward /\ IInv
  BY LibraryGoesOn DEF RunInv, ListingsTaken, Taken
<1>2. \A g \in DOMAIN lib : lib[g].health \in H => lib'[g].health \in H
  <2>1. ASSUME NEW g \in DOMAIN lib, lib[g].health \in H, <<lib[g].health, lib'[g].health>> \in HealthSteps
        PROVE  lib'[g].health \in H
    BY <2>1 DEF Closed
  <2>2. QED
    BY <1>1, <2>1 DEF Onward
<1>3. /\ DOMAIN snap \subseteq DOMAIN lib
      /\ \A i \in DOMAIN service : DOMAIN service[i].snap \subseteq DOMAIN lib
  BY ListedThere
<1>4. /\ \/ snap' = snap \/ snap' = << >>
         \/ snap' = lib /\ lib' = lib
         \/ \E i \in DOMAIN service : snap' = service[i].snap
      /\ \A i \in DOMAIN service' :
           \/ i \in DOMAIN service /\ service'[i] = service[i]
           \/ service'[i].snap = lib /\ lib' = lib
  BY <1>1, ListingSources
<1>5. \A g \in DOMAIN snap' : snap'[g].health \in H => lib'[g].health \in H
  BY <1>2, <1>3, <1>4 DEF KeptIn
<1>6. ASSUME NEW i \in DOMAIN service', NEW g \in DOMAIN service'[i].snap, service'[i].snap[g].health \in H
      PROVE  lib'[g].health \in H
  BY <1>2, <1>3, <1>4, <1>6 DEF KeptIn
<1>7. QED
  BY <1>5, <1>6 DEF KeptIn

LEMMA InitKept == ASSUME NEW H, Init PROVE KeptIn(H)
BY DEF Init, KeptIn

(* Only a run removes videos, and what failed or got stuck does not recover. *)
StaysDown ==
  \A s \in HealthSteps :
    /\ s[2] # "gone"
    /\ s[1] \in {"failed", "rejected", "stalled"} => s[2] \in {"failed", "rejected", "stalled"}

(* A run that works from a listing however old deletes only copies that Bunny failed or holds stuck: DeletesOnlyDead. *)
THEOREM DeletesTheDead ==
  ASSUME StaysDown
  PROVE  Spec => DeletesOnlyDead
<1> DEFINE H == {"failed", "rejected", "stalled", "gone"}
           I == RunInv /\ KeptIn(H)
           Delete1(g) == lib'[g].health = "gone" /\ lib[g].health # "gone"
                           => IsDead(lib[g].health) \/ lib[g].health = "stalled"
<1>1. Closed(H)
  BY ImportAssumption DEF ImportAssumption, StaysDown, Closed
<1>2. Init => I
  BY InitRuns, InitKept
<1>3. I /\ [Next]_vars => I'
  BY <1>1, NextRuns, KeepsIn
<1>4. ASSUME I, [Next]_vars, NEW g \in DOMAIN lib
      PROVE  Delete1(g)
  <2>1. lib \in Seq(VideoRecord) /\ TypeOK /\ IInv /\ index \in SourceIndexes(snap)
    BY <1>4 DEF RunInv, IInv, TypeOK, ListingsTaken, Taken
  <2>2. CASE Removes
    <3>1. PICK k \in DOMAIN snap :
            /\ lib' = [lib EXCEPT ![k].health = "gone"]
            /\ \/ \E v \in Video : k \in DeadCopies(snap, v)
               \/ \E v \in Video : index[v] = k /\ snap[k].health = "stalled"
      BY <2>2 DEF Removes
    <3>2. snap[k].health \in {"failed", "rejected", "stalled"}
      BY <3>1 DEF DeadCopies, IsDead
    <3>3. lib[k].health \in H
      BY <1>4, <3>2 DEF KeptIn
    <3>4. lib'[g].health = IF g = k THEN "gone" ELSE lib[g].health
      BY <2>1, <3>1, HealthSet DEF Health
    <3>5. QED
      BY <3>3, <3>4 DEF IsDead
  <2>3. ASSUME NEW v \in Video, WritesTag(v)
        PROVE  Delete1(g)
    <3>1. lib'[g].health = lib[g].health
      BY <2>1, <2>3, TagSet DEF WritesTag
    <3>2. QED
      BY <3>1
  <2>4. CASE ForeignUpload
    <3>1. lib'[g] = lib[g]
      BY ImportAssumption, <2>1, <2>4, VideoAdded DEF ForeignUpload, ImportAssumption
    <3>2. QED
      BY <3>1
  <2>5. ASSUME NEW f \in net, Land(f)
        PROVE  Delete1(g)
    <3>1. f.v \in Video /\ TitleOf[f.v] \in Title /\ NewVideo(f.v, TitleOf[f.v])
      BY <2>1, <2>5, JournalAssumption DEF TypeOK, JournalAssumption, Land
    <3>2. lib'[g] = lib[g]
      BY <2>1, <3>1, VideoAdded
    <3>3. QED
      BY <3>2
  <2>6. ASSUME NEW k \in DOMAIN lib, Progress(k)
        PROVE  Delete1(g)
    <3>1. PICK h \in Health : <<lib[k].health, h>> \in HealthSteps /\ lib' = [lib EXCEPT ![k].health = h]
      BY <2>6 DEF Progress
    <3>2. h # "gone"
      BY <3>1 DEF StaysDown
    <3>3. lib'[g].health = IF g = k THEN h ELSE lib[g].health
      BY <2>1, <3>1, HealthSet
    <3>4. QED
      BY <3>2, <3>3
  <2>7. CASE lib' = lib
    BY <2>7
  <2> HIDE DEF Delete1
  <2>8. QED
    BY <1>4, <2>1, <2>2, <2>3, <2>4, <2>5, <2>6, <2>7, LibrarySteps
<1>5. I /\ [Next]_vars => [\A g \in DOMAIN lib : Delete1(g)]_vars
  BY <1>4
<1>6. QED
  BY <1>2, <1>3, <1>5, PTL DEF Spec, DeletesOnlyDead

(* What is finished is played or removed, and never processed again. *)
FinishedStays == \A s \in HealthSteps : s[1] = "finished" => s[2] \in {"finished", "gone"}

FinishedOrGone == {"finished", "gone"}

Finished(e) == e.status = "completed" => e.vid \in DOMAIN lib /\ lib[e.vid].health \in FinishedOrGone

FinishedInv ==
  /\ TruthInv /\ KeptIn(FinishedOrGone)
  /\ \A v \in Video : Finished(journal.ents[v]) /\ Finished(mem[v])

LEMMA InitFinished == Init => FinishedInv
<1> SUFFICES ASSUME Init PROVE FinishedInv
  OBVIOUS
<1>1. mem = NoEntries /\ journal.ents = NoEntries
  BY DEF Init
<1>2. \A v \in Video : Finished(journal.ents[v]) /\ Finished(mem[v])
  BY <1>1, NewEntries DEF NoEntries, Finished
<1>3. QED
  BY <1>2, InitTruth, InitKept DEF FinishedInv

(* An entry becomes completed only for a video that is finished, in the listing or as the library answers. *)
LEMMA NextFinished ==
  ASSUME FinishedStays, FinishedInv, [Next]_vars
  PROVE  FinishedInv'
<1>1. /\ Onward /\ TypeOK /\ TypeOK' /\ mem \in Entries /\ journal.ents \in Entries
      /\ TruthInv' /\ Closed(FinishedOrGone) /\ TruthInv /\ RunInv
  <2>1. TruthInv /\ RunInv /\ TypeOK /\ mem \in Entries /\ journal.ents \in Entries
    BY DEF FinishedInv, TruthInv, RunInv, IInv, TypeOK
  <2>2. Onward /\ TruthInv' /\ TypeOK'
    BY <2>1, LibraryGoesOn, NextTruth, NextTyped DEF RunInv, ListingsTaken, Taken
  <2>3. Closed(FinishedOrGone)
    BY ImportAssumption DEF ImportAssumption, FinishedStays, Closed, FinishedOrGone
  <2>4. QED
    BY <2>1, <2>2, <2>3
<1>2. KeptIn(FinishedOrGone)'
  BY <1>1, KeepsIn DEF FinishedInv, FinishedOrGone
<1>3. \A g \in DOMAIN lib : g \in DOMAIN lib' /\ (lib[g].health \in FinishedOrGone => lib'[g].health \in FinishedOrGone)
  <2>1. ASSUME NEW g \in DOMAIN lib, lib[g].health \in FinishedOrGone, <<lib[g].health, lib'[g].health>> \in HealthSteps
        PROVE  lib'[g].health \in FinishedOrGone
    BY <1>1, <2>1 DEF Closed
  <2>2. QED
    BY <1>1, <2>1 DEF Onward, FinishedOrGone
<1>4. \A v \in Video : Finished(mem[v]) /\ Finished(journal.ents[v])
  BY DEF FinishedInv
<1>5. ASSUME \A v \in Video : Finished(mem'[v]) /\ Finished(journal'.ents[v])
      PROVE  FinishedInv'
  <2>1. \A v \in Video : Finished(mem[v])' /\ Finished(journal.ents[v])'
    BY <1>3, <1>5 DEF Finished
  <2>2. QED
    BY <1>1, <1>2, <2>1 DEF FinishedInv
<1>6. ASSUME mem' \in {mem, NoEntries}, journal'.ents \in {journal.ents, mem}
      PROVE  FinishedInv'
  <2>1. \A v \in Video : Finished(NoEntries[v])
    BY NewEntries DEF NoEntries, Finished
  <2>2. QED
    BY <1>4, <1>5, <1>6, <2>1
<1>7. CASE Finish
  <2>1. mem' = NoEntries
    BY <1>7 DEF Finish, Over
  <2>2. \/ journal'.ents = mem
        \/ \E gone : journal'.ents = FailGone(mem, gone)
    BY <1>7 DEF Finish, Flush
  <2>3. \A v \in Video : /\ journal'.ents[v].vid = mem[v].vid
                         /\ journal'.ents[v].status \in {mem[v].status, "failed"}
    BY <1>1, <2>2, GoneEntry
  <2>4. \A v \in Video : mem'[v].status = "absent"
    BY <2>1, NewEntries DEF NoEntries
  <2>5. QED
    BY <1>4, <1>5, <2>3, <2>4 DEF Finished
<1>8. CASE LoadIndex
  <2>1. journal' = journal
    BY <1>8 DEF LoadIndex, durable
  <2>2. opt.clean \in BOOLEAN
    BY <1>1 DEF TypeOK, OptionRecord
  <2>3. ASSUME NEW v \in Video
        PROVE  Finished(mem'[v])
    <3>1. CASE Resumed
      <4> DEFINE F == IF opt.folder = None THEN Video ELSE scope'
                 R == RequeueFailed(journal.ents, F, opt.clean)
                 g == FindLostFetch(snap', R, v)
      <4>1. mem' = RecoverLostFetches(snap', R)
        BY <1>8, <3>1 DEF LoadIndex
      <4>2. /\ R \in Entries
            /\ R[v] = journal.ents[v] \/ R[v].status \in {"processing", "pending"}
        BY <1>1, <2>2, RequeueFailedType, RequeuedEntry
      <4> HIDE DEF R, g
      <4>3. IF v \in Lost(R)
            THEN mem'[v].status \in {"processing", R[v].status}
            ELSE mem'[v] = R[v]
        BY <4>1, <4>2, RecoveredEntry DEF g
      <4>4. v \in Lost(R) => R[v].status # "completed"
        <5>1. ASSUME v \in Lost(R), R[v].status = "completed"
              PROVE  FALSE
          <6>1. R[v].vid = 0 /\ R[v] = journal.ents[v]
            BY <4>2, <5>1 DEF Lost
          <6>2. 0 \in DOMAIN lib
            BY <1>4, <5>1, <6>1 DEF Finished
          <6>3. QED
            BY <1>1, <6>2, LenProperties DEF TypeOK
        <5>2. QED
          BY <5>1
      <4>5. QED
        BY <1>4, <4>2, <4>3, <4>4 DEF Finished
    <3>2. CASE ~Resumed
      <4>1. mem' = AdoptOrphans(snap', index', journal.ents)
        BY <1>8, <3>2 DEF LoadIndex
      <4>2. mem'[v].status \in {"processing", "absent"}
        BY <1>1, <4>1, AdoptedEntry, NewEntries
      <4>3. QED
        BY <4>2 DEF Finished
    <3>3. QED
      BY <3>1, <3>2
  <2>4. QED
    BY <1>4, <1>5, <2>1, <2>3
<1>9. CASE Prepare
  <2>1. mem' = PrepareEntries(mem, scope) /\ journal'.ents = mem'
    BY <1>9 DEF Prepare, Flush
  <2>2. \A v \in Video : mem'[v] = NewEntry \/ mem'[v] = mem[v]
    BY <2>1 DEF PrepareEntries
  <2>3. Finished(NewEntry)
    BY NewEntries DEF Finished
  <2>4. QED
    BY <1>4, <1>5, <2>1, <2>2, <2>3
<1>10. ASSUME NEW v \in Video, ReconcileEntry(v) \/ DeleteStalled(v)
       PROVE  FinishedInv'
  <2>1. journal' = journal /\ \A x \in Video \ {v} : mem'[x] = mem[x]
    BY <1>1, <1>10 DEF ReconcileEntry, DeleteStalled, durable, Entries
  <2>2. mem[v] \in Entry /\ index[v] \in Nat /\ opt.clean \in BOOLEAN
    BY <1>1 DEF TypeOK, Entries, OptionRecord
  <2>3. CASE ReconcileEntry(v)
    <3> DEFINE e == mem[v]
               g == index[v]
               r == mem'[v]
    <3>1. r = Reconciled(snap, e, g, opt.clean) /\ e \in Entry /\ g \in Nat /\ Finished(e)
      BY <1>1, <1>4, <2>2, <2>3 DEF ReconcileEntry, Entries
    <3>2. g # 0 => g \in DOMAIN snap /\ g \in DOMAIN lib
      BY <1>1, IndexLeads, ListedThere DEF RunInv, ListingsTaken, Taken
    <3> HIDE DEF e, g, r
    <3>3. Outcome(snap, e, g, opt.clean, r)
      BY <2>2, <3>1, ReconciledEntry
    <3>4. r = e \/ r.status # "completed" \/ (r.vid = g /\ g # 0 /\ snap[g].health = "finished")
      BY <3>3 DEF Outcome
    <3>5. g # 0 /\ snap[g].health = "finished" => lib[g].health \in FinishedOrGone
      BY <3>2 DEF FinishedInv, KeptIn, FinishedOrGone
    <3>6. Finished(r)
      BY <3>1, <3>2, <3>4, <3>5 DEF Finished
    <3>7. QED
      BY <1>4, <1>5, <2>1, <3>6 DEF r
  <2>4. CASE DeleteStalled(v)
    <3>1. mem'[v] = StalledDeleted(mem[v])
      BY <1>1, <2>4 DEF DeleteStalled, Entries
    <3>2. mem'[v].status = "pending"
      BY <2>2, <3>1, StalledDeletedEntry
    <3>3. Finished(mem'[v])
      BY <3>2 DEF Finished
    <3>4. QED
      BY <1>4, <1>5, <2>1, <3>3
  <2>5. QED
    BY <1>10, <2>3, <2>4
<1>11. ASSUME NEW v \in Video, WorkerStep(v) \/ Timeout(v) \/ LateTag(v)
       PROVE  FinishedInv'
  <2>1. /\ OthersStay(v)
        /\ \/ TakesUp(v) \/ Cleans(v) \/ Sends(v) \/ StopsEarly(v) \/ GivesUp(v) \/ HearsGUID(v)
           \/ HearsRefusal(v) \/ Tags(v) \/ Awaits(v) \/ StopsWaiting(v)
    BY <1>1, <1>11, WorkerMoves DEF RunInv
  <2>2. journal'.ents = mem' /\ \A x \in Video \ {v} : mem'[x] = mem[x]
    BY <2>1 DEF OthersStay
  <2>3. \/ mem'[v].vid = mem[v].vid /\ mem'[v].status = mem[v].status
        \/ mem'[v].status # "completed"
        \/ mem'[v].vid = mem[v].vid /\ w[v] = "await" /\ lib[mem[v].vid].health = "finished"
    BY <2>1 DEF TakesUp, Cleans, Sends, StopsEarly, GivesUp, HearsGUID, HearsRefusal, Tags, Awaits,
                StopsWaiting, Carries
  <2>4. w[v] = "await" => mem[v].vid \in DOMAIN lib
    BY <1>1 DEF RunInv, WorkersShapely, WorkerShapely, TruthInv, OwnEntries, Own
  <2>5. Finished(mem'[v])
    BY <1>4, <2>3, <2>4 DEF Finished, FinishedOrGone
  <2>6. QED
    BY <1>4, <1>5, <2>2, <2>5
<1>12. CASE RefreshStatus
  <2>1. mem' = mem /\ journal'.ents = Refresh(lib, journal.ents)
    BY <1>12 DEF RefreshStatus, Flush, volatile
  <2>2. ASSUME NEW v \in Video
        PROVE  Finished(journal'.ents[v])
    <3> DEFINE e == journal'.ents[v]
               o == journal.ents[v]
    <3>1. /\ e.vid = o.vid
          /\ \/ e = o
             \/ e.status \in {"failed", "processing", o.status}
             \/ e.status = "completed" /\ o.vid \in Listed(lib) /\ lib[o.vid].health = "finished"
      BY <1>1, <2>1, RefreshedEntry
    <3>2. QED
      BY <1>4, <3>1 DEF Finished, FinishedOrGone, Listed
  <2>3. QED
    BY <1>4, <1>5, <2>1, <2>2
<1>13. CASE StartRun \/ LoadFails \/ CollectionsFail \/ BeginQueue \/ BeginWait \/ UNCHANGED vars
  BY <1>6, <1>13 DEF StartRun, LoadFails, CollectionsFail, RunFails, BeginQueue, BeginWait, vars, durable,
                     volatile, Over, Flush
<1>14. ASSUME NEW v \in Video, DeleteStalledFails(v)
       PROVE  FinishedInv'
  BY <1>6, <1>14 DEF DeleteStalledFails, Over, Flush
<1>15. CASE World
  BY <1>6, <1>11, <1>12, <1>15
     DEF World, Abort, Crash, Over, durable, GetSummary, volatile, ForeignUpload, Tick,
         CollectionReady, Flush, Land, NotLanded, Progress
<1>16. QED
  BY <1>7, <1>8, <1>9, <1>10, <1>11, <1>12, <1>13, <1>14, <1>15 DEF Next, RunStep

(* What the journal calls completed was finished by Bunny, whatever was retried, deleted or refreshed before, and however old the listing a run decides from: CompletedIsFinished is an invariant. *)
THEOREM CompletedTruly ==
  ASSUME FinishedStays
  PROVE  Spec => []CompletedIsFinished
<1>1. FinishedInv => CompletedIsFinished
  BY DEF FinishedInv, Finished, FinishedOrGone, CompletedIsFinished
<1>2. FinishedInv /\ [Next]_vars => FinishedInv'
  BY NextFinished
<1>3. QED
  BY <1>1, <1>2, InitFinished, PTL DEF Spec

-----------------------------------------------------------------------------
(* One working copy under a tag. *)

(* What Bunny failed or rejected stays so, or is removed. *)
DeadStays == Closed({"failed", "rejected", "gone"})

Working(v) == {g \in Tagged(lib, v) : ~IsDead(lib[g].health)}

OneTagged == \A v \in Video : \A g, h \in Working(v) : g = h

(* Until a run queues anything, the working copy under a tag is the one its index has. *)
WorkingIndexed ==
  pc \in {"collections", "reconcile"} =>
    \A v \in Video : \A g \in Working(v) : g = index[v] /\ ~IsDead(snap[g].health)

(* A video that is queued or handed off has no working tagged copy but perhaps the one its entry records. *)
Anew(v) ==
  Queueable(v) \/ ToFetch(v) \/ w[v] \in {"sent", "late", "tag", "latetag"}
    => Working(v) \subseteq {mem[v].vid}

Unsummarised == service = << >> /\ ~cached

OneInv ==
  /\ TruthInv /\ Unsummarised /\ OneTagged /\ WorkingIndexed
  /\ \A v \in Video : Anew(v)

LEMMA InitOne == Init => OneInv
<1> SUFFICES ASSUME Init PROVE OneInv
  OBVIOUS
<1>1. \A v \in Video : Working(v) = {}
  BY DEF Init, Working, Tagged, Listed
<1>2. Unsummarised
  BY DEF Init, Unsummarised
<1>3. QED
  BY <1>1, <1>2, InitTruth DEF OneInv, OneTagged, WorkingIndexed, Anew

(* Only its worker adds a working copy to those under a video's tag: the one its entry records. *)
LEMMA WorkingSteps ==
  ASSUME DeadStays, RunInv, [Next]_vars, NEW v \in Video
  PROVE  \/ Working(v)' \subseteq Working(v)
         \/ /\ w[v] \in {"tag", "latetag"} /\ WritesTag(v)
            /\ Working(v)' \subseteq Working(v) \cup {mem[v].vid}
<1>1. lib \in Seq(VideoRecord) /\ TypeOK /\ IInv /\ index \in SourceIndexes(snap)
  BY DEF RunInv, IInv, TypeOK, ListingsTaken, Taken
<1>2. CASE lib' = lib
  BY <1>2 DEF Working, Tagged, Listed
<1>3. ASSUME NEW k, NEW h \in Health, lib' = [lib EXCEPT ![k].health = h],
             k \in DOMAIN lib /\ h # "gone" /\ ~IsDead(h)
                => lib[k].health # "gone" /\ ~IsDead(lib[k].health)
      PROVE  Working(v)' \subseteq Working(v)
  <2>1. /\ DOMAIN lib' = DOMAIN lib
        /\ \A g \in DOMAIN lib : lib'[g].tag = lib[g].tag
                                 /\ lib'[g].health = IF g = k THEN h ELSE lib[g].health
    BY <1>1, <1>3, HealthSet
  <2>2. ASSUME NEW g \in Working(v)'
        PROVE  g \in Working(v)
    <3>1. g \in DOMAIN lib /\ lib[g].tag = v /\ lib'[g].health # "gone" /\ ~IsDead(lib'[g].health)
      BY <2>1, <2>2 DEF Working, Tagged, Listed
    <3>2. lib[g].health # "gone" /\ ~IsDead(lib[g].health)
      BY <1>3, <2>1, <3>1
    <3>3. QED
      BY <3>1, <3>2 DEF Working, Tagged, Listed
  <2>3. QED
    BY <2>2
<1>4. CASE Removes
  BY <1>3, <1>4 DEF Removes, Health
<1>5. ASSUME NEW u \in Video, w[u] \in {"tag", "latetag"}, WritesTag(u)
      PROVE  Working(v)' \subseteq Working(v) \/ (u = v /\ Working(v)' \subseteq Working(v) \cup {mem[v].vid})
  <2>1. /\ DOMAIN lib' = DOMAIN lib
        /\ \A g \in DOMAIN lib : lib'[g].health = lib[g].health
                                 /\ lib'[g].tag = IF g = mem[u].vid THEN u ELSE lib[g].tag
    BY <1>1, <1>5, TagSet DEF WritesTag
  <2>2. ASSUME NEW g \in Working(v)'
        PROVE  g \in Working(v) \/ (u = v /\ g = mem[v].vid)
    BY <2>1, <2>2 DEF Working, Tagged, Listed
  <2>3. QED
    BY <2>2
<1>6. ASSUME NEW src \in Video \cup {None}, NEW title \in Title, NewVideo(src, title)
      PROVE  Working(v)' \subseteq Working(v)
  <2> DEFINE n == Len(lib) + 1
  <2>1. /\ DOMAIN lib = 1 .. Len(lib) /\ DOMAIN lib' = 1 .. n /\ Len(lib) \in Nat
        /\ \A k \in DOMAIN lib : lib'[k] = lib[k]
        /\ lib'[n] = [src |-> src, tag |-> None, title |-> title, health |-> "processing", at |-> epoch]
    BY <1>1, <1>6, VideoAdded, LenProperties
  <2>2. lib'[n].tag # v
    BY <2>1, JournalAssumption DEF JournalAssumption
  <2>3. \A k \in DOMAIN lib' : k \in DOMAIN lib \/ k = n
    BY <2>1
  <2> HIDE DEF n
  <2>4. QED
    BY <2>1, <2>2, <2>3 DEF Working, Tagged, Listed
<1>7. CASE ForeignUpload
  BY ImportAssumption, <1>6, <1>7 DEF ForeignUpload, ImportAssumption
<1>8. ASSUME NEW f \in net, Land(f)
      PROVE  Working(v)' \subseteq Working(v)
  <2>1. f.v \in Video /\ TitleOf[f.v] \in Title
    BY <1>1, JournalAssumption DEF TypeOK, JournalAssumption
  <2>2. QED
    BY <1>6, <1>8, <2>1 DEF Land
<1>9. ASSUME NEW k \in DOMAIN lib, Progress(k)
      PROVE  Working(v)' \subseteq Working(v)
  <2>1. PICK h \in Health : <<lib[k].health, h>> \in HealthSteps /\ lib' = [lib EXCEPT ![k].health = h]
    BY <1>9 DEF Progress
  <2>2. lib[k].health # "gone" /\ (IsDead(lib[k].health) => IsDead(h) \/ h = "gone")
    BY ImportAssumption, <2>1 DEF DeadStays, Closed, IsDead, ImportAssumption
  <2>3. QED
    BY <1>3, <2>1, <2>2
<1>10. QED
  BY <1>1, <1>2, <1>4, <1>5, <1>7, <1>8, <1>9, LibrarySteps

(* While no worker is busy the working copies only get fewer. *)
LEMMA WorkingEarly ==
  ASSUME DeadStays, RunInv, [Next]_vars, NEW v \in Video, w[v] = "idle"
  PROVE  Working(v)' \subseteq Working(v)
BY WorkingSteps

LEMMA StaysUnsummarised ==
  ASSUME ~Summaries, Unsummarised, IInv, [Next]_vars
  PROVE  Unsummarised'
<1>1. ASSUME NEW v \in Video, WorkerStep(v) \/ Timeout(v) \/ LateTag(v)
      PROVE  UNCHANGED <<service, cached>>
  BY <1>1, NextTyped, WorkerMoves DEF OthersStay, IInv
<1>2. UNCHANGED <<service, cached>> \/ (UNCHANGED service /\ Over)
  BY <1>1 DEF Unsummarised, Next, RunStep, World, StartRun, LoadIndex, LoadFails, CollectionsFail, RunFails,
     Prepare, BeginQueue, BeginWait, Finish, ReconcileEntry, DeleteStalled, DeleteStalledFails, Abort, durable,
     Crash, RefreshStatus, GetSummary, ForeignUpload, Tick, CollectionReady, Land, NotLanded, Progress,
     vars, volatile
<1>3. QED
  BY <1>2 DEF Over, Unsummarised

(* The index of a fresh listing has the working copy of every video that has one. *)
LEMMA FreshIndex ==
  ASSUME TypeOK, OneTagged, NEW idx \in SourceIndexes(lib), NEW v \in Video, NEW g \in Working(v)
  PROVE  idx[v] = g
<1>1. g \in Tagged(lib, v) /\ g \in DOMAIN lib /\ lib[g].health # "gone" /\ ~IsDead(lib[g].health)
  BY DEF Working, Tagged, Listed
<1>2. idx[v] # 0 /\ idx[v] \in Healthiest(lib, v) /\ idx[v] \in Tagged(lib, v)
  BY <1>1, IndexLeads
<1>3. \A k \in DOMAIN lib : lib[k].health \in Health
  <2>1. lib \in Seq(VideoRecord)
    BY DEF TypeOK
  <2>2. \A k \in DOMAIN lib : lib[k] \in VideoRecord
    BY <2>1, ElementOfSeq, LenProperties
  <2>3. QED
    BY <2>2 DEF VideoRecord
<1>4. HealthRank(lib[idx[v]].health) <= HealthRank(lib[g].health)
  BY <1>1, <1>2 DEF Healthiest
<1>5. HealthRank(lib[g].health) \in {0, 1}
  BY <1>1, <1>3 DEF HealthRank, InProgress, IsDead, Health
<1>6. ~IsDead(lib[idx[v]].health)
  BY <1>4, <1>5 DEF HealthRank, InProgress, IsDead
<1>7. QED
  BY <1>2, <1>6 DEF Working, OneTagged

LEMMA IndexedStays ==
  ASSUME DeadStays, OneInv, [Next]_vars
  PROVE  WorkingIndexed'
<1>1. TruthInv /\ RunInv /\ IInv /\ TypeOK
  BY DEF OneInv, TruthInv, RunInv, IInv
<1>2. ASSUME pc \in {"collections", "reconcile"}, UNCHANGED <<snap, index>>
      PROVE  WorkingIndexed'
  <2>1. \A v \in Video : w[v] = "idle"
    BY <1>1, <1>2 DEF IInv, NothingEarly, EarlyPhase
  <2>2. \A v \in Video : Working(v)' \subseteq Working(v)
    BY <1>1, <2>1, WorkingEarly
  <2>3. QED
    BY <1>2, <2>2 DEF OneInv, WorkingIndexed
<1>3. ASSUME pc' \notin {"collections", "reconcile"}
      PROVE  WorkingIndexed'
  BY <1>3 DEF WorkingIndexed
<1>4. CASE LoadIndex
  <2>1. snap' = lib /\ index' \in SourceIndexes(lib) /\ lib' = lib
    BY <1>4 DEF LoadIndex, OneInv, Unsummarised, durable
  <2>2. ASSUME NEW v \in Video, NEW g \in Working(v)'
        PROVE  g = index'[v] /\ ~IsDead(snap'[g].health)
    <3>1. g \in Working(v)
      BY <2>1, <2>2 DEF Working, Tagged, Listed
    <3>2. index'[v] = g
      BY <1>1, <2>1, <3>1, FreshIndex DEF OneInv
    <3>3. QED
      BY <2>1, <3>1, <3>2 DEF Working
  <2>3. QED
    BY <2>2 DEF WorkingIndexed
<1>5. ASSUME NEW v \in Video, WorkerStep(v) \/ Timeout(v) \/ LateTag(v)
      PROVE  WorkingIndexed'
  <2>1. pc \in {"queue", "wait"} /\ pc' = pc
    BY <1>1, <1>5, NextTyped, WorkerMoves DEF OthersStay
  <2>2. QED
    BY <1>3, <2>1
<1>6. Over => pc' = "idle"
  BY DEF Over
<1>7. UNCHANGED <<pc, snap, index>> => WorkingIndexed'
  BY <1>2, <1>3
<1>8. CASE StartRun \/ LoadFails \/ CollectionsFail \/ BeginQueue \/ BeginWait \/ Finish \/ Crash
           \/ \E v \in Video : DeleteStalledFails(v)
  BY <1>3, <1>6, <1>8 DEF StartRun, LoadFails, CollectionsFail, RunFails, BeginQueue, BeginWait, Finish, Crash,
                          DeleteStalledFails
<1>9. CASE Prepare
  BY <1>2, <1>9 DEF Prepare
<1>10. ASSUME NEW v \in Video, ReconcileEntry(v) \/ DeleteStalled(v)
       PROVE  WorkingIndexed'
  BY <1>7, <1>10 DEF ReconcileEntry, DeleteStalled
<1>11. CASE World
  BY <1>5, <1>7, <1>8, <1>11 DEF World, Abort, RefreshStatus, GetSummary, ForeignUpload, Tick,
     CollectionReady, Land, NotLanded, Progress, volatile
<1>12. CASE UNCHANGED vars
  BY <1>7, <1>12 DEF vars, volatile
<1>13. QED
  BY <1>4, <1>5, <1>8, <1>9, <1>10, <1>11, <1>12 DEF Next, RunStep

(* Of a video that is queued or handed off the working copies stay within the one its entry records. *)
LEMMA StaysAnew ==
  ASSUME DeadStays, OneInv, [Next]_vars, NEW v \in Video,
         Queueable(v) \/ ToFetch(v) \/ w[v] \in {"sent", "late", "tag", "latetag"}
  PROVE  Working(v)' \subseteq {mem[v].vid}
<1>1. Working(v) \subseteq {mem[v].vid}
  BY DEF OneInv, Anew
<1>2. QED
  BY <1>1, WorkingSteps DEF OneInv, TruthInv

LEMMA OneTaggedStays ==
  ASSUME DeadStays, OneInv, [Next]_vars
  PROVE  OneTagged'
<1>1. ASSUME NEW v \in Video, NEW g \in Working(v)', NEW h \in Working(v)'
      PROVE  g = h
  <2>1. CASE Working(v)' \subseteq Working(v)
    BY <1>1, <2>1 DEF OneInv, OneTagged
  <2>2. CASE w[v] \in {"tag", "latetag"}
    BY <1>1, <2>2, StaysAnew
  <2>3. QED
    BY <2>1, <2>2, WorkingSteps DEF OneInv, TruthInv
<1>2. QED
  BY <1>1 DEF OneTagged

(* A step that leaves alone what the pools work on. *)
LEMMA FrameAnew ==
  ASSUME DeadStays, OneInv, [Next]_vars, UNCHANGED <<pc, todo, mem, w, index>>, NEW v \in Video
  PROVE  Anew(v)'
BY StaysAnew DEF Anew, Queueable, ToFetch

(* Where no worker is busy and nothing is queued, there is nothing to show. *)
LEMMA NoneAnew ==
  ASSUME pc' \notin {"reconcile", "queue"}, \A v \in Video : w'[v] = "idle", NEW v \in Video
  PROVE  Anew(v)'
BY DEF Anew, Queueable, ToFetch

LEMMA PassesAnew ==
  ASSUME DeadStays, OneInv, [Next]_vars, NEW v \in Video,
         \/ StartRun \/ LoadIndex \/ LoadFails \/ CollectionsFail \/ Prepare \/ BeginQueue \/ BeginWait
         \/ Finish \/ Crash \/ \E x \in Video : DeleteStalledFails(x)
  PROVE  Anew(v)'
<1>1. RunInv /\ IInv
  BY DEF OneInv, TruthInv, RunInv
<1>2. pc \in EarlyPhase \cup {"idle"} => \A x \in Video : w[x] = "idle"
  BY <1>1 DEF IInv, NothingEarly
<1>3. CASE StartRun \/ LoadIndex
  BY <1>2, <1>3, NoneAnew DEF StartRun, LoadIndex, EarlyPhase
<1>4. CASE LoadFails \/ CollectionsFail \/ Finish \/ Crash \/ \E x \in Video : DeleteStalledFails(x)
  <2>1. Over
    BY <1>4 DEF LoadFails, CollectionsFail, RunFails, Finish, Crash, DeleteStalledFails
  <2>2. QED
    BY <2>1, NoneAnew DEF Over
<1>5. CASE Prepare
  <2>1. pc' = "reconcile" /\ todo' = Present(mem') /\ w'[v] = "idle"
    BY <1>2, <1>5 DEF Prepare, EarlyPhase
  <2>2. v \notin todo' => ~NeedsQueueing(index', mem'[v])
    BY <2>1 DEF Present, NeedsQueueing
  <2>3. QED
    BY <2>1, <2>2 DEF Anew, Queueable, ToFetch
<1>6. CASE BeginQueue
  <2>1. pc = "reconcile" /\ todo = {} /\ pc' = "queue" /\ w'[v] = "idle" /\ mem' = mem
        /\ todo' = {x \in Present(mem) : Scoped(x) /\ NeedsQueueing(index, mem[x])}
    BY <1>2, <1>6 DEF BeginQueue, EarlyPhase
  <2>2. v \in todo' => Queueable(v)
    BY <2>1 DEF Queueable
  <2>3. QED
    BY <2>1, <2>2, StaysAnew DEF Anew, Queueable, ToFetch
<1>7. CASE BeginWait
  <2>1. pc' = "wait" /\ UNCHANGED <<mem, w>>
    BY <1>7 DEF BeginWait
  <2>2. QED
    BY <2>1, StaysAnew DEF Anew, Queueable, ToFetch
<1>8. QED
  BY <1>3, <1>4, <1>5, <1>6, <1>7

(* An entry that stays to be queued after it was reconciled has no working copy but the one it records. *)
LEMMA ReconcileAnew ==
  ASSUME DeadStays, OneInv, [Next]_vars, NEW v \in Video, ReconcileEntry(v) \/ DeleteStalled(v), NEW x \in Video
  PROVE  Anew(x)'
<1>1. RunInv /\ IInv /\ TypeOK
  BY DEF OneInv, TruthInv, RunInv, IInv
<1>2. /\ pc = "reconcile" /\ pc' = "reconcile" /\ v \in todo /\ todo' = todo \ {v}
      /\ UNCHANGED <<snap, index, w>>
  BY DEF ReconcileEntry, DeleteStalled, durable
<1>3. /\ mem \in [Video -> Entry] /\ mem[v] \in Entry /\ index[v] \in Nat /\ opt.clean \in BOOLEAN
      /\ lib \in Seq(VideoRecord)
  BY <1>1 DEF TypeOK, Entries, OptionRecord
<1>4. w'[x] = "idle" /\ w[x] = "idle"
  BY <1>1, <1>2 DEF IInv, NothingEarly, EarlyPhase
<1>5. CASE x # v
  <2>1. mem'[x] = mem[x]
    BY <1>3, <1>5 DEF ReconcileEntry, DeleteStalled
  <2>2. QED
    BY <1>2, <1>4, <1>5, <2>1, StaysAnew DEF Anew, Queueable, ToFetch
<1>6. CASE x = v
  <2>1. SUFFICES ASSUME NeedsQueueing(index, mem'[v]), NEW g \in Working(v)'
                 PROVE  g = mem'[v].vid
    BY <1>2, <1>4, <1>6 DEF Anew, Queueable, ToFetch
  <2>2. g \in Working(v)
    BY <1>1, <1>4, <1>6, WorkingEarly
  <2>3. g = index[v] /\ ~IsDead(snap[g].health)
    BY <1>2, <2>2 DEF OneInv, WorkingIndexed
  <2>4. g \in DOMAIN lib /\ g # 0
    BY <1>3, <2>2, LenProperties DEF Working, Tagged, Listed
  <2>5. snap[g].health \in Health \ {"gone"}
    <3>1. g \in DOMAIN snap /\ snap[g].health # "gone"
      BY <1>1, <2>3, <2>4, IndexLeads DEF RunInv, ListingsTaken, Taken, Tagged, Listed
    <3>2. snap[g] \in VideoRecord
      BY <1>1, <3>1, ElementOfSeq, LenProperties DEF TypeOK
    <3>3. QED
      BY <3>1, <3>2 DEF VideoRecord
  <2>6. CASE ReconcileEntry(v)
    <3> DEFINE e == mem[v]
               r == mem'[v]
    <3>1. r = Reconciled(snap, e, index[v], opt.clean) /\ e \in Entry
      BY <1>3, <2>6 DEF ReconcileEntry
    <3> HIDE DEF e, r
    <3>2. Outcome(snap, e, g, opt.clean, r)
      BY <1>3, <2>3, <3>1, ReconciledEntry
    <3>3. NeedsQueueing(index, r)
      BY <2>1 DEF r
    <3>4. r.vid = g
      BY <2>3, <2>4, <2>5, <3>2, <3>3 DEF Outcome, NeedsQueueing, IsDead, InProgress, Health
    <3>5. QED
      BY <3>4 DEF r
  <2>7. CASE DeleteStalled(v)
    <3>1. lib' = [lib EXCEPT ![g].health = "gone"] /\ "gone" \in Health
      BY <2>3, <2>7 DEF DeleteStalled, Delete, Health
    <3>2. \A k \in DOMAIN lib : lib'[k].health = IF k = g THEN "gone" ELSE lib[k].health
      <4> HIDE DEF Health
      <4>1. QED
        BY <1>3, <3>1, HealthSet
    <3>3. lib'[g].health = "gone"
      BY <2>4, <3>2
    <3>4. QED
      BY <2>1, <3>3 DEF Working, Tagged, Listed
  <2>8. QED
    BY <2>6, <2>7
<1>7. QED
  BY <1>5, <1>6

LEMMA WorkerAnew ==
  ASSUME DeadStays, OneInv, [Next]_vars, NEW v \in Video, WorkerStep(v) \/ Timeout(v) \/ LateTag(v), NEW x \in Video
  PROVE  Anew(x)'
<1>1. RunInv /\ IInv /\ TypeOK /\ TypeOK'
  BY NextTyped DEF OneInv, TruthInv, RunInv, IInv
<1>2. /\ OthersStay(v)
      /\ \/ TakesUp(v) \/ Cleans(v) \/ Sends(v) \/ StopsEarly(v) \/ GivesUp(v) \/ HearsGUID(v)
         \/ HearsRefusal(v) \/ Tags(v) \/ Awaits(v) \/ StopsWaiting(v)
  BY <1>1, WorkerMoves
<1>3. /\ pc \in {"queue", "wait"} /\ pc' = pc /\ todo' \in {todo, todo \ {v}}
      /\ \A y \in Video \ {v} : mem'[y] = mem[y] /\ w'[y] = w[y]
  BY <1>2 DEF OthersStay
<1>4. CASE x # v
  BY <1>3, <1>4, StaysAnew DEF Anew, Queueable, ToFetch
<1>5. CASE x = v
  <2>1. ~(Queueable(v)') /\ (w[v] # "idle" => ~(pc' = "queue" /\ v \in todo'))
    BY <1>1, <1>3, BusyInPool DEF Queueable
  <2>2. CASE TakesUp(v) \/ Cleans(v) \/ Sends(v)
    <3>1. mem'[v].vid = mem[v].vid /\ ToFetch(v)
      BY <2>2 DEF TakesUp, Cleans, Sends, Carries, ToFetch
    <3>2. QED
      BY <1>5, <3>1, StaysAnew DEF Anew
  <2>3. CASE GivesUp(v)
    <3>1. mem'[v].vid = mem[v].vid /\ w[v] # "idle"
          /\ (w'[v] = "idle" \/ (w'[v] \in {"late", "latetag"} /\ w[v] \in {"sent", "tag"}))
      BY <2>3 DEF GivesUp, Carries
    <3>2. QED
      BY <1>5, <2>1, <3>1, StaysAnew DEF Anew, ToFetch
  <2>4. CASE HearsGUID(v)
    <3>1. w[v] \in {"sent", "late"} /\ mem[v].vid = 0
      BY <1>1, <2>4 DEF HearsGUID, RunInv, WorkersShapely, WorkerShapely, EntriesShapely, Shapely
    <3>2. Working(v)' \subseteq {0}
      BY <3>1, StaysAnew
    <3>3. 0 \notin Working(v)'
      <4>1. DOMAIN lib' = 1 .. Len(lib')
        BY <1>1, LenProperties DEF TypeOK
      <4>2. 0 \notin DOMAIN lib'
        BY <4>1
      <4>3. QED
        BY <4>2 DEF Working, Tagged, Listed
    <3>4. QED
      BY <1>5, <3>2, <3>3 DEF Anew
  <2>5. CASE StopsEarly(v) \/ HearsRefusal(v) \/ Tags(v) \/ StopsWaiting(v)
    <3>1. w'[v] = "idle" /\ w[v] # "idle"
      BY <2>5 DEF StopsEarly, HearsRefusal, Tags, StopsWaiting, Carries
    <3>2. QED
      BY <1>5, <2>1, <3>1 DEF Anew, ToFetch
  <2>6. CASE Awaits(v)
    BY <1>3, <1>5, <2>1, <2>6 DEF Awaits, Carries, Anew, ToFetch
  <2>7. QED
    BY <1>2, <2>2, <2>3, <2>4, <2>5, <2>6
<1>6. QED
  BY <1>4, <1>5

LEMMA NextOne == ~Summaries /\ DeadStays /\ OneInv /\ [Next]_vars => OneInv'
<1> SUFFICES ASSUME ~Summaries, DeadStays, OneInv, [Next]_vars PROVE OneInv'
  OBVIOUS
<1>1. TruthInv' /\ Unsummarised'
  BY NextTruth, StaysUnsummarised DEF OneInv, TruthInv, RunInv
<1>2. ASSUME NEW v \in Video
      PROVE  Anew(v)'
  <2>1. CASE StartRun
    BY <2>1, PassesAnew
  <2>2. CASE RunStep
    BY <2>2, PassesAnew, ReconcileAnew, WorkerAnew DEF RunStep
  <2>3. CASE World
    <3>1. UNCHANGED <<pc, todo, mem, w, index>> => Anew(v)'
      BY FrameAnew
    <3>2. QED
      BY <2>3, <3>1, PassesAnew, WorkerAnew
         DEF World, Abort, RefreshStatus, GetSummary, ForeignUpload, Tick, CollectionReady, Land, NotLanded,
             Progress, volatile
  <2>4. CASE UNCHANGED vars
    BY <2>4, FrameAnew DEF vars, volatile
  <2>5. QED
    BY <2>1, <2>2, <2>3, <2>4 DEF Next
<1>3. QED
  BY <1>1, <1>2, OneTaggedStays, IndexedStays DEF OneInv

(* Where a run lists the library itself and what Bunny failed stays failed, a fetch is sent only for a video that has no tagged copy in Bunny that works: SkipsImported holds. *)
THEOREM ImportedNotFetched ==
  ASSUME ~Summaries, DeadStays
  PROVE  Spec => SkipsImported
<1> DEFINE OnlyDead(v) == \A g \in Tagged(lib, v) : IsDead(lib[g].health) \/ lib[g].health = "stalled"
           A == \A v \in Video : w[v] = "lookup" /\ w'[v] = "sent" => OnlyDead(v)
<1>1. OneInv => A
  <2> SUFFICES ASSUME OneInv, NEW v \in Video, w[v] = "lookup" PROVE OnlyDead(v)
    OBVIOUS
  <2>1. mem[v].vid = 0 /\ lib \in Seq(VideoRecord)
    BY DEF OneInv, TruthInv, RunInv, IInv, TypeOK, WorkersShapely, WorkerShapely, EntriesShapely, Shapely
  <2>2. Working(v) \subseteq {0}
    BY <2>1 DEF OneInv, Anew, ToFetch
  <2>3. 0 \notin Tagged(lib, v)
    BY <2>1, LenProperties DEF Tagged, Listed
  <2>4. QED
    BY <2>2, <2>3 DEF Working
<1>2. Init => OneInv
  BY InitOne
<1>3. OneInv /\ [Next]_vars => OneInv'
  BY NextOne
<1>4. Spec => [][A]_vars
  BY <1>1, <1>2, <1>3, PTL DEF Spec
<1>5. QED
  BY <1>4 DEF SkipsImported

-----------------------------------------------------------------------------
(* One copy of a source video, whatever was lost or interrupted. *)

(* Bunny fails and rejects nothing. *)
NothingDies == \A s \in HealthSteps : ~IsDead(s[2])

NoneDead ==
  /\ \A g \in DOMAIN lib : ~IsDead(lib[g].health)
  /\ \A g \in DOMAIN snap : ~IsDead(snap[g].health)

(* A fetch of v is under way. *)
Asked(v) == \E f \in net : f.v = v

OneCopy(v) == \A g, h \in Copies(v) : g = h

(* At most one fetch of v is under way, of which the journal knows and which nothing came of yet. *)
AskedOnce(v) ==
  /\ \A f, k \in net : f.v = v /\ k.v = v => f = k
  /\ Asked(v) => /\ Copies(v) = {} /\ journal.ents[v].vid = 0
                 /\ journal.ents[v].pending \in 1 .. epoch

(* The entry leads to the video: it records its GUID, or a fetch no later than the video. *)
Records(e, g) == e.vid = g \/ (e.vid = 0 /\ e.pending # 0 /\ e.pending <= lib[g].at)

Recorded(v) == \A g \in Copies(v) : lib[g].tag = None => Records(journal.ents[v], g)

(* After the recovery pass a run knows every copy: an untagged one from its entry, a tagged one from its index. *)
Passed(v) ==
  pc \in {"collections", "reconcile"} =>
    /\ net = {}
    /\ \A g \in Copies(v) : IF lib[g].tag = None THEN mem[v].vid = g /\ index[v] = 0 ELSE index[v] = g

(* A video that is queued or about to be fetched is in Bunny at most as the copy its entry records. *)
Uncopied(v) == Queueable(v) \/ ToFetch(v) => Copies(v) \subseteq {mem[v].vid} /\ ~Asked(v)

Answered(v) ==
  /\ reply[v] = Refused => Copies(v) = {} /\ ~Asked(v)
  /\ reply[v] \notin {0, Refused} => Copies(v) \subseteq {reply[v]} /\ ~Asked(v)

Outlasting(v) == OneCopy(v) /\ AskedOnce(v) /\ Recorded(v)

Passing(v) == Passed(v) /\ Uncopied(v) /\ Answered(v)

CopyInv ==
  /\ TruthInv /\ Unsummarised /\ NoneDead
  /\ \A v \in Video : Outlasting(v) /\ Passing(v)

LEMMA InitCopies == Init => CopyInv
<1> SUFFICES ASSUME Init PROVE CopyInv
  OBVIOUS
<1>1. /\ lib = << >> /\ snap = << >> /\ net = {} /\ pc = "idle" /\ todo = {}
      /\ \A v \in Video : w[v] = "idle" /\ reply[v] = 0 /\ Copies(v) = {}
  BY DEF Init, NoIndex, Copies, Listed
<1>2. Unsummarised /\ NoneDead
  BY <1>1 DEF Init, Unsummarised, NoneDead
<1>3. ASSUME NEW v \in Video
      PROVE  Outlasting(v) /\ Passing(v)
  BY ImportAssumption, <1>1 DEF Outlasting, OneCopy, AskedOnce, Asked, Recorded, Passing, Passed, Uncopied,
     Answered, Queueable, ToFetch, Refused, ImportAssumption
<1>4. QED
  BY <1>2, <1>3, InitTruth DEF CopyInv

(* No copy of v is added, and none loses its date or its tag; only a worker gives one a tag. *)
KeepsCopies(v) ==
  \A g \in Copies(v)' :
    /\ g \in Copies(v) /\ lib'[g].at = lib[g].at
    /\ lib'[g].tag = lib[g].tag \/ (lib'[g].tag # None /\ pc \in {"queue", "wait"})

LEMMA CopySteps ==
  ASSUME TruthInv, [Next]_vars
  PROVE  \/ \A v \in Video : KeepsCopies(v)
         \/ \E f \in net : Land(f)
<1>1. lib \in Seq(VideoRecord) /\ TypeOK /\ IInv /\ index \in SourceIndexes(snap)
  BY DEF TruthInv, RunInv, IInv, TypeOK, ListingsTaken, Taken
<1>2. ASSUME NEW k, NEW h \in Health, lib' = [lib EXCEPT ![k].health = h],
             k \in DOMAIN lib /\ h # "gone" => lib[k].health # "gone",
             NEW v \in Video
      PROVE  KeepsCopies(v)
  <2>1. /\ DOMAIN lib' = DOMAIN lib
        /\ \A g \in DOMAIN lib : /\ lib'[g].src = lib[g].src /\ lib'[g].tag = lib[g].tag
                                 /\ lib'[g].at = lib[g].at
                                 /\ lib'[g].health = IF g = k THEN h ELSE lib[g].health
    BY <1>1, <1>2, HealthSet
  <2>2. QED
    BY <1>2, <2>1 DEF KeepsCopies, Copies, Listed
<1>3. CASE lib' = lib
  BY <1>3 DEF KeepsCopies, Copies, Listed
<1>4. CASE Removes
  BY <1>2, <1>4 DEF Removes, Health
<1>5. ASSUME NEW u \in Video, w[u] \in {"tag", "latetag"}, WritesTag(u), NEW v \in Video
      PROVE  KeepsCopies(v)
  <2>1. /\ DOMAIN lib' = DOMAIN lib
        /\ \A g \in DOMAIN lib : /\ lib'[g].src = lib[g].src /\ lib'[g].health = lib[g].health
                                 /\ lib'[g].at = lib[g].at
                                 /\ lib'[g].tag = IF g = mem[u].vid THEN u ELSE lib[g].tag
    BY <1>1, <1>5, TagSet DEF WritesTag
  <2>2. pc \in {"queue", "wait"} /\ u # None
    BY <1>1, <1>5, BusyInPool, JournalAssumption DEF JournalAssumption
  <2>3. QED
    BY <2>1, <2>2 DEF KeepsCopies, Copies, Listed
<1>6. ASSUME NEW t \in Title, NewVideo(None, t), NEW v \in Video
      PROVE  KeepsCopies(v)
  <2> DEFINE n == Len(lib) + 1
  <2>1. /\ DOMAIN lib = 1 .. Len(lib) /\ DOMAIN lib' = 1 .. n /\ Len(lib) \in Nat
        /\ \A k \in DOMAIN lib : lib'[k] = lib[k]
        /\ lib'[n] = [src |-> None, tag |-> None, title |-> t, health |-> "processing", at |-> epoch]
    BY <1>1, <1>6, VideoAdded, LenProperties
  <2>2. lib'[n].src # v
    BY <2>1, JournalAssumption DEF JournalAssumption
  <2>3. \A k \in DOMAIN lib' : k \in DOMAIN lib \/ k = n
    BY <2>1
  <2> HIDE DEF n
  <2>4. QED
    BY <2>1, <2>2, <2>3 DEF KeepsCopies, Copies, Listed
<1>7. CASE ForeignUpload
  BY ImportAssumption, <1>6, <1>7 DEF ForeignUpload, ImportAssumption
<1>8. ASSUME NEW k \in DOMAIN lib, Progress(k), NEW v \in Video
      PROVE  KeepsCopies(v)
  <2>1. PICK h \in Health : <<lib[k].health, h>> \in HealthSteps /\ lib' = [lib EXCEPT ![k].health = h]
    BY <1>8 DEF Progress
  <2>2. lib[k].health # "gone"
    BY ImportAssumption, <2>1 DEF ImportAssumption
  <2>3. QED
    BY <1>2, <2>1, <2>2
<1>9. QED
  BY <1>1, <1>3, <1>4, <1>5, <1>7, <1>8, LibrarySteps

LEMMA NoneDeadStays ==
  ASSUME NothingDies, CopyInv, [Next]_vars
  PROVE  NoneDead'
<1>1. /\ lib \in Seq(VideoRecord) /\ TypeOK /\ TypeOK' /\ IInv /\ index \in SourceIndexes(snap)
      /\ \A g \in DOMAIN lib : ~IsDead(lib[g].health)
  BY NextTyped DEF CopyInv, NoneDead, TruthInv, RunInv, IInv, TypeOK, ListingsTaken, Taken
<1> DEFINE Sound == \A g \in DOMAIN lib' : ~IsDead(lib'[g].health)
<1>2. lib' = lib => Sound
  BY <1>1
<1>3. ASSUME NEW k, NEW h \in Health, lib' = [lib EXCEPT ![k].health = h], ~IsDead(h)
      PROVE  Sound
  <2>1. /\ DOMAIN lib' = DOMAIN lib
        /\ \A g \in DOMAIN lib : lib'[g].health = IF g = k THEN h ELSE lib[g].health
    BY <1>1, <1>3, HealthSet
  <2>2. QED
    BY <1>1, <1>3, <2>1
<1>4. Removes => Sound
  BY <1>3 DEF Removes, Health, IsDead
<1>5. ASSUME NEW u \in Video, WritesTag(u)
      PROVE  Sound
  <2>1. /\ DOMAIN lib' = DOMAIN lib
        /\ \A g \in DOMAIN lib : lib'[g].health = lib[g].health
    BY <1>1, <1>5, TagSet DEF WritesTag
  <2>2. QED
    BY <1>1, <2>1
<1>6. ASSUME NEW src \in Video \cup {None}, NEW t \in Title, NewVideo(src, t)
      PROVE  Sound
  <2> DEFINE n == Len(lib) + 1
  <2>1. /\ DOMAIN lib = 1 .. Len(lib) /\ DOMAIN lib' = 1 .. n /\ Len(lib) \in Nat
        /\ \A k \in DOMAIN lib : lib'[k] = lib[k]
        /\ lib'[n] = [src |-> src, tag |-> None, title |-> t, health |-> "processing", at |-> epoch]
    BY <1>1, <1>6, VideoAdded, LenProperties
  <2>2. ~IsDead(lib'[n].health)
    BY <2>1 DEF IsDead
  <2>3. \A k \in DOMAIN lib' : k \in DOMAIN lib \/ k = n
    BY <2>1
  <2> HIDE DEF n
  <2>4. QED
    BY <1>1, <2>1, <2>2, <2>3
<1>7. ForeignUpload => Sound
  BY ImportAssumption, <1>6 DEF ForeignUpload, ImportAssumption
<1>8. ASSUME NEW f \in net, Land(f)
      PROVE  Sound
  <2>1. f.v \in Video /\ TitleOf[f.v] \in Title
    BY <1>1, JournalAssumption DEF TypeOK, JournalAssumption
  <2>2. QED
    BY <1>6, <1>8, <2>1 DEF Land
<1>9. ASSUME NEW k \in DOMAIN lib, Progress(k)
      PROVE  Sound
  <2>1. PICK h \in Health : <<lib[k].health, h>> \in HealthSteps /\ lib' = [lib EXCEPT ![k].health = h]
    BY <1>9 DEF Progress
  <2>2. ~IsDead(h)
    BY <2>1 DEF NothingDies
  <2>3. QED
    BY <1>3, <2>1, <2>2
<1>10. Sound
  BY <1>1, <1>2, <1>4, <1>5, <1>7, <1>8, <1>9, LibrarySteps
<1>11. snap' = snap \/ snap' = << >> \/ (snap' = lib /\ lib' = lib)
  <2>1. service = << >>
    BY DEF CopyInv, Unsummarised
  <2>2. DOMAIN service = {}
    BY <2>1
  <2>3. QED
    BY <1>1, <2>2, ListingSources
<1>12. \A g \in DOMAIN snap' : ~IsDead(snap'[g].health)
  BY <1>1, <1>11 DEF CopyInv, NoneDead
<1>13. QED
  BY <1>10, <1>12 DEF NoneDead

(* What outlives runs is kept where entries keep what they record. *)
LEMMA OutlastsKept ==
  ASSUME NEW v \in Video, KeepsCopies(v), Outlasting(v), epoch \in Nat, epoch' \in Nat, epoch <= epoch',
         \A f \in net' : f.v = v => f \in net,
         journal'.ents[v].vid = journal.ents[v].vid, journal'.ents[v].pending = journal.ents[v].pending
  PROVE  Outlasting(v)'
<1>1. OneCopy(v)'
  BY DEF Outlasting, OneCopy, KeepsCopies
<1>2. AskedOnce(v)'
  <2>1. \A f, k \in net' : f.v = v /\ k.v = v => f = k
    BY DEF Outlasting, AskedOnce
  <2>2. ASSUME Asked(v)'
        PROVE  Copies(v)' = {} /\ journal'.ents[v].vid = 0 /\ journal'.ents[v].pending \in 1 .. epoch'
    <3>1. Asked(v)
      BY <2>2 DEF Asked
    <3>2. Copies(v) = {} /\ journal.ents[v].vid = 0 /\ journal.ents[v].pending \in 1 .. epoch
      BY <3>1 DEF Outlasting, AskedOnce
    <3>3. QED
      BY <3>2 DEF KeepsCopies
  <2>3. QED
    BY <2>1, <2>2 DEF AskedOnce
<1>3. Recorded(v)'
  BY DEF Outlasting, Recorded, KeepsCopies, Records
<1>4. QED
  BY <1>1, <1>2, <1>3 DEF Outlasting

(* After the recovery pass the entries of the run may be saved. *)
LEMMA OutlastsSaved ==
  ASSUME NEW v \in Video, KeepsCopies(v), Outlasting(v), Passed(v), pc \in {"collections", "reconcile"},
         net' = net, journal'.ents[v].vid = mem[v].vid
  PROVE  Outlasting(v)'
<1>1. OneCopy(v)'
  BY DEF Outlasting, OneCopy, KeepsCopies
<1>2. AskedOnce(v)'
  BY DEF Passed, AskedOnce, Asked
<1>3. Recorded(v)'
  BY DEF Passed, Recorded, KeepsCopies, Records
<1>4. QED
  BY <1>1, <1>2, <1>3 DEF Outlasting

LEMMA PassedKept ==
  ASSUME NEW v \in Video, KeepsCopies(v), Passed(v), pc \in {"collections", "reconcile"}, net' \subseteq net,
         mem'[v].vid = mem[v].vid, index' = index
  PROVE  Passed(v)'
BY DEF Passed, KeepsCopies

LEMMA AnsweredKept ==
  ASSUME NEW v \in Video, KeepsCopies(v), Answered(v), reply'[v] \in {0, reply[v]},
         \A f \in net' : f.v = v => f \in net
  PROVE  Answered(v)'
<1>1. Asked(v)' => Asked(v)
  BY DEF Asked
<1>2. Copies(v)' \subseteq Copies(v)
  BY DEF KeepsCopies
<1>3. 0 # Refused
  BY ImportAssumption DEF Refused, ImportAssumption
<1>4. QED
  BY <1>1, <1>2, <1>3 DEF Answered

LEMMA UncopiedKept ==
  ASSUME NEW v \in Video, KeepsCopies(v), Uncopied(v), Queueable(v) \/ ToFetch(v),
         \A f \in net' : f.v = v => f \in net
  PROVE  Copies(v)' \subseteq {mem[v].vid} /\ ~(Asked(v)')
BY DEF Uncopied, KeepsCopies, Asked

(* A step that leaves alone what the run works on. *)
LEMMA PassingKept ==
  ASSUME NEW v \in Video, KeepsCopies(v), Passing(v), net' \subseteq net, reply'[v] \in {0, reply[v]},
         UNCHANGED <<pc, todo, mem, w, index>>
  PROVE  Passing(v)'
<1>1. Passed(v)'
  BY PassedKept DEF Passing, Passed
<1>2. Answered(v)'
  BY AnsweredKept DEF Passing
<1>3. (Queueable(v) \/ ToFetch(v))' => Queueable(v) \/ ToFetch(v)
  BY DEF Queueable, ToFetch
<1>4. Uncopied(v)'
  BY <1>3, UncopiedKept DEF Passing, Uncopied
<1>5. QED
  BY <1>1, <1>2, <1>4 DEF Passing

(* Where no run is past its listing. *)
LEMMA PassingIdle ==
  ASSUME NEW v \in Video, pc' \in {"idle", "loading"}, w'[v] = "idle", reply'[v] = 0
  PROVE  Passing(v)'
BY ImportAssumption DEF Passing, Passed, Uncopied, Queueable, ToFetch, Answered, Refused, ImportAssumption

(* The one request of a video lands: its copy is the only one, and the journal has a fetch no later. *)
LEMMA LandCopies ==
  ASSUME CopyInv, NEW f \in net, Land(f), NEW v \in Video
  PROVE  Outlasting(v)' /\ Passing(v)'
<1>1. TypeOK /\ lib \in Seq(VideoRecord) /\ epoch \in Nat \ {0} /\ f.v \in Video /\ TitleOf[f.v] \in Title
      /\ reply \in [Video -> Nat]
  BY JournalAssumption DEF CopyInv, TruthInv, RunInv, IInv, TypeOK, JournalAssumption
<1> DEFINE n == Len(lib) + 1
<1>2. /\ DOMAIN lib = 1 .. Len(lib) /\ DOMAIN lib' = 1 .. n /\ Len(lib) \in Nat /\ Len(lib) < MaxVideos
      /\ \A k \in DOMAIN lib : lib'[k] = lib[k]
      /\ lib'[n] = [src |-> f.v, tag |-> None, title |-> TitleOf[f.v], health |-> "processing", at |-> epoch]
  BY <1>1, VideoAdded, LenProperties DEF Land
<1>3. \A k \in DOMAIN lib' : k \in DOMAIN lib \/ k = n
  BY <1>2
<1>4. n # 0 /\ n # Refused /\ Refused # 0
  BY ImportAssumption, <1>2 DEF Refused, ImportAssumption
<1>5. lib'[n].src = f.v /\ lib'[n].tag = None /\ lib'[n].at = epoch
  BY <1>2
<1> HIDE DEF n
<1>6. net' = net \ {f} /\ UNCHANGED <<journal, epoch, pc, todo, mem, w, index>>
      /\ (reply' = reply \/ reply' = [reply EXCEPT ![f.v] = n])
  BY DEF Land, n
<1>7. Outlasting(v) /\ Passing(v) /\ Outlasting(f.v) /\ Passing(f.v) /\ Asked(f.v)
  BY <1>1 DEF CopyInv, Asked
<1>8. pc \notin {"collections", "reconcile"}
  BY <1>7 DEF Passing, Passed
<1>9. CASE v # f.v
  <2>1. KeepsCopies(v)
    BY <1>2, <1>3, <1>5, <1>9 DEF KeepsCopies, Copies, Listed
  <2>2. reply'[v] = reply[v]
    BY <1>1, <1>6, <1>9
  <2>3. QED
    BY <1>1, <1>6, <1>7, <2>1, <2>2, OutlastsKept, PassingKept
<1>10. CASE v = f.v
  <2>1. Copies(v) = {} /\ journal.ents[v].vid = 0 /\ journal.ents[v].pending \in 1 .. epoch
    BY <1>7, <1>10 DEF Outlasting, AskedOnce
  <2>2. Copies(v)' \subseteq {n}
    BY <1>2, <1>3, <2>1 DEF Copies, Listed
  <2>3. \A k \in net : k.v = v => k = f
    BY <1>7, <1>10 DEF Outlasting, AskedOnce
  <2>4. ~(Asked(v)')
    BY <1>6, <2>3 DEF Asked
  <2>5. OneCopy(v)' /\ AskedOnce(v)'
    BY <1>6, <2>2, <2>3, <2>4 DEF OneCopy, AskedOnce
  <2>6. Recorded(v)'
    BY <1>1, <1>5, <1>6, <2>1, <2>2 DEF Recorded, Records
  <2>7. reply[v] = 0
    BY <1>7, <1>10 DEF Passing, Answered
  <2>8. reply'[v] \in {0, n}
    BY <1>1, <1>6, <1>10, <2>7
  <2>9. Answered(v)'
    BY <1>4, <2>2, <2>4, <2>8 DEF Answered, Refused
  <2>10. ~(Queueable(v) \/ ToFetch(v))
    BY <1>7, <1>10 DEF Passing, Uncopied
  <2>11. Passed(v)' /\ Uncopied(v)'
    BY <1>6, <1>8, <2>10 DEF Passed, Uncopied, Queueable, ToFetch
  <2>12. QED
    BY <2>5, <2>6, <2>9, <2>11 DEF Outlasting, Passing
<1>11. QED
  BY <1>9, <1>10

LEMMA NotLandedCopies ==
  ASSUME CopyInv, \A v \in Video : KeepsCopies(v), NEW f \in net, NotLanded(f), NEW v \in Video
  PROVE  Outlasting(v)' /\ Passing(v)'
<1>1. TypeOK /\ epoch \in Nat /\ reply \in [Video -> Nat] /\ f.v \in Video
  BY DEF CopyInv, TruthInv, RunInv, IInv, TypeOK
<1>2. net' = net \ {f} /\ UNCHANGED <<journal, epoch, pc, todo, mem, w, index>>
      /\ (reply' = reply \/ reply' = [reply EXCEPT ![f.v] = Refused])
  BY DEF NotLanded
<1>3. Outlasting(v) /\ Passing(v) /\ KeepsCopies(v)
  BY DEF CopyInv
<1>4. Outlasting(v)'
  BY <1>1, <1>2, <1>3, OutlastsKept
<1>5. CASE reply'[v] = reply[v]
  BY <1>2, <1>3, <1>4, <1>5, PassingKept
<1>6. CASE v = f.v /\ reply'[v] = Refused
  <2>1. Asked(v)
    BY <1>6 DEF Asked
  <2>2. Copies(v) = {} /\ \A k \in net : k.v = v => k = f
    BY <1>3, <1>6, <2>1 DEF Outlasting, AskedOnce
  <2>3. Copies(v)' = {} /\ ~(Asked(v)')
    BY <1>2, <1>3, <2>2 DEF KeepsCopies, Asked
  <2>4. Answered(v)' /\ Uncopied(v)'
    BY <1>6, <2>3 DEF Answered, Uncopied
  <2>5. pc \notin {"collections", "reconcile"}
    BY <1>3 DEF Passing, Passed
  <2>6. QED
    BY <1>2, <1>4, <2>4, <2>5 DEF Passing, Passed
<1>7. QED
  BY <1>1, <1>2, <1>5, <1>6

(* With telling titles the copy a lost fetch left is the one video that fits it. *)
LEMMA LostFound ==
  ASSUME TellingTitles, CopyInv, NEW ents, NEW v \in Lost(ents), NEW g \in Copies(v), lib[g].tag = None,
         \A u \in Video : ents[u].vid # 0 => Own(u, ents[u].vid), ents[v].pending <= lib[g].at
  PROVE  FindLostFetch(lib, ents, v) = g
<1>1. v \in Video /\ ents[v].vid = 0 /\ lib \in Seq(VideoRecord)
  BY DEF Lost, Present, CopyInv, TruthInv, RunInv, IInv, TypeOK
<1>2. g \in Listed(lib) /\ g \in DOMAIN lib /\ lib[g].src = v /\ g # 0
  BY <1>1, LenProperties DEF Copies, Listed
<1>3. \A k \in DOMAIN lib : TrueRecord(lib[k]) /\ lib[k].src \in Video \cup {None}
  <2>1. \A k \in DOMAIN lib : lib[k] \in VideoRecord
    BY <1>1, ElementOfSeq, LenProperties
  <2>2. QED
    BY <2>1 DEF CopyInv, TruthInv, VideoRecord
<1>4. TitleOf[v] \notin AmbiguousTitles(ents)
  BY DEF AmbiguousTitles, TellingTitles, Lost, Present
<1>5. g \notin Claimed(ents)
  <2>1. ASSUME NEW u \in Present(ents), g = ents[u].vid
        PROVE  FALSE
    <3>1. u \in Video /\ lib[g].src = u
      BY <1>2, <2>1 DEF Present, Own
    <3>2. QED
      BY <1>1, <1>2, <2>1, <3>1
  <2>2. QED
    BY <2>1 DEF Claimed
<1>6. v # None
  BY <1>1, JournalAssumption DEF JournalAssumption
<1>7. g \in LostFetchMatches(lib, ents, v)
  BY <1>2, <1>3, <1>4, <1>5, <1>6 DEF LostFetchMatches, Untagged, TrueRecord
<1>8. ASSUME NEW k \in LostFetchMatches(lib, ents, v)
      PROVE  k = g
  <2>1. k \in Listed(lib) /\ k \in DOMAIN lib /\ lib[k].title = TitleOf[v]
    BY <1>4, <1>8 DEF LostFetchMatches, Untagged, Listed
  <2>2. lib[k].src = v
    BY <1>1, <1>3, <2>1 DEF TrueRecord, TellingTitles
  <2>3. k \in Copies(v)
    BY <2>1, <2>2 DEF Copies
  <2>4. QED
    BY <1>1, <2>3 DEF CopyInv, Outlasting, OneCopy
<1>9. LostFetchMatches(lib, ents, v) = {g}
  BY <1>7, <1>8
<1>10. QED
  BY <1>9 DEF FindLostFetch

(* The recovery pass finds every copy. *)
LEMMA LoadPasses ==
  ASSUME TellingTitles, ~LateLanding, CopyInv, LoadIndex, NEW v \in Video
  PROVE  Passed(v)'
<1>1. /\ snap' = lib /\ index' \in SourceIndexes(lib) /\ net = {} /\ UNCHANGED <<lib, net, journal>>
  BY DEF CopyInv, Unsummarised, LoadIndex, durable
<1>2. /\ TypeOK /\ lib \in Seq(VideoRecord) /\ journal.ents \in Entries /\ opt.clean \in BOOLEAN
      /\ journal.ents[v] \in Entry
  BY DEF CopyInv, TruthInv, RunInv, IInv, TypeOK, OptionRecord, Entries
<1>3. /\ \A u \in Video : journal.ents[u].vid # 0 => Own(u, journal.ents[u].vid)
      /\ Shapely(journal.ents[v]) /\ OneCopy(v) /\ Recorded(v)
  BY DEF CopyInv, TruthInv, OwnEntries, RunInv, EntriesShapely, Outlasting
<1>4. v # None /\ \A u \in Video : u # None
  BY JournalAssumption DEF JournalAssumption
<1>5. \A k \in Tagged(lib, v) : k \in Copies(v)
  <2>1. \A k \in DOMAIN lib : TrueRecord(lib[k])
    BY DEF CopyInv, TruthInv
  <2>2. QED
    BY <1>4, <2>1 DEF Tagged, Copies, Listed, TrueRecord
<1>6. ASSUME NEW g \in Copies(v)
      PROVE  IF lib[g].tag = None THEN mem'[v].vid = g /\ index'[v] = 0 ELSE index'[v] = g
  <2>1. g \in Listed(lib) /\ lib[g].src = v /\ g \in DOMAIN lib /\ g # 0
    BY <1>2, <1>6, LenProperties DEF Copies, Listed
  <2>2. index'[v] # 0 => index'[v] = g /\ lib[g].tag = v
    <3>1. index'[v] # 0 => index'[v] \in Tagged(lib, v)
      BY <1>1, IndexLeads
    <3>2. QED
      BY <1>3, <1>5, <1>6, <3>1 DEF OneCopy, Tagged
  <2>3. CASE lib[g].tag # None
    <3>1. lib[g].tag = v
      BY <2>1, <2>3 DEF CopyInv, TruthInv, TrueRecord
    <3>2. g \in Tagged(lib, v)
      BY <2>1, <3>1 DEF Tagged
    <3>3. index'[v] # 0
      BY <1>1, <3>2, IndexLeads
    <3>4. QED
      BY <2>2, <2>3, <3>3
  <2>4. CASE lib[g].tag = None
    <3>1. index'[v] = 0
      BY <1>4, <2>2, <2>4
    <3>2. Records(journal.ents[v], g)
      BY <1>3, <1>6, <2>4 DEF Recorded
    <3>3. journal.ents[v].status # "absent"
      BY <1>3, <2>1, <3>2 DEF Records, Shapely
    <3>4. CASE Resumed
      <4> DEFINE F == IF opt.folder = None THEN Video ELSE scope'
                 R == RequeueFailed(journal.ents, F, opt.clean)
      <4>1. mem' = RecoverLostFetches(lib, R)
        BY <1>1, <3>4 DEF LoadIndex
      <4>2. R \in Entries
        BY <1>2, RequeueFailedType
      <4>3. /\ \A u \in Video : R[u].vid = journal.ents[u].vid /\ R[u].pending = journal.ents[u].pending
            /\ R[v].status # "absent"
        BY <1>2, <3>3, RequeuedEntry
      <4> HIDE DEF R
      <4>4. IF v \in Lost(R) THEN mem'[v].vid = FindLostFetch(lib, R, v) ELSE mem'[v] = R[v]
        BY <4>1, <4>2, RecoveredEntry
      <4>5. CASE v \in Lost(R)
        <5>1. R[v].pending <= lib[g].at
          BY <2>1, <3>2, <4>3, <4>5 DEF Records, Lost
        <5>2. FindLostFetch(lib, R, v) = g
          BY <1>3, <1>6, <2>4, <4>3, <4>5, <5>1, LostFound
        <5>3. QED
          BY <2>4, <3>1, <4>4, <4>5, <5>2
      <4>6. CASE v \notin Lost(R)
        <5>1. R[v].vid = g
          BY <3>2, <4>3, <4>6 DEF Records, Lost, Present
        <5>2. QED
          BY <2>4, <3>1, <4>4, <4>6, <5>1
      <4>7. QED
        BY <4>5, <4>6
    <3>5. CASE ~Resumed
      <4> DEFINE x == IF journal.ents[v].vid # 0 THEN journal.ents[v].vid
                      ELSE FindLostFetch(lib, journal.ents, v)
      <4>1. mem' = AdoptOrphans(lib, index', journal.ents)
        BY <1>1, <3>5 DEF LoadIndex
      <4>2. x = g
        <5>1. CASE journal.ents[v].vid = g
          BY <2>1, <5>1
        <5>2. CASE journal.ents[v].vid # g
          <6>1. v \in Lost(journal.ents) /\ journal.ents[v].pending <= lib[g].at /\ journal.ents[v].vid = 0
            BY <3>2, <3>3, <5>2 DEF Records, Lost, Present
          <6>2. FindLostFetch(lib, journal.ents, v) = g
            BY <1>3, <1>6, <2>4, <6>1, LostFound
          <6>3. QED
            BY <6>1, <6>2
        <5>3. QED
          BY <5>1, <5>2
      <4>3. ~IsTagged(index', g)
        <5>1. ASSUME NEW u \in Video, index'[u] = g
              PROVE  FALSE
          <6>1. g \in Tagged(lib, u)
            BY <1>1, <2>1, <5>1, IndexLeads
          <6>2. QED
            BY <1>4, <2>4, <6>1 DEF Tagged
        <5>2. QED
          BY <5>1 DEF IsTagged
      <4> HIDE DEF x
      <4>4. v \in Present(journal.ents) /\ x \in Listed(lib) /\ ~IsTagged(index', x) /\ index'[v] = 0
        BY <2>1, <3>1, <3>3, <4>2, <4>3 DEF Present
      <4>5. mem'[v].vid = x
        BY <1>2, <4>1, <4>4, AdoptedEntry DEF x
      <4>6. QED
        BY <2>4, <3>1, <4>2, <4>5
    <3>6. QED
      BY <3>4, <3>5
  <2>5. QED
    BY <2>3, <2>4
<1>7. Copies(v)' = Copies(v)
  BY <1>1 DEF Copies, Listed
<1>8. QED
  BY <1>1, <1>6, <1>7 DEF Passed

LEMMA PassesCopies ==
  ASSUME TellingTitles, ~LateLanding, CopyInv, \A x \in Video : KeepsCopies(x), NEW v \in Video,
         StartRun \/ LoadIndex \/ Prepare \/ BeginQueue \/ BeginWait
  PROVE  Outlasting(v)' /\ Passing(v)'
<1>1. RunInv /\ IInv /\ TypeOK /\ epoch \in Nat
  BY DEF CopyInv, TruthInv, RunInv, IInv, TypeOK
<1>2. Outlasting(v) /\ Passing(v) /\ KeepsCopies(v)
  BY DEF CopyInv
<1>3. pc \in EarlyPhase \cup {"idle"} => w[v] = "idle" /\ reply[v] = 0
  BY <1>1 DEF IInv, NothingEarly
<1>4. 0 # Refused
  BY ImportAssumption DEF Refused, ImportAssumption
<1>5. CASE StartRun
  <2>1. UNCHANGED <<journal, net, epoch>> /\ pc' = "loading" /\ w'[v] = "idle" /\ reply'[v] = 0
    BY <1>3, <1>5 DEF StartRun
  <2>2. QED
    BY <1>1, <1>2, <2>1, OutlastsKept, PassingIdle
<1>6. CASE LoadIndex
  <2>1. UNCHANGED <<journal, net, epoch>> /\ pc' = "collections" /\ w'[v] = "idle" /\ reply'[v] = 0
    BY <1>3, <1>6 DEF LoadIndex, durable, EarlyPhase
  <2>2. Outlasting(v)'
    BY <1>1, <1>2, <2>1, OutlastsKept
  <2>3. Uncopied(v)' /\ Answered(v)'
    BY <1>4, <2>1 DEF Uncopied, Answered, Queueable, ToFetch
  <2>4. QED
    BY <1>6, <2>2, <2>3, LoadPasses DEF Passing
<1>7. CASE Prepare
  <2>1. /\ pc = "collections" /\ pc' = "reconcile" /\ UNCHANGED <<net, w, reply, index>>
        /\ mem' = PrepareEntries(mem, scope) /\ journal'.ents = mem' /\ todo' = Present(mem')
    BY <1>7 DEF Prepare, Flush
  <2>2. mem'[v].vid = mem[v].vid
    <3>1. mem'[v] = mem[v] \/ (mem'[v] = NewEntry /\ mem[v].status = "absent")
      BY <2>1 DEF PrepareEntries
    <3>2. QED
      BY <1>1, <3>1, NewEntries DEF RunInv, EntriesShapely, Shapely
  <2>3. Outlasting(v)'
    BY <1>2, <2>1, <2>2, OutlastsSaved DEF Passing
  <2>4. Passed(v)'
    BY <1>2, <2>1, <2>2, PassedKept DEF Passing
  <2>5. v \notin todo' => ~NeedsQueueing(index', mem'[v])
    BY <2>1 DEF Present, NeedsQueueing
  <2>6. Uncopied(v)' /\ Answered(v)'
    BY <1>3, <1>4, <2>1, <2>5 DEF Uncopied, Answered, Queueable, ToFetch, EarlyPhase
  <2>7. QED
    BY <2>3, <2>4, <2>6 DEF Passing
<1>8. CASE BeginQueue
  <2>1. /\ pc = "reconcile" /\ todo = {} /\ pc' = "queue" /\ UNCHANGED <<net, w, reply, mem>>
        /\ journal'.ents = mem
        /\ todo' = {x \in Present(mem) : Scoped(x) /\ NeedsQueueing(index, mem[x])}
    BY <1>8 DEF BeginQueue, Flush
  <2>2. Outlasting(v)'
    BY <1>2, <2>1, OutlastsSaved DEF Passing
  <2>3. v \in todo' => Queueable(v)
    BY <2>1 DEF Queueable
  <2>4. Uncopied(v)'
    BY <1>2, <1>3, <2>1, <2>3, UncopiedKept DEF Passing, Uncopied, Queueable, ToFetch, EarlyPhase
  <2>5. Passed(v)' /\ Answered(v)'
    BY <1>3, <1>4, <2>1 DEF Passed, Answered, EarlyPhase
  <2>6. QED
    BY <2>2, <2>4, <2>5 DEF Passing
<1>9. CASE BeginWait
  <2>1. pc' = "wait" /\ UNCHANGED <<journal, net, epoch, mem, w, reply>>
    BY <1>9 DEF BeginWait, durable
  <2>2. Outlasting(v)'
    BY <1>1, <1>2, <2>1, OutlastsKept
  <2>3. Uncopied(v)'
    BY <1>2, <2>1, UncopiedKept DEF Passing, Uncopied, Queueable, ToFetch
  <2>4. Passed(v)' /\ Answered(v)'
    BY <1>2, <2>1, AnsweredKept DEF Passed, Passing
  <2>5. QED
    BY <2>2, <2>3, <2>4 DEF Passing
<1>10. QED
  BY <1>5, <1>6, <1>7, <1>8, <1>9

(* However a run ends, what it saves still leads to every copy. *)
LEMMA EndCopies ==
  ASSUME CopyInv, \A x \in Video : KeepsCopies(x), NEW v \in Video,
         \/ LoadFails \/ CollectionsFail \/ Finish \/ Crash
         \/ \E x \in Video : DeleteStalledFails(x)
  PROVE  Outlasting(v)' /\ Passing(v)'
<1>1. TypeOK /\ epoch \in Nat /\ mem \in Entries /\ JournalCurrent
  BY DEF CopyInv, TruthInv, RunInv, IInv, TypeOK
<1>2. Outlasting(v) /\ Passing(v) /\ KeepsCopies(v)
  BY DEF CopyInv
<1>3. Over /\ UNCHANGED <<net, epoch>>
  BY DEF LoadFails, CollectionsFail, RunFails, Finish, Crash, DeleteStalledFails, durable
<1>4. Passing(v)'
  BY <1>3, PassingIdle DEF Over, NoIndex
<1>5. CASE LoadFails \/ Crash
  <2>1. journal' = journal
    BY <1>5 DEF LoadFails, Crash, durable
  <2>2. QED
    BY <1>1, <1>2, <1>3, <1>4, <2>1, OutlastsKept
<1>6. CASE CollectionsFail \/ \E x \in Video : DeleteStalledFails(x)
  <2>1. journal'.ents = mem /\ pc \in {"collections", "reconcile"}
    BY <1>6 DEF CollectionsFail, RunFails, DeleteStalledFails, Flush
  <2>2. QED
    BY <1>2, <1>3, <1>4, <2>1, OutlastsSaved DEF Passing
<1>7. CASE Finish
  <2>1. \/ journal'.ents = mem
        \/ \E gone : journal'.ents = FailGone(mem, gone)
    BY <1>7 DEF Finish, Flush
  <2>2. journal'.ents[v].vid = mem[v].vid /\ journal'.ents[v].pending = mem[v].pending
    BY <1>1, <2>1, GoneEntry
  <2>3. journal.ents = mem
    BY <1>1, <1>7 DEF Finish, JournalCurrent
  <2>4. QED
    BY <1>1, <1>2, <1>3, <1>4, <2>2, <2>3, OutlastsKept
<1>8. QED
  BY <1>5, <1>6, <1>7

(* An entry that stays to be queued after it was reconciled has no copy but the one it records. *)
LEMMA ReconcileCopies ==
  ASSUME CopyInv, \A x \in Video : KeepsCopies(x), NEW u \in Video, ReconcileEntry(u) \/ DeleteStalled(u), NEW v \in Video
  PROVE  Outlasting(v)' /\ Passing(v)'
<1>1. RunInv /\ IInv /\ TypeOK
  BY DEF CopyInv, TruthInv, RunInv, IInv
<1>2. /\ pc = "reconcile" /\ pc' = "reconcile" /\ u \in todo /\ todo' = todo \ {u}
      /\ UNCHANGED <<journal, net, epoch, snap, index, w, reply>>
  BY DEF ReconcileEntry, DeleteStalled, durable
<1>3. /\ mem \in [Video -> Entry] /\ mem[u] \in Entry /\ index[u] \in Nat /\ opt.clean \in BOOLEAN
      /\ lib \in Seq(VideoRecord) /\ epoch \in Nat
  BY <1>1 DEF TypeOK, Entries, OptionRecord
<1>4. Outlasting(v) /\ Passing(v) /\ KeepsCopies(v)
  BY DEF CopyInv
<1>5. Outlasting(v)'
  BY <1>2, <1>3, <1>4, OutlastsKept
<1>6. CASE v # u
  <2>1. mem'[v] = mem[v]
    BY <1>3, <1>6 DEF ReconcileEntry, DeleteStalled
  <2>2. Passed(v)' /\ Answered(v)'
    BY <1>2, <1>4, <2>1, PassedKept, AnsweredKept DEF Passing
  <2>3. Uncopied(v)'
    BY <1>2, <1>4, <1>6, <2>1, UncopiedKept DEF Passing, Uncopied, Queueable, ToFetch
  <2>4. QED
    BY <1>5, <2>2, <2>3 DEF Passing
<1>7. CASE v = u
  <2>1. /\ net = {} /\ net' = {}
        /\ \A g \in Copies(v) : IF lib[g].tag = None THEN mem[v].vid = g /\ index[v] = 0 ELSE index[v] = g
    BY <1>2, <1>4 DEF Passing, Passed
  <2>2. w'[v] = "idle" /\ reply'[v] = 0
    BY <1>1, <1>2 DEF IInv, NothingEarly, EarlyPhase
  <2>3. Answered(v)'
    BY ImportAssumption, <2>2 DEF Answered, Refused, ImportAssumption
  <2>4. CASE ReconcileEntry(u)
    <3> DEFINE e == mem[v]
               r == mem'[v]
               g == index[v]
    <3>1. r = Reconciled(snap, e, g, opt.clean) /\ e \in Entry /\ g \in Nat
      BY <1>3, <1>7, <2>4 DEF ReconcileEntry
    <3> HIDE DEF e, r, g
    <3>2. Outcome(snap, e, g, opt.clean, r)
      BY <1>3, <3>1, ReconciledEntry
    <3>3. g = 0 => r.vid = e.vid
      BY <3>2 DEF Outcome
    <3>4. Passed(v)'
      BY <1>2, <1>4, <2>1, <3>3 DEF Passed, KeepsCopies, e, r, g
    <3>5. ASSUME NeedsQueueing(index, r), NEW k \in Copies(v)'
          PROVE  k = r.vid
      <4>1. k \in Copies(v) /\ k \in DOMAIN lib /\ k # 0
        BY <1>3, <1>4, <3>5, LenProperties DEF KeepsCopies, Copies, Listed
      <4>2. CASE lib[k].tag = None
        BY <2>1, <3>3, <4>1, <4>2 DEF e, g
      <4>3. CASE lib[k].tag # None
        <5>1. k = g /\ g # 0
          BY <2>1, <4>1, <4>3 DEF g
        <5>2. g \in DOMAIN snap /\ snap[g].health # "gone"
          BY <1>1, <5>1, IndexLeads DEF g, RunInv, ListingsTaken, Taken, Tagged, Listed
        <5>3. snap[g] \in VideoRecord
          BY <1>1, <5>2, ElementOfSeq, LenProperties DEF TypeOK
        <5>4. snap[g].health \in Health \ {"gone"} /\ ~IsDead(snap[g].health)
          BY <5>2, <5>3 DEF VideoRecord, CopyInv, NoneDead
        <5>5. r.vid = g
          BY <3>2, <3>5, <5>1, <5>4 DEF Outcome, NeedsQueueing, IsDead, InProgress, Health
        <5>6. QED
          BY <5>1, <5>5
      <4>4. QED
        BY <4>2, <4>3
    <3>6. Uncopied(v)'
      BY <1>2, <2>1, <2>2, <3>5 DEF Uncopied, Queueable, ToFetch, Asked, r
    <3>7. QED
      BY <1>5, <2>3, <3>4, <3>6 DEF Passing
  <2>5. CASE DeleteStalled(u)
    <3> DEFINE g == index[v]
    <3>1. g # 0 /\ lib' = [lib EXCEPT ![g].health = "gone"]
      BY <1>7, <2>5 DEF DeleteStalled, Delete, StalledToRetry
    <3> HIDE DEF g
    <3>2. \A k \in DOMAIN lib : lib'[k].health = IF k = g THEN "gone" ELSE lib[k].health
      <4>1. "gone" \in Health
        BY DEF Health
      <4>2. QED
        BY <1>3, <3>1, <4>1, HealthSet
    <3>3. ASSUME NEW k \in Copies(v)'
          PROVE  FALSE
      <4>1. k \in Copies(v) /\ k \in DOMAIN lib /\ lib'[k].health # "gone"
        BY <1>4, <3>3 DEF KeepsCopies, Copies, Listed
      <4>2. k = g
        BY <2>1, <3>1, <4>1 DEF g
      <4>3. QED
        BY <3>2, <4>1, <4>2
    <3>4. Passed(v)' /\ Uncopied(v)'
      BY <2>1, <3>3 DEF Passed, Uncopied, Asked
    <3>5. QED
      BY <1>5, <2>3, <3>4 DEF Passing
  <2>6. QED
    BY <2>4, <2>5
<1>8. QED
  BY <1>6, <1>7

LEMMA WorkerCopies ==
  ASSUME CopyInv, TypeOK', \A x \in Video : KeepsCopies(x), NEW u \in Video,
         WorkerStep(u) \/ Timeout(u) \/ LateTag(u), NEW v \in Video
  PROVE  Outlasting(v)' /\ Passing(v)'
<1>1. RunInv /\ IInv /\ TypeOK /\ epoch \in Nat \ {0} /\ lib \in Seq(VideoRecord)
  BY DEF CopyInv, TruthInv, RunInv, IInv, TypeOK
<1>2. /\ OthersStay(u)
      /\ \/ TakesUp(u) \/ Cleans(u) \/ Sends(u) \/ StopsEarly(u) \/ GivesUp(u) \/ HearsGUID(u)
         \/ HearsRefusal(u) \/ Tags(u) \/ Awaits(u) \/ StopsWaiting(u)
  BY <1>1, WorkerMoves
<1>3. /\ pc \in {"queue", "wait"} /\ pc' = pc /\ todo' \in {todo, todo \ {u}} /\ journal'.ents = mem'
      /\ UNCHANGED <<index, epoch>>
      /\ \A x \in Video \ {u} : mem'[x] = mem[x] /\ w'[x] = w[x] /\ reply'[x] = reply[x]
  BY <1>2 DEF OthersStay
<1>4. journal.ents = mem
  BY <1>1, <1>3 DEF IInv, JournalCurrent
<1>5. Outlasting(v) /\ Passing(v) /\ KeepsCopies(v)
  BY DEF CopyInv
<1>6. Passed(v)'
  BY <1>3 DEF Passed
<1>7. net' = net \/ net' = net \cup {[v |-> u, run |-> runs]}
  BY <1>2 DEF TakesUp, Cleans, Sends, StopsEarly, GivesUp, HearsGUID, HearsRefusal, Tags, Awaits, StopsWaiting
<1>8. CASE v # u
  <2>1. \A f \in net' : f.v = v => f \in net
    BY <1>7, <1>8
  <2>2. Outlasting(v)'
    BY <1>1, <1>3, <1>4, <1>5, <1>8, <2>1, OutlastsKept
  <2>3. Answered(v)'
    BY <1>3, <1>5, <1>8, <2>1, AnsweredKept DEF Passing
  <2>4. (Queueable(v) \/ ToFetch(v))' => Queueable(v) \/ ToFetch(v)
    BY <1>3, <1>8 DEF Queueable, ToFetch
  <2>5. Uncopied(v)'
    BY <1>3, <1>5, <1>8, <2>1, <2>4, UncopiedKept DEF Passing, Uncopied
  <2>6. QED
    BY <1>6, <2>2, <2>3, <2>5 DEF Passing
<1>9. CASE v = u
  <2>1. ~(Queueable(v)') /\ (w[v] # "idle" => ~(pc' = "queue" /\ v \in todo'))
    BY <1>1, <1>3, BusyInPool DEF Queueable
  <2>2. CASE TakesUp(v) \/ Cleans(v) \/ StopsEarly(v) \/ GivesUp(v) \/ Tags(v) \/ Awaits(v) \/ StopsWaiting(v)
    <3>1. /\ net' = net /\ mem'[v].vid = mem[v].vid /\ mem'[v].pending = mem[v].pending
          /\ reply'[v] \in {0, reply[v]}
      BY <2>2 DEF TakesUp, Cleans, StopsEarly, GivesUp, Tags, Awaits, StopsWaiting, Carries
    <3>2. Outlasting(v)'
      BY <1>1, <1>3, <1>4, <1>5, <3>1, OutlastsKept
    <3>3. Answered(v)'
      BY <1>5, <3>1, AnsweredKept DEF Passing
    <3>4. ToFetch(v)' => ToFetch(v)
      BY <1>3, <2>1, <2>2 DEF TakesUp, Cleans, StopsEarly, GivesUp, Tags, Awaits, StopsWaiting, Carries, ToFetch
    <3>5. Uncopied(v)'
      BY <1>5, <2>1, <3>1, <3>4, UncopiedKept DEF Passing, Uncopied
    <3>6. QED
      BY <1>6, <3>2, <3>3, <3>5 DEF Passing
  <2>3. CASE Sends(v)
    <3> DEFINE r == [v |-> v, run |-> runs]
    <3>1. /\ w[v] = "lookup" /\ w'[v] = "sent" /\ reply' = reply /\ net' = net \cup {r} /\ r.v = v
          /\ mem'[v].vid = mem[v].vid /\ mem'[v].pending = epoch
      BY <2>3 DEF Sends
    <3> HIDE DEF r
    <3>2. Copies(v) \subseteq {mem[v].vid} /\ ~Asked(v)
      BY <1>5, <3>1 DEF Passing, Uncopied, ToFetch
    <3>3. mem[v].vid = 0 /\ reply[v] = 0
      BY <1>1, <3>1 DEF IInv, ToFetchIsFresh, RunInv, WorkersShapely, WorkerShapely, EntriesShapely, Shapely
    <3>4. 0 \notin Copies(v)
      <4>1. 0 \notin DOMAIN lib
        BY <1>1, LenProperties
      <4>2. QED
        BY <4>1 DEF Copies, Listed
    <3>5. Copies(v)' = {}
      BY <1>5, <3>2, <3>3, <3>4 DEF KeepsCopies
    <3>6. \A f \in net' : f.v = v => f = r
      BY <3>1, <3>2 DEF Asked
    <3>7. journal'.ents[v].vid = 0 /\ journal'.ents[v].pending \in 1 .. epoch'
      BY <1>1, <1>3, <3>1, <3>3
    <3>8. Outlasting(v)'
      BY <3>5, <3>6, <3>7 DEF Outlasting, OneCopy, AskedOnce, Recorded
    <3>9. Answered(v)' /\ Uncopied(v)'
      BY ImportAssumption, <2>1, <3>1, <3>3 DEF Answered, Uncopied, ToFetch, Refused, ImportAssumption
    <3>10. QED
      BY <1>6, <3>8, <3>9 DEF Passing
  <2>4. CASE HearsGUID(v) \/ HearsRefusal(v)
    <3>1. /\ net' = net /\ reply'[v] = 0 /\ w[v] # "idle" /\ w'[v] \in {"tag", "idle"}
          /\ \/ reply[v] \notin {0, Refused} /\ mem'[v].vid = reply[v]
             \/ reply[v] = Refused
      BY <2>4 DEF HearsGUID, HearsRefusal
    <3>2. /\ ~Asked(v) /\ ~(Asked(v)')
          /\ Copies(v) = {} \/ Copies(v) \subseteq {mem'[v].vid}
      BY <1>5, <3>1 DEF Passing, Answered, Asked
    <3>3. Outlasting(v)'
      BY <1>3, <1>5, <3>1, <3>2 DEF Outlasting, OneCopy, AskedOnce, Recorded, Records, KeepsCopies
    <3>4. Answered(v)' /\ Uncopied(v)'
      BY ImportAssumption, <2>1, <3>1 DEF Answered, Uncopied, ToFetch, Refused, ImportAssumption
    <3>5. QED
      BY <1>6, <3>3, <3>4 DEF Passing
  <2>5. QED
    BY <1>2, <1>9, <2>2, <2>3, <2>4
<1>10. QED
  BY <1>8, <1>9

LEMMA WorldCopies ==
  ASSUME CopyInv, TypeOK', \A x \in Video : KeepsCopies(x), World, ~\E f \in net : Land(f), NEW v \in Video
  PROVE  Outlasting(v)' /\ Passing(v)'
<1>1. TypeOK /\ epoch \in Nat /\ journal.ents \in Entries
  BY DEF CopyInv, TruthInv, RunInv, IInv, TypeOK
<1>2. Outlasting(v) /\ Passing(v) /\ KeepsCopies(v)
  BY DEF CopyInv
<1>3. ASSUME UNCHANGED <<net, pc, todo, mem, w, index, reply>>, epoch' \in {epoch, epoch + 1},
             journal'.ents[v].vid = journal.ents[v].vid, journal'.ents[v].pending = journal.ents[v].pending
      PROVE  Outlasting(v)' /\ Passing(v)'
  <2>1. epoch' \in Nat /\ epoch <= epoch'
    BY <1>1, <1>3
  <2>2. QED
    BY <1>1, <1>2, <1>3, <2>1, OutlastsKept, PassingKept
<1>4. CASE Abort \/ GetSummary \/ ForeignUpload \/ Tick \/ \E g \in DOMAIN lib : Progress(g)
  BY <1>3, <1>4 DEF Abort, durable, GetSummary, ForeignUpload, Tick, Progress, volatile
<1>5. CASE RefreshStatus
  <2>1. /\ UNCHANGED <<net, pc, todo, mem, w, index, reply, epoch>> /\ journal'.ents = Refresh(lib, journal.ents)
    BY <1>5 DEF RefreshStatus, Flush, volatile
  <2>2. journal'.ents[v].vid = journal.ents[v].vid /\ journal'.ents[v].pending = journal.ents[v].pending
    BY <1>1, <2>1, RefreshedEntry
  <2>3. QED
    BY <1>3, <2>1, <2>2
<1>6. CASE CollectionReady
  <2>1. /\ UNCHANGED <<net, pc, todo, mem, w, index, reply>> /\ journal'.ents = mem /\ pc = "collections"
    BY <1>6 DEF CollectionReady, Flush, volatile
  <2>2. QED
    BY <1>2, <2>1, OutlastsSaved, PassingKept DEF Passing
<1>7. CASE Crash
  BY <1>7, EndCopies
<1>8. CASE \E u \in Video : Timeout(u) \/ LateTag(u)
  BY <1>8, WorkerCopies
<1>9. CASE \E f \in net : NotLanded(f)
  BY <1>9, NotLandedCopies
<1>10. QED
  BY <1>4, <1>5, <1>6, <1>7, <1>8, <1>9 DEF World

LEMMA NextCopies ==
  ASSUME TellingTitles, NothingDies, ~LateLanding, ~Summaries, CopyInv, [Next]_vars
  PROVE  CopyInv'
<1>1. TruthInv' /\ Unsummarised' /\ NoneDead' /\ TypeOK'
  BY NextTruth, StaysUnsummarised, NoneDeadStays DEF CopyInv, TruthInv, RunInv, IInv
<1>2. ASSUME NEW v \in Video
      PROVE  Outlasting(v)' /\ Passing(v)'
  <2>1. CASE \E f \in net : Land(f)
    BY <2>1, LandCopies
  <2>2. CASE ~\E f \in net : Land(f)
    <3>1. \A x \in Video : KeepsCopies(x)
      BY <2>2, CopySteps DEF CopyInv
    <3>2. CASE StartRun
      BY <3>1, <3>2, PassesCopies
    <3>3. CASE RunStep
      BY <1>1, <3>1, <3>3, PassesCopies, EndCopies, ReconcileCopies, WorkerCopies DEF RunStep
    <3>4. CASE World
      BY <1>1, <2>2, <3>1, <3>4, WorldCopies
    <3>5. CASE UNCHANGED vars
      <4>1. UNCHANGED <<net, epoch, journal, pc, todo, mem, w, index, reply>>
        BY <3>5 DEF vars, durable, volatile
      <4>2. epoch \in Nat
        BY DEF CopyInv, TruthInv, RunInv, IInv, TypeOK
      <4>3. QED
        BY <3>1, <4>1, <4>2, OutlastsKept, PassingKept DEF CopyInv
    <3>6. QED
      BY <3>2, <3>3, <3>4, <3>5 DEF Next
  <2>3. QED
    BY <2>1, <2>2
<1>3. QED
  BY <1>1, <1>2 DEF CopyInv

LEMMA AtMostOne ==
  ASSUME NEW S, \A x, y \in S : x = y
  PROVE  Cardinality(S) <= 1
<1>1. CASE S = {}
  BY <1>1, FS_EmptySet
<1>2. CASE S # {}
  <2>1. PICK x : x \in S /\ S = {x}
    BY <1>2
  <2>2. Cardinality(S) = 1
    BY <2>1, FS_Singleton
  <2>3. QED
    BY <2>2
<1>3. QED
  BY <1>1, <1>2

(* Across runs, crashes, lost answers, timeouts and pauses no source video has two working copies: NoDuplicate is an invariant, where titles tell videos apart, no request outlasts the listing of a later run, a run lists the library itself and Bunny fails nothing. *)
THEOREM OnceImported ==
  ASSUME TellingTitles, NothingDies, ~LateLanding, ~Summaries
  PROVE  Spec => []NoDuplicate
<1>1. CopyInv => NoDuplicate
  <2> SUFFICES ASSUME CopyInv, NEW v \in Video PROVE Cardinality(LiveCopies(v)) <= 1
    BY DEF NoDuplicate
  <2>1. \A g, h \in LiveCopies(v) : g = h
    BY DEF CopyInv, Outlasting, OneCopy, LiveCopies
  <2>2. QED
    BY <2>1, AtMostOne
<1>2. CopyInv /\ [Next]_vars => CopyInv'
  BY NextCopies
<1>3. QED
  BY <1>1, <1>2, InitCopies, PTL DEF Spec

(* Under the same conditions an untagged copy is never lost from the journal on disk: Recoverable is an invariant. *)
THEOREM CopiesRecoverable ==
  ASSUME TellingTitles, NothingDies, ~LateLanding, ~Summaries
  PROVE  Spec => []Recoverable
<1>1. CopyInv => Recoverable
  BY DEF CopyInv, Outlasting, Recorded, Records, Recoverable
<1>2. CopyInv /\ [Next]_vars => CopyInv'
  BY NextCopies
<1>3. QED
  BY <1>1, <1>2, InitCopies, PTL DEF Spec
=============================================================================
