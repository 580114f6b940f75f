-------------------------- MODULE SiteDeploysProofs --------------------------
(***************************************************************************)
(* Proofs about SiteDeploys, for every number of processes, deploys and    *)
(* contents, whatever commands overlap and wherever they fail: the state   *)
(* is well formed, and no record is lost from the state file by a writer   *)
(* that did not mean to remove it.  Where what overlaps only adds to the   *)
(* site: records vouch for their files, and the current deploy and the     *)
(* rollback target stay recorded.  Where commands run one at a time:       *)
(* production serves whole deploys, and a promotion that ends well settles *)
(* the rule, the state and the not-found page.                             *)
(***************************************************************************)
EXTENDS SiteDeploys, TLAPS

USE SiteAssumption

-----------------------------------------------------------------------------
(* The invariant. *)

(* What the deploys hold is in j's copy of the state, or was removed by j. *)
Kept(deploys, j) == Ids(deploys) \subseteq Ids(j.st.deploys) \cup j.removed

(* A command that is on its way to the files of its deploy. *)
Targeted(j) ==
  \/ j.pc \in {"clear", "upload"}
  \/ j.pc = "reread" /\ j.cmd.cmd = "deploy"
  \/ j.pc \in {"check", "put"} /\ j.then = "clear"

JobOK(j) ==
  /\ j \in Job
  /\ OncePerId(j.st.deploys)
  /\ Kept(j.etag.deploys, j)
  /\ j.pc # "idle" => j.cmd \in Request
  /\ Targeted(j) => j.id \in Id /\ j.hash \in Hash
  /\ j.pc = "sweep" => j.todo \subseteq Id
  /\ j.pc \notin {"sweep", "check", "put"} => j.removed = {}

JobsOK == \A p \in Proc : JobOK(job[p])

(* Between a writer's check and its upload the file is what the writer merged with. *)
OneWriter ==
  AtomicWrites => \A p \in Proc : job[p].pc = "put" =>
                     /\ Kept(state.deploys, job[p])
                     /\ \A q \in Proc : job[q].pc = "put" => q = p

IInv == TypeOK /\ JobsOK /\ OneWriter

-----------------------------------------------------------------------------
(* The operators. *)

LEMMA IdsTyped ==
  ASSUME NEW deploys \in SUBSET DeployRecord
  PROVE  Ids(deploys) \subseteq Id
BY DEF Ids, DeployRecord

(* Whoever keeps records keeps their IDs. *)
LEMMA WithoutIds ==
  ASSUME NEW deploys \in SUBSET DeployRecord, NEW ids
  PROVE  /\ Without(deploys, ids) \in SUBSET DeployRecord
         /\ Ids(deploys) \subseteq Ids(Without(deploys, ids)) \cup ids
         /\ OncePerId(deploys) => OncePerId(Without(deploys, ids))
BY DEF Without, Ids, OncePerId

LEMMA MarkTyped ==
  ASSUME NEW st \in RemoteState, NEW id \in Id \cup {None}
  PROVE  MarkCurrent(st, id) \in RemoteState /\ MarkCurrent(st, id).deploys = st.deploys
BY DEF MarkCurrent, RemoteState

(* A merge adds what the file holds, but for what the writer removed. *)
LEMMA MergeKeeps ==
  ASSUME NEW st \in RemoteState, NEW remote \in RemoteState, NEW promotedTo \in Id \cup {None},
         NEW removed \in SUBSET Id, OncePerId(st.deploys), OncePerId(remote.deploys)
  PROVE  LET m == Merged(st, remote, promotedTo, removed)
         IN  /\ m \in RemoteState
             /\ OncePerId(m.deploys)
             /\ Ids(st.deploys) \subseteq Ids(m.deploys)
             /\ Ids(remote.deploys) \subseteq Ids(m.deploys) \cup removed
<1> DEFINE m == Merged(st, remote, promotedTo, removed)
           rest == Without(remote.deploys, Ids(st.deploys) \cup removed)
<1>1. m.deploys = st.deploys \cup rest
  BY DEF Merged
<1>2. st.deploys \in SUBSET DeployRecord /\ remote.deploys \in SUBSET DeployRecord
  BY DEF RemoteState
<1>3. rest \in SUBSET DeployRecord /\ OncePerId(rest)
  BY <1>2, WithoutIds
<1>4. m \in RemoteState
  BY <1>2, <1>3 DEF Merged, RemoteState
<1>5. OncePerId(m.deploys)
  BY <1>1, <1>3 DEF OncePerId, Without, Ids
<1>6. Ids(st.deploys) \subseteq Ids(m.deploys)
  BY <1>1 DEF Ids
<1>7. Ids(remote.deploys) \subseteq Ids(m.deploys) \cup removed
  BY <1>1, <1>6 DEF Ids, Without
<1>8. QED
  BY <1>4, <1>5, <1>6, <1>7

LEMMA IdleOK == JobOK(Idle)
<1>1. NoDeploys \in RemoteState
  BY DEF NoDeploys, RemoteState
<1>2. Idle \in Job
  BY <1>1 DEF Idle, Job, Label
<1>3. QED
  BY <1>2 DEF JobOK, Idle, NoDeploys, OncePerId, Kept, Ids, Targeted

-----------------------------------------------------------------------------
(* How a step keeps the invariant. *)

(* A command's step that does not touch the state file. *)
LEMMA StepKeeps ==
  ASSUME IInv, NEW p \in Proc, NEW j, JobOK(j), j.pc # "put",
         job' = [job EXCEPT ![p] = j], state' = state,
         files' \in [Id -> [Path -> Hash \cup {None}]],
         live' \in Id \cup {None}, notFound' \in Id \cup {None},
         clock' \in Nat, commands' \in 0 .. MaxCommands, deaths' \in 0 .. MaxDeaths
  PROVE  IInv'
<1>1. job \in [Proc -> Job] /\ j \in Job
  BY DEF IInv, TypeOK, JobOK
<1>2. job' \in [Proc -> Job] /\ \A q \in Proc : job'[q] = IF q = p THEN j ELSE job[q]
  BY <1>1
<1>3. TypeOK'
  BY <1>2 DEF IInv, TypeOK
<1>4. JobsOK'
  BY <1>2 DEF IInv, JobsOK
<1>5. OneWriter'
  BY <1>2 DEF IInv, OneWriter
<1>6. QED
  BY <1>3, <1>4, <1>5 DEF IInv

(* A command that starts has read the state. *)
LEMMA ReadOK ==
  ASSUME IInv, NEW id \in Id \cup {None}
  PROVE  /\ Read(id) \in Job
         /\ Read(id).st = state /\ Read(id).etag = state /\ Read(id).removed = {}
         /\ OncePerId(Read(id).st.deploys) /\ Kept(Read(id).etag.deploys, Read(id))
<1>1. Idle \in Job /\ state \in RemoteState /\ OncePerId(state.deploys)
  BY IdleOK DEF JobOK, IInv, TypeOK
<1>2. Read(id) \in Job
  BY <1>1 DEF Read, Job
<1>3. Read(id).st = state /\ Read(id).etag = state /\ Read(id).removed = {}
  BY DEF Read, Idle
<1>4. QED
  BY <1>1, <1>2, <1>3 DEF Kept

LEMMA DeployOfOK ==
  ASSUME IInv, NEW r \in Requests, r.cmd = "deploy"
  PROVE  /\ DeployOf(r) \in Job /\ DeployOf(r).id \in Id /\ DeployOf(r).hash \in Hash
         /\ DeployOf(r).st = state /\ DeployOf(r).etag = state /\ DeployOf(r).removed = {}
<1>1. r \in Request /\ r.id \in Id /\ r.hash \in Hash /\ r.spa \in BOOLEAN
  BY DEF Request
<1>2. /\ Read(r.id) \in Job
      /\ Read(r.id).st = state /\ Read(r.id).etag = state /\ Read(r.id).removed = {}
  BY <1>1, ReadOK
<1>3. Read(r.id).id = r.id
  BY DEF Read, Idle
<1>4. PathsOf[r.hash] \in SUBSET (Id \cup Path)
  BY <1>1
<1>5. QED
  BY <1>1, <1>2, <1>3, <1>4 DEF DeployOf, Job

(* Nothing of j's copy has been lost, and the command that starts with it is well formed. *)
LEMMA BeginKeeps ==
  ASSUME IInv, NEW p \in Proc, NEW r \in Requests, NEW j \in Job, Begin(p, r, j),
         OncePerId(j.st.deploys), Kept(j.etag.deploys, j), j.removed = {},
         j.pc \in Label \ {"put", "sweep"},
         j.pc \in {"clear", "upload", "reread"} => r.cmd # "deploy" \/ (j.id \in Id /\ j.hash \in Hash),
         j.pc \in {"clear", "upload"} => r.cmd = "deploy",
         j.pc = "check" => j.then # "clear"
  PROVE  IInv'
<1> DEFINE k == [j EXCEPT !.cmd = r]
<1>1. r \in Request
  OBVIOUS
<1>2. k \in Job
  BY <1>1 DEF Job
<1>3. /\ k.pc = j.pc /\ k.st = j.st /\ k.etag = j.etag /\ k.removed = j.removed /\ k.cmd = r
      /\ k.id = j.id /\ k.hash = j.hash /\ k.then = j.then
  BY DEF Job
<1>4. JobOK(k)
  <2>1. Targeted(k) => k.id \in Id /\ k.hash \in Hash
    BY <1>3 DEF Targeted
  <2>2. Kept(k.etag.deploys, k) /\ OncePerId(k.st.deploys)
    BY <1>3 DEF Kept
  <2>3. QED
    BY <1>1, <1>2, <1>3, <2>1, <2>2 DEF JobOK
<1>5. job' = [job EXCEPT ![p] = k] /\ commands' \in 0 .. MaxCommands
  BY DEF Begin, MayStart, IInv, TypeOK
<1>6. QED
  BY <1>3, <1>4, <1>5, StepKeeps DEF Begin, IInv, TypeOK

LEMMA DeployKeeps ==
  ASSUME IInv, NEW p \in Proc, NEW r \in Requests, DeployNew(p, r) \/ DeployReplacing(p, r)
  PROVE  IInv'
<1> DEFINE j(label) == [DeployOf(r) EXCEPT !.pc = label]
<1>1. r.cmd = "deploy"
  BY DEF DeployNew, DeployReplacing
<1>2. PICK label \in {"clear", "upload", "reread"} : Begin(p, r, j(label))
  BY DEF DeployNew, DeployReplacing
<1>3. /\ DeployOf(r) \in Job /\ DeployOf(r).id \in Id /\ DeployOf(r).hash \in Hash
      /\ DeployOf(r).st = state /\ DeployOf(r).etag = state /\ DeployOf(r).removed = {}
  BY <1>1, DeployOfOK
<1>4. /\ j(label) \in Job /\ j(label).pc = label /\ j(label).id \in Id /\ j(label).hash \in Hash
      /\ j(label).st = state /\ j(label).etag = state /\ j(label).removed = {}
  BY <1>3 DEF Job, Label
<1>5. OncePerId(j(label).st.deploys) /\ Kept(j(label).etag.deploys, j(label))
  BY <1>4 DEF Kept, IInv, TypeOK
<1>6. j(label).pc \in Label \ {"put", "sweep"}
  BY <1>4 DEF Label
<1> HIDE DEF j
<1>7. QED
  BY <1>1, <1>2, <1>4, <1>5, <1>6, BeginKeeps

LEMMA SavingOK ==
  ASSUME NEW j \in Job, NEW then \in {"idle", "clear", "promote"}, NEW promotedTo \in Id \cup {None},
         NEW removed \in SUBSET Id
  PROVE  LET k == Saving(j, then, promotedTo, removed)
         IN  /\ k \in Job /\ k.pc = "check" /\ k.then = then /\ k.removed = removed
             /\ k.promotedTo = promotedTo /\ k.st = j.st /\ k.etag = j.etag
             /\ k.cmd = j.cmd /\ k.id = j.id /\ k.hash = j.hash
BY DEF Saving, Job, Label

(* Another copy of the state, well formed, in place of j's. *)
LEMMA CopyOK ==
  ASSUME NEW j \in Job, NEW deploys \in SUBSET DeployRecord
  PROVE  LET k == [j EXCEPT !.st.deploys = deploys]
         IN  /\ k \in Job /\ k.st.deploys = deploys /\ k.etag = j.etag /\ k.removed = j.removed
             /\ k.cmd = j.cmd /\ k.id = j.id /\ k.hash = j.hash /\ k.pc = j.pc /\ k.then = j.then
             /\ k.todo = j.todo
<1>1. j.st \in RemoteState
  BY DEF Job
<1>2. [j.st EXCEPT !.deploys = deploys] \in RemoteState /\ [j.st EXCEPT !.deploys = deploys].deploys = deploys
  BY <1>1 DEF RemoteState
<1>3. QED
  BY <1>2 DEF Job

LEMMA UploadedKeeps ==
  ASSUME IInv, NEW p \in Proc, NEW r \in Requests, DeployUploaded(p, r)
  PROVE  IInv'
<1>1. PICK d \in Uploaded(state, r) :
        LET j == [Read(d.id) EXCEPT !.hash = r.hash, !.spa = r.spa, !.unchanged = state.current = d.id]
        IN  Begin(p, r, IF d.spa = r.spa THEN [j EXCEPT !.pc = "promote"]
                        ELSE Saving([j EXCEPT !.st.deploys = (@ \ {d}) \cup {[d EXCEPT !.spa = r.spa]}],
                                    "promote", None, {}))
  BY DEF DeployUploaded
<1> DEFINE j == [Read(d.id) EXCEPT !.hash = r.hash, !.spa = r.spa, !.unchanged = state.current = d.id]
           d2 == [d EXCEPT !.spa = r.spa]
           deploys == (state.deploys \ {d}) \cup {d2}
<1>2. d \in state.deploys /\ state.deploys \in SUBSET DeployRecord /\ d \in DeployRecord
  BY DEF Uploaded, IInv, TypeOK, RemoteState
<1>3. r.spa \in BOOLEAN /\ r.hash \in Hash \cup {None} /\ d.id \in Id
  BY <1>2 DEF Request, DeployRecord
<1>4. /\ Read(d.id) \in Job
      /\ Read(d.id).st = state /\ Read(d.id).etag = state /\ Read(d.id).removed = {}
  BY <1>3, ReadOK
<1>5. j \in Job /\ j.st = state /\ j.etag = state /\ j.removed = {}
  BY <1>3, <1>4 DEF Job
<1>6. d2 \in DeployRecord /\ d2.id = d.id
  BY <1>2, <1>3 DEF DeployRecord
<1>7. deploys \in SUBSET DeployRecord /\ OncePerId(deploys) /\ Ids(state.deploys) \subseteq Ids(deploys)
  BY <1>2, <1>6 DEF IInv, TypeOK, OncePerId, Ids
<1> HIDE DEF j, deploys
<1>8. CASE d.spa = r.spa
  <2> DEFINE k == [j EXCEPT !.pc = "promote"]
  <2>1. Begin(p, r, k)
    BY <1>1, <1>8 DEF j
  <2>2. k \in Job /\ k.pc = "promote" /\ k.st = state /\ k.etag = state /\ k.removed = {}
    BY <1>5 DEF Job, Label
  <2>3. OncePerId(k.st.deploys) /\ Kept(k.etag.deploys, k) /\ k.pc \in Label \ {"put", "sweep"}
    BY <2>2 DEF Kept, IInv, TypeOK, Label
  <2> HIDE DEF k
  <2>4. QED
    BY <2>1, <2>2, <2>3, BeginKeeps
<1>9. CASE d.spa # r.spa
  <2> DEFINE i == [j EXCEPT !.st.deploys = deploys]
             k == Saving(i, "promote", None, {})
  <2>1. Begin(p, r, k)
    <3>1. [j EXCEPT !.st.deploys = (@ \ {d}) \cup {d2}] = i
      BY <1>5 DEF deploys, Job, RemoteState
    <3>2. QED
      BY <1>1, <1>9, <3>1 DEF j
  <2>2. i \in Job /\ i.st.deploys = deploys /\ i.etag = state
    BY <1>5, <1>7, CopyOK
  <2> HIDE DEF i
  <2>3. /\ k \in Job /\ k.pc = "check" /\ k.then = "promote" /\ k.removed = {}
        /\ k.st = i.st /\ k.etag = i.etag
    BY <2>2, SavingOK
  <2> HIDE DEF k
  <2>4. OncePerId(k.st.deploys) /\ Kept(k.etag.deploys, k) /\ k.pc \in Label \ {"put", "sweep"}
    BY <1>7, <2>2, <2>3 DEF Kept, Label
  <2>5. QED
    BY <2>1, <2>3, <2>4, BeginKeeps
<1>10. QED
  BY <1>8, <1>9

LEMMA RereadersKeep ==
  ASSUME IInv, NEW p \in Proc, NEW r \in Requests, Publish(p, r) \/ Delete(p, r) \/ Prune(p, r)
  PROVE  IInv'
<1> DEFINE j(id, ids) == [Read(id) EXCEPT !.pc = "reread", !.todo = ids]
<1>1. state.deploys \in SUBSET DeployRecord
  BY DEF IInv, TypeOK, RemoteState
<1>2. r.cmd # "deploy"
  BY DEF Publish, Delete, Prune
<1>3. PICK id \in Id \cup {None}, ids \in SUBSET Id : Begin(p, r, j(id, ids))
  <2>1. CASE Publish(p, r)
    <3>1. PICK id \in Id : Begin(p, r, [Read(id) EXCEPT !.pc = "reread"])
      BY <1>1, <2>1, IdsTyped DEF Publish
    <3>2. Read(id) \in Job /\ Read(id).todo = {}
      BY ReadOK DEF Read, Idle
    <3>3. [Read(id) EXCEPT !.pc = "reread"] = j(id, {})
      BY <3>2 DEF Job
    <3>4. QED
      BY <3>1, <3>3
  <2>2. CASE Delete(p, r)
    BY <1>1, <2>2, IdsTyped DEF Delete
  <2>3. CASE Prune(p, r)
    <3>1. Ids(PruneVictims(state, r.keep)) \in SUBSET Id
      BY <1>1, IdsTyped DEF PruneVictims
    <3>2. QED
      BY <2>3, <3>1 DEF Prune
  <2>4. QED
    BY <2>1, <2>2, <2>3
<1>4. Read(id) \in Job /\ Read(id).st = state /\ Read(id).etag = state /\ Read(id).removed = {}
  BY ReadOK
<1>5. /\ j(id, ids) \in Job /\ j(id, ids).pc = "reread" /\ j(id, ids).removed = {}
      /\ j(id, ids).st = state /\ j(id, ids).etag = state
  BY <1>4 DEF Job, Label
<1>6. OncePerId(j(id, ids).st.deploys) /\ Kept(j(id, ids).etag.deploys, j(id, ids))
  BY <1>5 DEF Kept, IInv, TypeOK
<1>7. j(id, ids).pc \in Label \ {"put", "sweep"}
  BY <1>5 DEF Label
<1> HIDE DEF j
<1>8. QED
  BY <1>2, <1>3, <1>5, <1>6, <1>7, BeginKeeps

-----------------------------------------------------------------------------
(* The steps of a command. *)

(* What is known of a command, and a move of it to a request that is neither a write nor a sweep. *)
LEMMA MoveOK ==
  ASSUME NEW j, JobOK(j), NEW label \in Label \ {"put", "sweep", "check", "idle"},
         j.removed = {}, j.cmd \in Request,
         label \in {"clear", "upload", "reread"} => j.id \in Id /\ j.hash \in Hash
  PROVE  JobOK([j EXCEPT !.pc = label]) /\ [j EXCEPT !.pc = label].pc = label
<1> DEFINE k == [j EXCEPT !.pc = label]
<1>1. /\ k \in Job /\ k.pc = label /\ k.st = j.st /\ k.etag = j.etag /\ k.removed = {} /\ k.cmd = j.cmd
      /\ k.id = j.id /\ k.hash = j.hash
  BY DEF JobOK, Job, Label
<1>2. Kept(k.etag.deploys, k) /\ OncePerId(k.st.deploys)
  BY <1>1 DEF JobOK, Kept
<1>3. Targeted(k) => k.id \in Id /\ k.hash \in Hash
  BY <1>1 DEF Targeted
<1>4. QED
  BY <1>1, <1>2, <1>3 DEF JobOK

(* A write of a copy that lost nothing but what it removed. *)
LEMMA SaveOK ==
  ASSUME NEW j \in Job, j.cmd \in Request, OncePerId(j.st.deploys),
         NEW then \in {"idle", "clear", "promote"}, NEW promotedTo \in Id \cup {None},
         NEW removed \in SUBSET Id,
         Ids(j.etag.deploys) \subseteq Ids(j.st.deploys) \cup removed,
         then = "clear" => j.id \in Id /\ j.hash \in Hash
  PROVE  JobOK(Saving(j, then, promotedTo, removed)) /\ Saving(j, then, promotedTo, removed).pc = "check"
<1> DEFINE k == Saving(j, then, promotedTo, removed)
<1>1. /\ k \in Job /\ k.pc = "check" /\ k.then = then /\ k.removed = removed
      /\ k.st = j.st /\ k.etag = j.etag /\ k.cmd = j.cmd /\ k.id = j.id /\ k.hash = j.hash
  BY SavingOK
<1> HIDE DEF k
<1>2. Kept(k.etag.deploys, k) /\ (Targeted(k) => k.id \in Id /\ k.hash \in Hash)
  BY <1>1 DEF Kept, Targeted
<1>3. JobOK(k) /\ k.pc = "check"
  BY <1>1, <1>2 DEF JobOK
<1>4. QED
  BY <1>3 DEF k

(* A step of p's command to k that leaves state, files, routing and clock alone. *)
LEMMA GoKeeps ==
  ASSUME IInv, NEW p \in Proc, NEW k, JobOK(k), k.pc # "put", Go(p, k),
         UNCHANGED <<state, files, live, notFound, clock>>
  PROVE  IInv'
BY StepKeeps DEF Go, IInv, TypeOK

(* A command that has read the state again. *)
LEMMA AgainOK ==
  ASSUME IInv, NEW j, JobOK(j), j.pc = "reread", j.cmd.cmd # "deploy",
         NEW ids \in SUBSET (Id \cup Path), NEW label \in {"promote", "sweep"},
         label = "sweep" => ids \subseteq Id
  PROVE  JobOK([j EXCEPT !.st = state, !.etag = state, !.todo = ids, !.pc = label])
<1> DEFINE k == [j EXCEPT !.st = state, !.etag = state, !.todo = ids, !.pc = label]
<1>1. j \in Job /\ state \in RemoteState /\ OncePerId(state.deploys)
  BY DEF JobOK, IInv, TypeOK
<1>2. k \in Job
  BY <1>1 DEF Job, Label
<1>3. /\ k.pc = label /\ k.st = state /\ k.etag = state /\ k.cmd = j.cmd /\ k.todo = ids
      /\ k.removed = j.removed
  BY <1>1 DEF Job
<1>4. Kept(k.etag.deploys, k) /\ ~Targeted(k)
  BY <1>3 DEF Kept, Targeted
<1> HIDE DEF k
<1>5. JobOK(k)
  BY <1>1, <1>2, <1>3, <1>4 DEF JobOK
<1>6. QED
  BY <1>5 DEF k

LEMMA RereadKeeps ==
  ASSUME IInv, NEW p \in Proc, RereadReplacing(p) \/ RereadPublishing(p) \/ RereadDeleting(p)
  PROVE  IInv'
<1> DEFINE j == job[p]
<1>1. JobOK(j) /\ j \in Job /\ j.pc = "reread" /\ j.cmd \in Request /\ j.removed = {}
  BY DEF IInv, JobsOK, JobOK, RereadReplacing, RereadPublishing, RereadDeleting, Is
<1>2. JobOK(Idle) /\ Idle.pc # "put"
  BY IdleOK DEF Idle
<1>3. CASE RereadReplacing(p)
  <2> DEFINE i == [j EXCEPT !.st.deploys = Without(@, {j.id})]
             k == Saving(i, "clear", None, {j.id})
  <2>1. j.id \in Id /\ j.hash \in Hash
    BY <1>1, <1>3 DEF JobOK, Targeted, RereadReplacing, Is
  <2>2. j.st.deploys \in SUBSET DeployRecord
    BY <1>1 DEF Job, RemoteState
  <2>3. /\ Without(j.st.deploys, {j.id}) \in SUBSET DeployRecord
        /\ Ids(j.st.deploys) \subseteq Ids(Without(j.st.deploys, {j.id})) \cup {j.id}
        /\ OncePerId(Without(j.st.deploys, {j.id}))
    BY <1>1, <2>2, WithoutIds DEF JobOK
  <2>4. i = [j EXCEPT !.st.deploys = Without(j.st.deploys, {j.id})]
    OBVIOUS
  <2>5. /\ i \in Job /\ i.st.deploys = Without(j.st.deploys, {j.id}) /\ i.etag = j.etag
        /\ i.cmd = j.cmd /\ i.id = j.id /\ i.hash = j.hash
    BY <1>1, <2>3, <2>4, CopyOK
  <2>6. /\ Ids(i.etag.deploys) \subseteq Ids(i.st.deploys) \cup {j.id}
        /\ OncePerId(i.st.deploys) /\ i.cmd \in Request /\ i.id \in Id /\ i.hash \in Hash
    BY <1>1, <2>1, <2>3, <2>5 DEF JobOK, Kept
  <2> HIDE DEF i
  <2>7. JobOK(k) /\ k.pc = "check"
    <3>1. {j.id} \in SUBSET Id /\ i \in Job
      BY <2>1, <2>5
    <3>2. QED
      BY <2>6, <3>1, SaveOK
  <2>8. Go(p, Idle) \/ Go(p, k)
    BY <1>3 DEF RereadReplacing, i
  <2> HIDE DEF k
  <2>9. QED
    BY <1>2, <1>3, <2>7, <2>8, GoKeeps DEF RereadReplacing
<1>4. CASE RereadPublishing(p)
  <2> DEFINE k == [j EXCEPT !.st = state, !.etag = state, !.todo = j.todo, !.pc = "promote"]
  <2>1. j.todo \in SUBSET (Id \cup Path) /\ j.cmd.cmd # "deploy"
    BY <1>1, <1>4 DEF Job, RereadPublishing, Is
  <2>2. JobOK(k) /\ k.pc = "promote"
    BY <1>1, <2>1, AgainOK DEF Job
  <2>3. k = [j EXCEPT !.st = state, !.etag = state, !.pc = "promote"]
    BY <1>1 DEF Job
  <2>4. Go(p, Idle) \/ Go(p, k)
    BY <1>4, <2>3 DEF RereadPublishing
  <2> HIDE DEF k
  <2>5. QED
    BY <1>2, <1>4, <2>2, <2>4, GoKeeps DEF RereadPublishing
<1>5. CASE RereadDeleting(p)
  <2> DEFINE k(ids) == [j EXCEPT !.st = state, !.etag = state, !.todo = ids, !.pc = "sweep"]
  <2>1. state.deploys \in SUBSET DeployRecord
    BY DEF IInv, TypeOK, RemoteState
  <2>2. Ids(state.deploys) \subseteq Id /\ Ids(PruneVictims(state, j.cmd.keep)) \subseteq Id
    BY <2>1, IdsTyped DEF PruneVictims
  <2>3. PICK ids \in SUBSET Id : Go(p, Idle) \/ Go(p, k(ids))
    <3> DEFINE still == IF j.cmd.cmd = "delete"
                        THEN {id \in j.todo \cap Ids(state.deploys) : ~Blocked(state, id)}
                        ELSE j.todo \cap Ids(PruneVictims(state, j.cmd.keep))
    <3>1. still \in SUBSET Id
      BY <2>2
    <3>2. Go(p, Idle) \/ Go(p, k(still))
      BY <1>5 DEF RereadDeleting
    <3>3. QED
      BY <3>1, <3>2
  <2>4. JobOK(k(ids)) /\ k(ids).pc = "sweep"
    BY <1>1, <1>5, AgainOK DEF Job, RereadDeleting, Is
  <2> HIDE DEF k
  <2>5. QED
    BY <1>2, <1>5, <2>3, <2>4, GoKeeps DEF RereadDeleting
<1>6. QED
  BY <1>3, <1>4, <1>5

LEMMA SweepKeeps ==
  ASSUME IInv, NEW p \in Proc, Sweep(p) \/ SweepFails(p)
  PROVE  IInv'
<1> DEFINE j == job[p]
           k(id, ids) == [j EXCEPT !.todo = @ \ {id}, !.removed = @ \cup ids]
<1>1. JobOK(j) /\ j \in Job /\ j.pc = "sweep" /\ j.cmd \in Request /\ j.todo \subseteq Id
  BY DEF IInv, JobsOK, JobOK, Sweep, SweepFails, Is
<1>2. PICK id \in j.todo, ids \in SUBSET Id : job' = [job EXCEPT ![p] = k(id, ids)]
  <2>1. CASE Sweep(p)
    <3>1. PICK id \in j.todo : job' = [job EXCEPT ![p] = k(id, {id})]
      BY <2>1 DEF Sweep, Go
    <3>2. {id} \in SUBSET Id
      BY <1>1
    <3>3. QED
      BY <3>1, <3>2
  <2>2. CASE SweepFails(p)
    <3>1. PICK id \in j.todo : job' = [job EXCEPT ![p].todo = @ \ {id}]
      BY <2>2 DEF SweepFails
    <3>2. job' = [job EXCEPT ![p] = [j EXCEPT !.todo = @ \ {id}]]
      BY <3>1
    <3>3. [j EXCEPT !.todo = @ \ {id}] = k(id, {})
      BY <1>1 DEF Job
    <3>4. QED
      BY <3>2, <3>3
  <2>3. QED
    BY <2>1, <2>2
<1>3. id \in Id
  BY <1>1
<1>4. /\ k(id, ids) \in Job /\ k(id, ids).pc = "sweep" /\ k(id, ids).cmd = j.cmd
      /\ k(id, ids).todo = j.todo \ {id} /\ k(id, ids).removed = j.removed \cup ids
      /\ k(id, ids).st = j.st /\ k(id, ids).etag = j.etag
  BY <1>1, <1>3 DEF Job, Label
<1> HIDE DEF k
<1>5. JobOK(k(id, ids))
  BY <1>1, <1>4 DEF JobOK, Kept, Targeted
<1>6. files' \in [Id -> [Path -> Hash \cup {None}]]
  <2>1. PICK one \in Id : files' \in {files, [files EXCEPT ![one] = Empty]}
    BY <1>1 DEF Sweep, SweepFails
  <2>2. Empty \in [Path -> Hash \cup {None}] /\ files \in [Id -> [Path -> Hash \cup {None}]]
    BY DEF Empty, IInv, TypeOK
  <2>3. QED
    BY <2>1, <2>2
<1>7. deaths' \in 0 .. MaxDeaths /\ commands' \in 0 .. MaxCommands
  <2>1. commands' = commands /\ (deaths' = deaths \/ (deaths < MaxDeaths /\ deaths' = deaths + 1))
    BY DEF Sweep, SweepFails, Go
  <2>2. QED
    BY <2>1 DEF IInv, TypeOK
<1>8. state' = state /\ UNCHANGED <<live, notFound, clock>>
  BY DEF Sweep, SweepFails
<1>9. QED
  BY <1>2, <1>4, <1>5, <1>6, <1>7, <1>8, StepKeeps DEF IInv, TypeOK

LEMMA SweptKeeps ==
  ASSUME IInv, NEW p \in Proc, Swept(p)
  PROVE  IInv'
<1> DEFINE j == job[p]
           i == [j EXCEPT !.st.deploys = Without(j.st.deploys, j.removed)]
           k == Saving(i, "idle", None, j.removed)
<1>1. JobOK(j) /\ j \in Job /\ j.pc = "sweep" /\ j.cmd \in Request
  BY DEF IInv, JobsOK, JobOK, Swept
<1>2. j.st.deploys \in SUBSET DeployRecord /\ j.removed \in SUBSET Id
  BY <1>1 DEF Job, RemoteState
<1>3. /\ Without(j.st.deploys, j.removed) \in SUBSET DeployRecord
      /\ Ids(j.st.deploys) \subseteq Ids(Without(j.st.deploys, j.removed)) \cup j.removed
      /\ OncePerId(Without(j.st.deploys, j.removed))
  BY <1>1, <1>2, WithoutIds DEF JobOK
<1>4. /\ i \in Job /\ i.st.deploys = Without(j.st.deploys, j.removed) /\ i.etag = j.etag /\ i.cmd = j.cmd
  BY <1>1, <1>3, CopyOK
<1>5. /\ Ids(i.etag.deploys) \subseteq Ids(i.st.deploys) \cup j.removed
      /\ OncePerId(i.st.deploys) /\ i.cmd \in Request
  BY <1>1, <1>3, <1>4 DEF JobOK, Kept
<1>6. Go(p, k) /\ UNCHANGED <<state, files, live, notFound, clock>>
  BY DEF Swept
<1> HIDE DEF i
<1>7. JobOK(k) /\ k.pc = "check"
  BY <1>2, <1>4, <1>5, SaveOK
<1> HIDE DEF k
<1>8. QED
  BY <1>6, <1>7, GoKeeps

LEMMA FilesKeep ==
  ASSUME IInv, NEW p \in Proc, Clear(p) \/ Upload(p)
  PROVE  IInv'
<1> DEFINE j == job[p]
<1>1. /\ JobOK(j) /\ j \in Job /\ j.pc \in {"clear", "upload"} /\ j.cmd \in Request /\ j.removed = {}
      /\ j.id \in Id /\ j.hash \in Hash
  BY DEF IInv, JobsOK, JobOK, Targeted, Clear, Upload
<1>2. CASE Clear(p)
  <2>1. JobOK([j EXCEPT !.pc = "upload"]) /\ [j EXCEPT !.pc = "upload"].pc = "upload"
    BY <1>1, MoveOK DEF Label
  <2>2. files' \in [Id -> [Path -> Hash \cup {None}]]
    BY <1>2 DEF Clear, Empty, IInv, TypeOK
  <2>3. job' = [job EXCEPT ![p] = [j EXCEPT !.pc = "upload"]]
    BY <1>2 DEF Clear, Go
  <2>4. QED
    BY <1>2, <2>1, <2>2, <2>3, StepKeeps DEF Clear, Go, IInv, TypeOK
<1>3. CASE Upload(p)
  <2> DEFINE k(path) == [j EXCEPT !.todo = @ \ {path}]
  <2>1. PICK path \in j.todo : Go(p, k(path)) /\ files' = [files EXCEPT ![j.id][path] = j.hash]
    BY <1>3 DEF Upload
  <2>2. files' \in [Id -> [Path -> Hash \cup {None}]]
    BY <1>1, <2>1 DEF IInv, TypeOK
  <2>3. /\ k(path) \in Job /\ k(path).pc = j.pc /\ k(path).cmd = j.cmd /\ k(path).removed = {}
        /\ k(path).st = j.st /\ k(path).etag = j.etag /\ k(path).id = j.id /\ k(path).hash = j.hash
    BY <1>1 DEF Job
  <2> HIDE DEF k
  <2>4. JobOK(k(path)) /\ k(path).pc # "put"
    BY <1>1, <2>3 DEF JobOK, Kept
  <2>5. QED
    BY <1>3, <2>1, <2>2, <2>4, StepKeeps DEF Upload, Go, IInv, TypeOK
<1>4. QED
  BY <1>2, <1>3

LEMMA RecordKeeps ==
  ASSUME IInv, NEW p \in Proc, Record(p)
  PROVE  IInv'
<1> DEFINE j == job[p]
           d == [id |-> j.id, hash |-> j.hash, spa |-> j.spa, createdAt |-> clock + 1]
           deploys == Without(j.st.deploys, {j.id}) \cup {d}
           i == [j EXCEPT !.st.deploys = deploys]
           k == Saving(i, "promote", None, {})
<1>1. /\ JobOK(j) /\ j \in Job /\ j.pc = "upload" /\ j.cmd \in Request /\ j.removed = {}
      /\ j.id \in Id /\ j.hash \in Hash
  BY DEF IInv, JobsOK, JobOK, Targeted, Record
<1>2. j.st.deploys \in SUBSET DeployRecord /\ j.spa \in BOOLEAN
  BY <1>1 DEF Job, RemoteState
<1>3. d \in DeployRecord /\ d.id = j.id
  BY <1>1, <1>2 DEF DeployRecord, IInv, TypeOK
<1> HIDE DEF d
<1>4. /\ Without(j.st.deploys, {j.id}) \in SUBSET DeployRecord
      /\ Ids(j.st.deploys) \subseteq Ids(Without(j.st.deploys, {j.id})) \cup {j.id}
      /\ OncePerId(Without(j.st.deploys, {j.id}))
  BY <1>1, <1>2, WithoutIds DEF JobOK
<1>5. deploys \in SUBSET DeployRecord /\ Ids(j.st.deploys) \subseteq Ids(deploys)
  BY <1>3, <1>4 DEF Ids
<1>6. OncePerId(deploys)
  BY <1>3, <1>4 DEF OncePerId, Without
<1> HIDE DEF deploys
<1>7. /\ i \in Job /\ i.st.deploys = deploys /\ i.etag = j.etag /\ i.cmd = j.cmd
  BY <1>1, <1>5, CopyOK
<1>8. /\ Ids(i.etag.deploys) \subseteq Ids(i.st.deploys) \cup {} /\ OncePerId(i.st.deploys) /\ i.cmd \in Request
  BY <1>1, <1>5, <1>6, <1>7 DEF JobOK, Kept
<1>9. Go(p, k) /\ clock' = clock + 1 /\ UNCHANGED <<state, files, live, notFound>>
  BY DEF Record, d, deploys
<1> HIDE DEF i
<1>10. JobOK(k) /\ k.pc = "check"
  BY <1>7, <1>8, SaveOK
<1> HIDE DEF k
<1>11. clock' \in Nat /\ commands' \in 0 .. MaxCommands /\ deaths' \in 0 .. MaxDeaths
  BY <1>9 DEF Go, IInv, TypeOK
<1>12. QED
  BY <1>9, <1>10, <1>11, StepKeeps DEF Go, IInv, TypeOK

LEMMA PromoteKeeps ==
  ASSUME IInv, NEW p \in Proc, Promote(p) \/ Retarget(p)
  PROVE  IInv'
<1> DEFINE j == job[p]
<1>1. /\ JobOK(j) /\ j \in Job /\ j.pc \in {"promote", "rule"} /\ j.cmd \in Request /\ j.removed = {}
      /\ j.id \in Id \cup {None}
  BY DEF IInv, JobsOK, JobOK, Promote, Retarget, Job
<1>2. CASE Promote(p)
  <2> DEFINE i == [j EXCEPT !.zone = notFound]
             k == [i EXCEPT !.pc = "rule"]
  <2>1. /\ i \in Job /\ i.pc = j.pc /\ i.st = j.st /\ i.etag = j.etag /\ i.removed = j.removed
        /\ i.cmd = j.cmd /\ i.id = j.id /\ i.hash = j.hash /\ i.then = j.then /\ i.todo = j.todo
    BY <1>1 DEF Job, IInv, TypeOK
  <2>2. Go(p, k)
    BY <1>2 DEF Promote
  <2> HIDE DEF i
  <2>3. JobOK(i)
    BY <1>1, <2>1 DEF JobOK, Kept, Targeted
  <2>4. JobOK(k) /\ k.pc = "rule"
    BY <1>1, <2>1, <2>3, MoveOK DEF Label
  <2> HIDE DEF k
  <2>5. QED
    BY <1>2, <2>2, <2>4, GoKeeps DEF Promote
<1>3. CASE Retarget(p)
  <2>1. JobOK([j EXCEPT !.pc = "missing"]) /\ [j EXCEPT !.pc = "missing"].pc = "missing"
    BY <1>1, MoveOK DEF Label
  <2>2. live' \in Id \cup {None}
    BY <1>1, <1>3 DEF Retarget
  <2>3. QED
    BY <1>3, <2>1, <2>2, StepKeeps DEF Retarget, Go, IInv, TypeOK
<1>4. QED
  BY <1>2, <1>3

LEMMA NotFoundKeeps ==
  ASSUME IInv, NEW p \in Proc, SetNotFound(p)
  PROVE  IInv'
<1> DEFINE j == job[p]
           i == [j EXCEPT !.st = MarkCurrent(j.st, j.id)]
           k == Saving(i, "idle", j.id, {})
<1>1. /\ JobOK(j) /\ j \in Job /\ j.pc = "missing" /\ j.cmd \in Request /\ j.removed = {}
      /\ j.id \in Id \cup {None} /\ j.st \in RemoteState
  BY DEF IInv, JobsOK, JobOK, SetNotFound, Job
<1>2. MarkCurrent(j.st, j.id) \in RemoteState /\ MarkCurrent(j.st, j.id).deploys = j.st.deploys
  BY <1>1, MarkTyped
<1>3. i \in Job /\ i.st.deploys = j.st.deploys /\ i.etag = j.etag /\ i.cmd = j.cmd
  BY <1>1, <1>2 DEF Job
<1>4. /\ Ids(i.etag.deploys) \subseteq Ids(i.st.deploys) \cup {} /\ OncePerId(i.st.deploys) /\ i.cmd \in Request
  BY <1>1, <1>3 DEF JobOK, Kept
<1>5. Go(p, Idle) \/ Go(p, k)
  BY DEF SetNotFound
<1>6. notFound' \in Id \cup {None}
  BY <1>1 DEF SetNotFound, IInv, TypeOK
<1> HIDE DEF i
<1>7. JobOK(k) /\ k.pc = "check"
  BY <1>1, <1>3, <1>4, SaveOK
<1> HIDE DEF k
<1>8. JobOK(Idle) /\ Idle.pc # "put"
  BY IdleOK DEF Idle
<1>9. UNCHANGED <<state, files, live, clock>>
  BY DEF SetNotFound
<1>10. QED
  BY <1>5, <1>6, <1>7, <1>8, <1>9, StepKeeps DEF Go, IInv, TypeOK

(* After its check a writer's copy holds what the file holds, and it is the only one about to write. *)
LEMMA CheckKeeps ==
  ASSUME IInv, NEW p \in Proc, Check(p)
  PROVE  IInv'
<1> DEFINE j == job[p]
           st == IF state = j.etag THEN j.st ELSE Merged(j.st, state, j.promotedTo, j.removed)
           k == [j EXCEPT !.pc = "put", !.st = st]
<1>1. JobOK(j) /\ j \in Job /\ j.pc = "check" /\ j.cmd \in Request
  BY DEF IInv, JobsOK, JobOK, Check
<1>2. /\ j.st \in RemoteState /\ state \in RemoteState /\ OncePerId(state.deploys)
      /\ j.promotedTo \in Id \cup {None} /\ j.removed \in SUBSET Id /\ OncePerId(j.st.deploys)
  BY <1>1 DEF Job, JobOK, IInv, TypeOK
<1>3. /\ st \in RemoteState /\ OncePerId(st.deploys) /\ Ids(j.st.deploys) \subseteq Ids(st.deploys)
      /\ Ids(state.deploys) \subseteq Ids(st.deploys) \cup j.removed
  <2>1. CASE state = j.etag
    BY <1>1, <1>2, <2>1 DEF JobOK, Kept
  <2>2. CASE state # j.etag
    BY <1>2, <2>2, MergeKeeps
  <2>3. QED
    BY <2>1, <2>2
<1>4. /\ UNCHANGED <<state, files, live, notFound, clock, commands, deaths>>
      /\ job' = [job EXCEPT ![p] = k]
      /\ AtomicWrites => \A q \in Proc : job[q].pc # "put"
  BY DEF Check, Go
<1> HIDE DEF st
<1>5. /\ k \in Job /\ k.pc = "put" /\ k.st = st /\ k.etag = j.etag /\ k.removed = j.removed
      /\ k.cmd = j.cmd /\ k.id = j.id /\ k.hash = j.hash /\ k.then = j.then
  BY <1>1, <1>3 DEF Job, Label
<1> HIDE DEF k
<1>6. JobOK(k) /\ Kept(state.deploys, k)
  BY <1>1, <1>3, <1>5 DEF JobOK, Kept, Targeted
<1>7. job' \in [Proc -> Job] /\ \A q \in Proc : job'[q] = IF q = p THEN k ELSE job[q]
  BY <1>4, <1>5 DEF IInv, TypeOK
<1>8. TypeOK' /\ JobsOK'
  BY <1>4, <1>6, <1>7 DEF IInv, TypeOK, JobsOK
<1>9. OneWriter'
  BY <1>4, <1>6, <1>7 DEF OneWriter
<1>10. QED
  BY <1>8, <1>9 DEF IInv

LEMMA PutKeeps ==
  ASSUME IInv, NEW p \in Proc, Put(p)
  PROVE  IInv'
<1> DEFINE j == job[p]
           k == [j EXCEPT !.pc = j.then, !.etag = j.st, !.removed = {}, !.promotedTo = None]
<1>1. JobOK(j) /\ j \in Job /\ j.pc = "put" /\ j.cmd \in Request
  BY DEF IInv, JobsOK, JobOK, Put
<1>2. j.st \in RemoteState /\ OncePerId(j.st.deploys) /\ j.then \in {"idle", "clear", "promote"}
  BY <1>1 DEF Job, JobOK
<1>3. PICK i \in {Idle, k} : Go(p, i) /\ (i = k => j.then # "idle" \/ i = Idle)
  BY DEF Put
<1>4. JobOK(Idle) /\ Idle.pc # "put" /\ Idle \in Job
  BY IdleOK DEF Idle, JobOK
<1>5. /\ k \in Job /\ k.pc = j.then /\ k.st = j.st /\ k.etag = j.st /\ k.removed = {}
      /\ k.cmd = j.cmd /\ k.id = j.id /\ k.hash = j.hash
  BY <1>1, <1>2 DEF Job, Label
<1> HIDE DEF k
<1>6. JobOK(k) /\ k.pc # "put"
  BY <1>1, <1>2, <1>5 DEF JobOK, Kept, Targeted
<1>7. i \in Job /\ JobOK(i) /\ i.pc # "put"
  BY <1>3, <1>4, <1>5, <1>6
<1>8. job' \in [Proc -> Job] /\ \A q \in Proc : job'[q] = IF q = p THEN i ELSE job[q]
  BY <1>3, <1>7 DEF Go, IInv, TypeOK
<1>9. state' = j.st /\ UNCHANGED <<files, live, notFound, clock, commands, deaths>>
  BY <1>3 DEF Put, Go
<1>10. TypeOK' /\ JobsOK'
  BY <1>2, <1>7, <1>8, <1>9 DEF IInv, TypeOK, JobsOK
<1>11. OneWriter'
  <2>1. AtomicWrites => \A q \in Proc : job'[q].pc # "put"
    BY <1>1, <1>7, <1>8 DEF IInv, OneWriter
  <2>2. QED
    BY <2>1 DEF OneWriter
<1>12. QED
  BY <1>10, <1>11 DEF IInv

LEMMA DieKeeps ==
  ASSUME IInv, NEW p \in Proc, Die(p)
  PROVE  IInv'
<1>1. JobOK(Idle) /\ Idle.pc # "put"
  BY IdleOK DEF Idle
<1>2. deaths' \in 0 .. MaxDeaths
  BY DEF Die, IInv, TypeOK
<1>3. QED
  BY <1>1, <1>2, StepKeeps DEF Die, IInv, TypeOK

-----------------------------------------------------------------------------
(* The theorems. *)

LEMMA InitKept == Init => IInv
<1> SUFFICES ASSUME Init PROVE IInv
  OBVIOUS
<1>1. JobOK(Idle) /\ Idle \in Job /\ Idle.pc = "idle"
  BY IdleOK DEF JobOK, Idle
<1>2. NoDeploys \in RemoteState /\ OncePerId(NoDeploys.deploys)
  BY DEF NoDeploys, RemoteState, OncePerId
<1>3. Empty \in [Path -> Hash \cup {None}]
  BY DEF Empty
<1>4. job \in [Proc -> Job] /\ \A p \in Proc : job[p] = Idle
  BY <1>1 DEF Init
<1>5. TypeOK
  BY <1>2, <1>3, <1>4 DEF Init, TypeOK
<1>6. JobsOK /\ OneWriter
  BY <1>1, <1>4 DEF JobsOK, OneWriter
<1>7. QED
  BY <1>5, <1>6 DEF IInv

LEMMA NextKeeps == IInv /\ [Next]_vars => IInv'
<1> SUFFICES ASSUME IInv, [Next]_vars PROVE IInv'
  OBVIOUS
<1>1. ASSUME NEW p \in Proc, Start(p) PROVE IInv'
  BY <1>1, DeployKeeps, UploadedKeeps, RereadersKeep DEF Start
<1>2. ASSUME NEW p \in Proc, Step(p) PROVE IInv'
  BY <1>2, RereadKeeps, SweepKeeps, SweptKeeps, FilesKeep, RecordKeeps, PromoteKeeps, NotFoundKeeps,
     CheckKeeps, PutKeeps DEF Step
<1>3. ASSUME NEW p \in Proc, Die(p) PROVE IInv'
  BY <1>3, DieKeeps
<1>4. CASE UNCHANGED vars
  BY <1>4 DEF vars, IInv, TypeOK, JobsOK, OneWriter
<1>5. QED
  BY <1>1, <1>2, <1>3, <1>4 DEF Next

(* However many commands run, overlap and fail, everything is well formed and the state file records no ID twice. *)
THEOREM SiteTypeCorrect == Spec => []TypeOK
<1>1. IInv => TypeOK
  BY DEF IInv
<1>2. QED
  BY <1>1, InitKept, NextKeeps, PTL DEF Spec

(* Only an upload of the state file changes it. *)
LEMMA OnlyPutWrites ==
  ASSUME NEW p \in Proc, Start(p) \/ Step(p) \/ Die(p), ~Put(p)
  PROVE  state' = state
<1>1. CASE Start(p)
  BY <1>1 DEF Start, DeployNew, DeployReplacing, DeployUploaded, Publish, Delete, Prune, Begin
<1>2. CASE Step(p)
  BY <1>2 DEF Step, RereadReplacing, RereadPublishing, RereadDeleting, Sweep, SweepFails, Swept, Clear,
     Upload, Record, Promote, Retarget, SetNotFound, Check
<1>3. CASE Die(p)
  BY <1>3 DEF Die
<1>4. QED
  BY <1>1, <1>2, <1>3

(* If nobody writes between a writer's check of the file and its upload, a record leaves the file only for a writer that removed or replaced it: the merge of writeRemoteState loses nothing, whoever overlaps. *)
THEOREM NoRecordLost ==
  ASSUME AtomicWrites
  PROVE  Spec => RecordsKept
<1> DEFINE Dropped(d, p) == job[p].pc = "put" /\ d.id \in job[p].removed
           Keeps == \A d \in state.deploys : d.id \notin Ids(state'.deploys) => \E p \in Proc : Dropped(d, p)
<1>1. ASSUME IInv, [Next]_vars PROVE [Keeps]_vars
  <2>1. SUFFICES ASSUME NEW d \in state.deploys, d.id \notin Ids(state'.deploys)
                 PROVE  \E p \in Proc : Dropped(d, p)
    OBVIOUS
  <2>2. d.id \in Ids(state.deploys)
    BY DEF Ids
  <2>3. PICK p \in Proc : Put(p)
    BY <1>1, <2>1, <2>2, OnlyPutWrites DEF Next, vars
  <2>4. job[p].pc = "put" /\ state' = job[p].st
    BY <2>3 DEF Put
  <2>5. d.id \in job[p].removed
    BY <1>1, <2>1, <2>2, <2>4 DEF IInv, OneWriter, Kept
  <2>6. QED
    BY <2>4, <2>5
<1>2. QED
  BY <1>1, InitKept, NextKeeps, PTL DEF Spec, RecordsKept
-----------------------------------------------------------------------------
(* What each action makes of a command, field by field. *)

(* What a command that starts on request r has. *)
Fresh(k, r) ==
  /\ k \in Job /\ k.cmd = r /\ k.etag = state /\ k.removed = {} /\ k.promotedTo = None

LEMMA ReadIs ==
  ASSUME IInv, NEW id \in Id \cup {None}
  PROVE  /\ Read(id) \in Job
         /\ Read(id).pc = "idle" /\ Read(id).id = id /\ Read(id).st = state /\ Read(id).etag = state
         /\ Read(id).removed = {} /\ Read(id).promotedTo = None /\ Read(id).todo = {}
         /\ Read(id).unchanged = FALSE
<1>1. Idle \in Job /\ state \in RemoteState
  BY IdleOK DEF JobOK, IInv, TypeOK
<1>2. Read(id) \in Job
  BY <1>1 DEF Read, Job
<1>3. QED
  BY <1>2 DEF Read, Idle

(* The request of a command that starts is added last. *)
LEMMA BegunWith ==
  ASSUME NEW j \in Job, NEW r \in Requests
  PROVE  LET k == [j EXCEPT !.cmd = r]
         IN  /\ k \in Job /\ k.cmd = r /\ k.pc = j.pc /\ k.id = j.id /\ k.hash = j.hash /\ k.st = j.st
             /\ k.etag = j.etag /\ k.then = j.then /\ k.removed = j.removed /\ k.promotedTo = j.promotedTo
             /\ k.unchanged = j.unchanged /\ k.todo = j.todo /\ k.zone = j.zone
<1>1. r \in Request
  OBVIOUS
<1>2. QED
  BY <1>1 DEF Job

LEMMA DeployDoes ==
  ASSUME IInv, NEW p \in Proc, NEW r \in Requests, DeployNew(p, r) \/ DeployReplacing(p, r)
  PROVE  \E k \in Job :
           /\ job' = [job EXCEPT ![p] = k] /\ Fresh(k, r)
           /\ DeployReplacing(p, r) => k.pc = "reread"
           /\ DeployNew(p, r) => k.pc = IF r.id \in Ids(state.deploys) THEN "upload" ELSE "clear"
           /\ r.cmd = "deploy" /\ k.id = r.id /\ k.hash = r.hash /\ k.st = state /\ k.unchanged = FALSE
           /\ k.todo = PathsOf[r.hash]
<1> DEFINE d == DeployOf(r)
           j(label) == [d EXCEPT !.pc = label]
           k(label) == [j(label) EXCEPT !.cmd = r]
<1>1. r.cmd = "deploy" /\ r.id \in Id /\ r.hash \in Hash /\ r.spa \in BOOLEAN
  BY DEF DeployNew, DeployReplacing, Request
<1>2. /\ d \in Job /\ d.id = r.id /\ d.hash = r.hash /\ d.st = state /\ d.etag = state /\ d.removed = {}
      /\ d.promotedTo = None /\ d.unchanged = FALSE /\ d.todo = PathsOf[r.hash]
  <2>1. PathsOf[r.hash] \in SUBSET (Id \cup Path)
    BY <1>1
  <2>2. /\ Read(r.id) \in Job /\ Read(r.id).pc = "idle" /\ Read(r.id).id = r.id /\ Read(r.id).st = state /\ Read(r.id).etag = state
        /\ Read(r.id).removed = {} /\ Read(r.id).promotedTo = None /\ Read(r.id).todo = {} /\ Read(r.id).unchanged = FALSE
    BY <1>1, ReadIs
  <2>3. QED
    BY <1>1, <2>1, <2>2 DEF DeployOf, Job
<1> HIDE DEF d
<1>3. PICK label \in {"clear", "upload", "reread"} :
        /\ Begin(p, r, j(label))
        /\ DeployReplacing(p, r) => label = "reread"
        /\ DeployNew(p, r) => label = IF r.id \in Ids(state.deploys) THEN "upload" ELSE "clear"
  <2>1. CASE DeployNew(p, r)
    BY <2>1 DEF DeployNew, DeployReplacing, d
  <2>2. CASE DeployReplacing(p, r)
    BY <2>2 DEF DeployNew, DeployReplacing, d
  <2>3. QED
    BY <2>1, <2>2
<1>4. /\ j(label) \in Job /\ j(label).pc = label /\ j(label).id = r.id /\ j(label).hash = r.hash
      /\ j(label).st = state /\ j(label).etag = state /\ j(label).removed = {} /\ j(label).promotedTo = None
      /\ j(label).unchanged = FALSE /\ j(label).todo = PathsOf[r.hash]
  BY <1>2 DEF Job, Label
<1>5. job' = [job EXCEPT ![p] = k(label)]
  BY <1>3 DEF Begin
<1> HIDE DEF j
<1>6. /\ k(label) \in Job /\ k(label).cmd = r /\ k(label).pc = label /\ k(label).id = r.id /\ k(label).hash = r.hash
      /\ k(label).st = state /\ k(label).etag = state /\ k(label).removed = {} /\ k(label).promotedTo = None
      /\ k(label).unchanged = FALSE /\ k(label).todo = PathsOf[r.hash]
  BY <1>4, BegunWith
<1> HIDE DEF k
<1>7. QED
  BY <1>1, <1>3, <1>5, <1>6 DEF Fresh

LEMMA UploadedDoes ==
  ASSUME IInv, NEW p \in Proc, NEW r \in Requests, DeployUploaded(p, r)
  PROVE  \E k \in Job, d \in state.deploys :
           /\ job' = [job EXCEPT ![p] = k] /\ Fresh(k, r)
           /\ k.id = d.id /\ (k.unchanged => state.current = d.id)
           /\ \/ k.pc = "promote" /\ k.st = state
              \/ /\ k.pc = "check" /\ k.then = "promote"
                 /\ k.st = [state EXCEPT !.deploys = (state.deploys \ {d}) \cup {[d EXCEPT !.spa = r.spa]}]
<1>1. PICK d \in Uploaded(state, r) :
        LET j == [Read(d.id) EXCEPT !.hash = r.hash, !.spa = r.spa, !.unchanged = state.current = d.id]
        IN  Begin(p, r, IF d.spa = r.spa THEN [j EXCEPT !.pc = "promote"]
                        ELSE Saving([j EXCEPT !.st.deploys = (@ \ {d}) \cup {[d EXCEPT !.spa = r.spa]}],
                                    "promote", None, {}))
  BY DEF DeployUploaded
<1> DEFINE j == [Read(d.id) EXCEPT !.hash = r.hash, !.spa = r.spa, !.unchanged = state.current = d.id]
           d2 == [d EXCEPT !.spa = r.spa]
           st == [state EXCEPT !.deploys = (state.deploys \ {d}) \cup {d2}]
<1>2. d \in state.deploys /\ state \in RemoteState /\ d \in DeployRecord
  BY DEF Uploaded, IInv, TypeOK, RemoteState
<1>3. r.spa \in BOOLEAN /\ r.hash \in Hash \cup {None} /\ d.id \in Id
  BY <1>2 DEF Request, DeployRecord
<1>4. /\ j \in Job /\ j.id = d.id /\ j.st = state /\ j.etag = state /\ j.removed = {} /\ j.promotedTo = None
      /\ (j.unchanged => state.current = d.id)
  <2>1. /\ Read(d.id) \in Job /\ Read(d.id).pc = "idle" /\ Read(d.id).id = d.id /\ Read(d.id).st = state /\ Read(d.id).etag = state
        /\ Read(d.id).removed = {} /\ Read(d.id).promotedTo = None /\ Read(d.id).todo = {} /\ Read(d.id).unchanged = FALSE
    BY <1>3, ReadIs
  <2> DEFINE u == state.current = d.id
  <2>2. j = [Read(d.id) EXCEPT !.hash = r.hash, !.spa = r.spa, !.unchanged = u]
    OBVIOUS
  <2>3. u \in BOOLEAN
    OBVIOUS
  <2> HIDE DEF j, u
  <2>4. /\ j \in Job /\ j.id = d.id /\ j.st = state /\ j.etag = state /\ j.removed = {} /\ j.promotedTo = None
        /\ j.unchanged = u
    BY <1>3, <2>1, <2>2, <2>3 DEF Job
  <2>5. j.unchanged => state.current = d.id
    BY <2>4 DEF u
  <2>6. QED
    BY <2>4, <2>5
<1>5. d2 \in DeployRecord
  BY <1>2, <1>3 DEF DeployRecord
<1>6. st \in RemoteState
  BY <1>2, <1>5 DEF RemoteState
<1>7. Begin(p, r, IF d.spa = r.spa THEN [j EXCEPT !.pc = "promote"]
                  ELSE Saving([j EXCEPT !.st.deploys = (@ \ {d}) \cup {d2}], "promote", None, {}))
  BY <1>1
<1> HIDE DEF j
<1>8. [j EXCEPT !.st.deploys = (@ \ {d}) \cup {d2}] = [j EXCEPT !.st = st]
  BY <1>4
<1> HIDE DEF st, d2
<1>9. PICK i \in {[j EXCEPT !.pc = "promote"], Saving([j EXCEPT !.st = st], "promote", None, {})} : Begin(p, r, i)
  BY <1>7, <1>8
<1>10. /\ i \in Job /\ i.id = d.id /\ i.etag = state /\ i.removed = {} /\ i.promotedTo = None
       /\ (i.unchanged => state.current = d.id)
       /\ (i.pc = "promote" /\ i.st = state) \/ (i.pc = "check" /\ i.then = "promote" /\ i.st = st)
  <2>1. CASE i = [j EXCEPT !.pc = "promote"]
    BY <1>4, <2>1 DEF Job, Label
  <2>2. CASE i = Saving([j EXCEPT !.st = st], "promote", None, {})
    BY <1>4, <1>6, <2>2 DEF Saving, Job, Label
  <2>3. QED
    BY <1>9, <2>1, <2>2
<1> DEFINE k == [i EXCEPT !.cmd = r]
<1>11. job' = [job EXCEPT ![p] = k]
  BY <1>9 DEF Begin
<1>12. /\ k \in Job /\ k.cmd = r /\ k.pc = i.pc /\ k.id = d.id /\ k.st = i.st /\ k.etag = state /\ k.then = i.then
       /\ k.removed = {} /\ k.promotedTo = None /\ (k.unchanged => state.current = d.id)
  BY <1>10, BegunWith
<1> HIDE DEF k
<1>13. \/ k.pc = "promote" /\ k.st = state
       \/ /\ k.pc = "check" /\ k.then = "promote"
          /\ k.st = [state EXCEPT !.deploys = (state.deploys \ {d}) \cup {[d EXCEPT !.spa = r.spa]}]
  BY <1>10, <1>12 DEF st, d2
<1>14. Fresh(k, r)
  BY <1>12 DEF Fresh
<1>15. QED
  BY <1>2, <1>11, <1>12, <1>13, <1>14

LEMMA RereadersDo ==
  ASSUME IInv, NEW p \in Proc, NEW r \in Requests, Publish(p, r) \/ Delete(p, r) \/ Prune(p, r)
  PROVE  \E k \in Job :
           /\ job' = [job EXCEPT ![p] = k] /\ Fresh(k, r)
           /\ k.pc = "reread" /\ k.st = state /\ k.unchanged = FALSE
           /\ r.cmd # "deploy"
<1> DEFINE j(id, ids) == [Read(id) EXCEPT !.pc = "reread", !.todo = ids]
<1>1. state.deploys \in SUBSET DeployRecord
  BY DEF IInv, TypeOK, RemoteState
<1>2. PICK id \in Id \cup {None}, ids \in SUBSET Id : Begin(p, r, j(id, ids))
  <2>1. CASE Publish(p, r)
    <3>1. PICK id \in Id : Begin(p, r, [Read(id) EXCEPT !.pc = "reread"])
      BY <1>1, <2>1, IdsTyped DEF Publish
    <3>2. Read(id) \in Job /\ Read(id).todo = {}
      BY ReadIs
    <3>3. [Read(id) EXCEPT !.pc = "reread"] = j(id, {})
      BY <3>2 DEF Job
    <3>4. QED
      BY <3>1, <3>3
  <2>2. CASE Delete(p, r)
    BY <1>1, <2>2, IdsTyped DEF Delete
  <2>3. CASE Prune(p, r)
    <3>1. Ids(PruneVictims(state, r.keep)) \in SUBSET Id
      BY <1>1, IdsTyped DEF PruneVictims
    <3>2. QED
      BY <2>3, <3>1 DEF Prune
  <2>4. QED
    BY <2>1, <2>2, <2>3
<1> DEFINE i == j(id, ids)
           k == [i EXCEPT !.cmd = r]
<1>3. /\ i \in Job /\ i.pc = "reread" /\ i.st = state /\ i.etag = state /\ i.removed = {} /\ i.promotedTo = None
      /\ i.unchanged = FALSE
  <2>1. /\ Read(id) \in Job /\ Read(id).pc = "idle" /\ Read(id).id = id /\ Read(id).st = state /\ Read(id).etag = state
        /\ Read(id).removed = {} /\ Read(id).promotedTo = None /\ Read(id).todo = {} /\ Read(id).unchanged = FALSE
    BY ReadIs
  <2>2. QED
    BY <2>1 DEF Job, Label
<1>4. job' = [job EXCEPT ![p] = k]
  BY <1>2 DEF Begin
<1> HIDE DEF i
<1>5. /\ k \in Job /\ k.cmd = r /\ k.pc = "reread" /\ k.st = state /\ k.etag = state
      /\ k.removed = {} /\ k.promotedTo = None /\ k.unchanged = FALSE
  BY <1>3, BegunWith
<1> HIDE DEF k
<1>6. r.cmd # "deploy"
  BY DEF Publish, Delete, Prune
<1>7. QED
  BY <1>4, <1>5, <1>6 DEF Fresh

(* What a step leaves of a command: the request it is on, and the deploy. *)
Same(k, j) == k \in Job /\ k.cmd = j.cmd /\ k.id = j.id /\ k.hash = j.hash /\ k.unchanged = j.unchanged

(* A save changes where the command is, and what it is told to remove and promote. *)
Saved(k, j, then, promotedTo, removed) ==
  /\ Same(k, j) /\ k.pc = "check" /\ k.then = then /\ k.promotedTo = promotedTo /\ k.removed = removed
  /\ k.etag = j.etag /\ k.todo = j.todo /\ k.zone = j.zone

LEMMA SavingIs ==
  ASSUME NEW j \in Job, NEW st \in RemoteState, NEW then \in {"idle", "clear", "promote"},
         NEW promotedTo \in Id \cup {None}, NEW removed \in SUBSET Id
  PROVE  LET k == Saving([j EXCEPT !.st = st], then, promotedTo, removed)
         IN  Saved(k, j, then, promotedTo, removed) /\ k.st = st
BY DEF Saving, Saved, Same, Job, Label

LEMMA CopyIs ==
  ASSUME NEW j \in Job, NEW deploys \in SUBSET DeployRecord
  PROVE  /\ [j EXCEPT !.st.deploys = deploys] = [j EXCEPT !.st = [j.st EXCEPT !.deploys = deploys]]
         /\ [j.st EXCEPT !.deploys = deploys] \in RemoteState
<1>1. j.st \in RemoteState
  BY DEF Job
<1>2. QED
  BY <1>1 DEF Job, RemoteState

LEMMA JobTyped ==
  ASSUME IInv, NEW p \in Proc
  PROVE  /\ job[p] \in Job /\ job[p].st \in RemoteState /\ job[p].st.deploys \in SUBSET DeployRecord
         /\ job[p].removed \in SUBSET Id /\ state \in RemoteState /\ state.deploys \in SUBSET DeployRecord
         /\ OncePerId(state.deploys) /\ OncePerId(job[p].st.deploys)
         /\ job[p].id \in Id \cup {None} /\ job[p].promotedTo \in Id \cup {None}
         /\ job[p].todo \in SUBSET (Id \cup Path)
BY DEF IInv, JobsOK, JobOK, TypeOK, Job, RemoteState

LEMMA RereadReplacingDoes ==
  ASSUME IInv, NEW p \in Proc, RereadReplacing(p)
  PROVE  \/ job' = [job EXCEPT ![p] = Idle]
         \/ /\ ~Blocked(state, job[p].id)
            /\ \E k \in Job :
                 /\ job' = [job EXCEPT ![p] = k]
                 /\ Saved(k, job[p], "clear", None, {job[p].id})
                 /\ k.st = [job[p].st EXCEPT !.deploys = Without(@, {job[p].id})]
<1> DEFINE j == job[p]
           deploys == Without(j.st.deploys, {j.id})
           st == [j.st EXCEPT !.deploys = deploys]
           k == Saving([j EXCEPT !.st = st], "clear", None, {j.id})
<1>1. j \in Job /\ j.st.deploys \in SUBSET DeployRecord
  BY JobTyped
<1>2. {j.id} \in SUBSET Id
  BY DEF IInv, JobsOK, JobOK, Targeted, RereadReplacing, Is
<1>3. deploys \in SUBSET DeployRecord
  BY <1>1 DEF Without
<1>4. /\ [j EXCEPT !.st.deploys = deploys] = [j EXCEPT !.st = st]
      /\ st \in RemoteState
  BY <1>1, <1>3, CopyIs
<1>5. \/ job' = [job EXCEPT ![p] = Idle]
      \/ ~Blocked(state, j.id) /\ job' = [job EXCEPT ![p] = Saving([j EXCEPT !.st.deploys = deploys], "clear", None, {j.id})]
  BY DEF RereadReplacing, Go
<1> HIDE DEF st
<1>6. Saved(k, j, "clear", None, {j.id}) /\ k.st = st
  BY <1>1, <1>2, <1>4, SavingIs
<1> HIDE DEF k
<1>7. k \in Job
  BY <1>6 DEF Saved, Same
<1>8. \/ job' = [job EXCEPT ![p] = Idle]
      \/ ~Blocked(state, j.id) /\ job' = [job EXCEPT ![p] = k]
  BY <1>4, <1>5 DEF k
<1>9. k.st = [j.st EXCEPT !.deploys = Without(@, {j.id})]
  BY <1>6 DEF st
<1>10. QED
  BY <1>6, <1>7, <1>8, <1>9

LEMMA RereadPublishingDoes ==
  ASSUME IInv, NEW p \in Proc, RereadPublishing(p)
  PROVE  \/ job' = [job EXCEPT ![p] = Idle]
         \/ /\ job[p].id \in Ids(state.deploys)
            /\ \E k \in Job :
                 /\ job' = [job EXCEPT ![p] = k] /\ Same(k, job[p])
                 /\ k.pc = "promote" /\ k.st = state /\ k.etag = state
                 /\ k.removed = job[p].removed /\ k.promotedTo = job[p].promotedTo
<1> DEFINE j == job[p]
           k == [j EXCEPT !.st = state, !.etag = state, !.pc = "promote"]
<1>1. j \in Job /\ state \in RemoteState
  BY JobTyped
<1>2. /\ k \in Job /\ Same(k, j) /\ k.pc = "promote" /\ k.st = state /\ k.etag = state
      /\ k.removed = j.removed /\ k.promotedTo = j.promotedTo
  BY <1>1 DEF Job, Label, Same
<1>3. \/ job' = [job EXCEPT ![p] = Idle]
      \/ j.id \in Ids(state.deploys) /\ job' = [job EXCEPT ![p] = k]
  BY DEF RereadPublishing, Go
<1> HIDE DEF k
<1>4. QED
  BY <1>2, <1>3

LEMMA RereadDeletingDoes ==
  ASSUME IInv, NEW p \in Proc, RereadDeleting(p)
  PROVE  \/ job' = [job EXCEPT ![p] = Idle]
         \/ \E k \in Job :
              /\ job' = [job EXCEPT ![p] = k] /\ Same(k, job[p])
              /\ k.pc = "sweep" /\ k.st = state /\ k.etag = state
              /\ k.removed = job[p].removed /\ k.promotedTo = job[p].promotedTo
              /\ \A i \in k.todo : ~Blocked(state, i)
<1> DEFINE j == job[p]
           still == IF j.cmd.cmd = "delete"
                    THEN {id \in j.todo \cap Ids(state.deploys) : ~Blocked(state, id)}
                    ELSE j.todo \cap Ids(PruneVictims(state, j.cmd.keep))
           k == [j EXCEPT !.st = state, !.etag = state, !.todo = still, !.pc = "sweep"]
<1>1. j \in Job /\ state \in RemoteState /\ j.todo \in SUBSET (Id \cup Path)
  BY JobTyped
<1>2. still \in SUBSET (Id \cup Path)
  BY <1>1
<1>3. \A i \in still : ~Blocked(state, i)
  BY DEF PruneVictims, Ids
<1>4. job' = [job EXCEPT ![p] = Idle] \/ job' = [job EXCEPT ![p] = k]
  BY DEF RereadDeleting, Go
<1> HIDE DEF still
<1>5. /\ k \in Job /\ Same(k, j) /\ k.pc = "sweep" /\ k.st = state /\ k.etag = state
      /\ k.removed = j.removed /\ k.promotedTo = j.promotedTo /\ k.todo = still
  BY <1>1, <1>2 DEF Job, Label, Same
<1> HIDE DEF k
<1>6. QED
  BY <1>3, <1>4, <1>5

LEMMA SweepDoes ==
  ASSUME IInv, NEW p \in Proc, Sweep(p) \/ SweepFails(p)
  PROVE  \E k \in Job, i \in job[p].todo :
           /\ job' = [job EXCEPT ![p] = k] /\ Same(k, job[p])
           /\ k.pc = "sweep" /\ k.st = job[p].st /\ k.etag = job[p].etag /\ k.promotedTo = job[p].promotedTo
           /\ k.todo = job[p].todo \ {i} /\ k.removed \subseteq job[p].removed \cup {i}
           /\ job[p].removed \subseteq k.removed /\ (Sweep(p) => i \in k.removed)
           /\ i \in Id /\ files' \in {files, [files EXCEPT ![i] = Empty]}
<1> DEFINE j == job[p]
           k(id, ids) == [j EXCEPT !.todo = j.todo \ {id}, !.removed = j.removed \cup ids]
<1>1. j \in Job /\ j.pc = "sweep" /\ j.todo \subseteq Id
  BY DEF IInv, JobsOK, JobOK, Sweep, SweepFails, Is
<1>2. PICK i \in j.todo : \E ids \in SUBSET {i} :
        /\ job' = [job EXCEPT ![p] = k(i, ids)] /\ (Sweep(p) => ids = {i})
        /\ files' \in {files, [files EXCEPT ![i] = Empty]}
  <2>1. CASE Sweep(p)
    <3>1. PICK i \in j.todo : files' = [files EXCEPT ![i] = Empty]
                              /\ job' = [job EXCEPT ![p] = [j EXCEPT !.todo = @ \ {i}, !.removed = @ \cup {i}]]
      BY <2>1 DEF Sweep, Go
    <3>2. job' = [job EXCEPT ![p] = k(i, {i})] /\ {i} \in SUBSET {i}
      BY <3>1
    <3> HIDE DEF k
    <3>3. QED
      BY <3>1, <3>2
  <2>2. CASE SweepFails(p)
    <3>1. PICK i \in j.todo : /\ files' \in {files, [files EXCEPT ![i] = Empty]}
                              /\ job' = [job EXCEPT ![p].todo = @ \ {i}]
      BY <2>2 DEF SweepFails
    <3>2. ~Sweep(p)
      <4>1. deaths' = deaths + 1 /\ deaths \in Nat
        BY <2>2 DEF SweepFails, IInv, TypeOK
      <4>2. Sweep(p) => deaths' = deaths
        BY DEF Sweep, Go
      <4>3. QED
        BY <4>1, <4>2
    <3>3. job' = [job EXCEPT ![p] = [j EXCEPT !.todo = @ \ {i}]]
      BY <3>1
    <3>4. [j EXCEPT !.todo = @ \ {i}] = k(i, {})
      BY <1>1 DEF Job
    <3>5. job' = [job EXCEPT ![p] = k(i, {})] /\ {} \in SUBSET {i}
      BY <3>3, <3>4
    <3> HIDE DEF k
    <3>6. QED
      BY <3>1, <3>2, <3>5
  <2>3. QED
    BY <2>1, <2>2
<1>3. PICK ids \in SUBSET {i} : job' = [job EXCEPT ![p] = k(i, ids)] /\ (Sweep(p) => ids = {i})
  BY <1>2
<1>4. i \in Id
  BY <1>1
<1>5. /\ k(i, ids) \in Job /\ Same(k(i, ids), j) /\ k(i, ids).pc = "sweep" /\ k(i, ids).st = j.st
      /\ k(i, ids).etag = j.etag /\ k(i, ids).promotedTo = j.promotedTo
      /\ k(i, ids).todo = j.todo \ {i} /\ k(i, ids).removed = j.removed \cup ids
  BY <1>1, <1>4 DEF Job, Label, Same
<1> HIDE DEF k
<1>6. QED
  BY <1>2, <1>3, <1>4, <1>5

LEMMA SweptDoes ==
  ASSUME IInv, NEW p \in Proc, Swept(p)
  PROVE  \E k \in Job :
           /\ job' = [job EXCEPT ![p] = k]
           /\ Saved(k, job[p], "idle", None, job[p].removed)
           /\ k.st = [job[p].st EXCEPT !.deploys = Without(@, job[p].removed)]
<1> DEFINE j == job[p]
           deploys == Without(j.st.deploys, j.removed)
           st == [j.st EXCEPT !.deploys = deploys]
           k == Saving([j EXCEPT !.st = st], "idle", None, j.removed)
<1>1. j \in Job /\ j.st.deploys \in SUBSET DeployRecord /\ j.removed \in SUBSET Id
  BY JobTyped
<1>2. deploys \in SUBSET DeployRecord
  BY <1>1 DEF Without
<1>3. [j EXCEPT !.st.deploys = deploys] = [j EXCEPT !.st = st] /\ st \in RemoteState
  BY <1>1, <1>2, CopyIs
<1>4. job' = [job EXCEPT ![p] = Saving([j EXCEPT !.st.deploys = deploys], "idle", None, j.removed)]
  BY DEF Swept, Go
<1>5. job' = [job EXCEPT ![p] = k]
  BY <1>3, <1>4
<1>6. st = [j.st EXCEPT !.deploys = Without(@, j.removed)]
  OBVIOUS
<1> HIDE DEF st
<1>7. Saved(k, j, "idle", None, j.removed) /\ k.st = st
  BY <1>1, <1>3, SavingIs
<1> HIDE DEF k
<1>8. k \in Job
  BY <1>7 DEF Saved, Same
<1>9. QED
  BY <1>5, <1>6, <1>7, <1>8

LEMMA ClearDoes ==
  ASSUME IInv, NEW p \in Proc, Clear(p)
  PROVE  \E k \in Job :
           /\ job' = [job EXCEPT ![p] = k] /\ Same(k, job[p])
           /\ k.pc = "upload" /\ k.st = job[p].st /\ k.etag = job[p].etag /\ k.todo = job[p].todo
           /\ k.removed = job[p].removed /\ k.promotedTo = job[p].promotedTo
<1> DEFINE k == [job[p] EXCEPT !.pc = "upload"]
<1>1. job[p] \in Job
  BY JobTyped
<1>2. /\ k \in Job /\ Same(k, job[p])
      /\ k.pc = "upload" /\ k.st = job[p].st /\ k.etag = job[p].etag /\ k.todo = job[p].todo
      /\ k.removed = job[p].removed /\ k.promotedTo = job[p].promotedTo
  BY <1>1 DEF Job, Label, Same
<1>3. job' = [job EXCEPT ![p] = k]
  BY DEF Clear, Go
<1> HIDE DEF k
<1>4. QED
  BY <1>2, <1>3

LEMMA UploadDoes ==
  ASSUME IInv, NEW p \in Proc, Upload(p)
  PROVE  \E k \in Job, path \in job[p].todo :
           /\ job' = [job EXCEPT ![p] = k] /\ Same(k, job[p])
           /\ k.pc = "upload" /\ k.st = job[p].st /\ k.etag = job[p].etag /\ k.todo = job[p].todo \ {path}
           /\ k.removed = job[p].removed /\ k.promotedTo = job[p].promotedTo
           /\ files' = [files EXCEPT ![job[p].id][path] = job[p].hash]
<1> DEFINE k(path) == [job[p] EXCEPT !.todo = job[p].todo \ {path}]
<1>1. job[p] \in Job /\ job[p].pc = "upload"
  BY JobTyped DEF Upload
<1>2. PICK path \in job[p].todo : /\ job' = [job EXCEPT ![p] = k(path)]
                                  /\ files' = [files EXCEPT ![job[p].id][path] = job[p].hash]
  BY DEF Upload, Go
<1>3. /\ k(path) \in Job /\ Same(k(path), job[p])
      /\ k(path).pc = "upload" /\ k(path).st = job[p].st /\ k(path).etag = job[p].etag
      /\ k(path).todo = job[p].todo \ {path}
      /\ k(path).removed = job[p].removed /\ k(path).promotedTo = job[p].promotedTo
  BY <1>1 DEF Job, Label, Same
<1> HIDE DEF k
<1>4. QED
  BY <1>2, <1>3

LEMMA RecordDoes ==
  ASSUME IInv, NEW p \in Proc, Record(p)
  PROVE  \E k \in Job, d \in DeployRecord :
           /\ job' = [job EXCEPT ![p] = k] /\ Saved(k, job[p], "promote", None, {})
           /\ d.id = job[p].id /\ d.hash = job[p].hash
           /\ k.st = [job[p].st EXCEPT !.deploys = Without(@, {job[p].id}) \cup {d}]
<1> DEFINE j == job[p]
           d == [id |-> j.id, hash |-> j.hash, spa |-> j.spa, createdAt |-> clock + 1]
           deploys == Without(j.st.deploys, {j.id}) \cup {d}
           st == [j.st EXCEPT !.deploys = deploys]
           k == Saving([j EXCEPT !.st = st], "promote", None, {})
<1>1. /\ j \in Job /\ j.st.deploys \in SUBSET DeployRecord /\ j.id \in Id /\ j.hash \in Hash /\ j.spa \in BOOLEAN
  BY JobTyped DEF IInv, JobsOK, JobOK, Targeted, Record, Job
<1>2. d \in DeployRecord /\ d.id = j.id /\ d.hash = j.hash
  BY <1>1 DEF DeployRecord, IInv, TypeOK
<1>3. job' = [job EXCEPT ![p] = Saving([j EXCEPT !.st.deploys = deploys], "promote", None, {})]
  BY DEF Record, Go
<1> HIDE DEF d
<1>4. deploys \in SUBSET DeployRecord
  BY <1>1, <1>2 DEF Without
<1>5. [j EXCEPT !.st.deploys = deploys] = [j EXCEPT !.st = st] /\ st \in RemoteState
  BY <1>1, <1>4, CopyIs
<1>6. job' = [job EXCEPT ![p] = k]
  BY <1>3, <1>5
<1>7. st = [j.st EXCEPT !.deploys = Without(@, {j.id}) \cup {d}]
  OBVIOUS
<1> HIDE DEF st
<1>8. Saved(k, j, "promote", None, {}) /\ k.st = st
  BY <1>1, <1>5, SavingIs
<1> HIDE DEF k
<1>9. k \in Job
  BY <1>8 DEF Saved, Same
<1>10. QED
  BY <1>2, <1>6, <1>7, <1>8, <1>9

LEMMA PromoteDoes ==
  ASSUME IInv, NEW p \in Proc, Promote(p) \/ Retarget(p)
  PROVE  \E k \in Job :
           /\ job' = [job EXCEPT ![p] = k] /\ Same(k, job[p])
           /\ k.pc = IF job[p].pc = "promote" THEN "rule" ELSE "missing"
           /\ k.zone = IF job[p].pc = "promote" THEN notFound ELSE job[p].zone
           /\ k.st = job[p].st /\ k.etag = job[p].etag
           /\ k.removed = job[p].removed /\ k.promotedTo = job[p].promotedTo
<1>1. job[p] \in Job
  BY JobTyped
<1>2. CASE Promote(p)
  <2> DEFINE k == [job[p] EXCEPT !.zone = notFound, !.pc = "rule"]
  <2>1. notFound \in Id \cup {None} /\ job[p].pc = "promote"
    BY <1>2 DEF Promote, IInv, TypeOK
  <2>2. /\ k \in Job /\ Same(k, job[p]) /\ k.pc = "rule" /\ k.zone = notFound
        /\ k.st = job[p].st /\ k.etag = job[p].etag
        /\ k.removed = job[p].removed /\ k.promotedTo = job[p].promotedTo
    BY <1>1, <2>1 DEF Job, Label, Same
  <2>3. job' = [job EXCEPT ![p] = k]
    BY <1>2 DEF Promote, Go
  <2> HIDE DEF k
  <2>4. QED
    BY <2>1, <2>2, <2>3
<1>3. CASE Retarget(p)
  <2> DEFINE k == [job[p] EXCEPT !.pc = "missing"]
  <2>1. job[p].pc = "rule"
    BY <1>3 DEF Retarget
  <2>2. /\ k \in Job /\ Same(k, job[p]) /\ k.pc = "missing" /\ k.zone = job[p].zone
        /\ k.st = job[p].st /\ k.etag = job[p].etag
        /\ k.removed = job[p].removed /\ k.promotedTo = job[p].promotedTo
    BY <1>1, <2>1 DEF Job, Label, Same
  <2>3. job' = [job EXCEPT ![p] = k]
    BY <1>3 DEF Retarget, Go
  <2> HIDE DEF k
  <2>4. QED
    BY <2>1, <2>2, <2>3
<1>4. QED
  BY <1>2, <1>3

LEMMA NotFoundDoes ==
  ASSUME IInv, NEW p \in Proc, SetNotFound(p)
  PROVE  \/ job[p].unchanged /\ job' = [job EXCEPT ![p] = Idle]
         \/ \E k \in Job :
              /\ job' = [job EXCEPT ![p] = k] /\ Saved(k, job[p], "idle", job[p].id, {})
              /\ k.st = MarkCurrent(job[p].st, job[p].id)
<1> DEFINE j == job[p]
           st == MarkCurrent(j.st, j.id)
           k == Saving([j EXCEPT !.st = st], "idle", j.id, {})
<1>1. j \in Job /\ j.st \in RemoteState /\ j.id \in Id \cup {None}
  BY JobTyped
<1>2. st \in RemoteState
  BY <1>1, MarkTyped
<1>3. \/ j.unchanged /\ job' = [job EXCEPT ![p] = Idle]
      \/ job' = [job EXCEPT ![p] = k]
  BY DEF SetNotFound, Go
<1> HIDE DEF st
<1>4. Saved(k, j, "idle", j.id, {}) /\ k.st = st
  BY <1>1, <1>2, SavingIs
<1> HIDE DEF k
<1>5. k \in Job
  BY <1>4 DEF Saved, Same
<1>6. QED
  BY <1>3, <1>4, <1>5 DEF st

LEMMA CheckDoes ==
  ASSUME IInv, NEW p \in Proc, Check(p)
  PROVE  \E k \in Job :
           /\ job' = [job EXCEPT ![p] = k] /\ Same(k, job[p])
           /\ k.pc = "put" /\ k.etag = job[p].etag /\ k.then = job[p].then /\ k.todo = job[p].todo
           /\ k.removed = job[p].removed /\ k.promotedTo = job[p].promotedTo
           /\ k.st = IF state = job[p].etag THEN job[p].st
                     ELSE Merged(job[p].st, state, job[p].promotedTo, job[p].removed)
<1> DEFINE j == job[p]
           st == IF state = j.etag THEN j.st ELSE Merged(j.st, state, j.promotedTo, j.removed)
           k == [j EXCEPT !.pc = "put", !.st = st]
<1>1. /\ j \in Job /\ j.st \in RemoteState /\ state \in RemoteState /\ j.promotedTo \in Id \cup {None}
      /\ j.removed \in SUBSET Id /\ OncePerId(state.deploys) /\ OncePerId(j.st.deploys)
  BY JobTyped
<1>2. Merged(j.st, state, j.promotedTo, j.removed) \in RemoteState
  BY <1>1, MergeKeeps
<1>3. st \in RemoteState
  BY <1>1, <1>2
<1>4. job' = [job EXCEPT ![p] = k]
  BY DEF Check, Go
<1> HIDE DEF st
<1>5. /\ k \in Job /\ Same(k, j) /\ k.pc = "put" /\ k.etag = j.etag /\ k.then = j.then /\ k.todo = j.todo
      /\ k.removed = j.removed /\ k.promotedTo = j.promotedTo /\ k.st = st
  BY <1>1, <1>3 DEF Job, Label, Same
<1> HIDE DEF k
<1>6. QED
  BY <1>4, <1>5 DEF st

LEMMA PutDoes ==
  ASSUME IInv, NEW p \in Proc, Put(p)
  PROVE  /\ state' = job[p].st
         /\ \/ job[p].then = "idle" /\ job' = [job EXCEPT ![p] = Idle]
            \/ \E k \in Job :
                 /\ job' = [job EXCEPT ![p] = k] /\ Same(k, job[p])
                 /\ k.pc = job[p].then /\ k.pc \in {"clear", "promote"}
                 /\ k.st = job[p].st /\ k.etag = job[p].st /\ k.todo = job[p].todo
                 /\ k.removed = {} /\ k.promotedTo = None
<1> DEFINE j == job[p]
           k == [j EXCEPT !.pc = j.then, !.etag = j.st, !.removed = {}, !.promotedTo = None]
<1>1. j \in Job /\ j.st \in RemoteState
  BY JobTyped
<1>2. /\ state' = j.st
      /\ \/ j.then = "idle" /\ job' = [job EXCEPT ![p] = Idle]
         \/ j.then # "idle" /\ job' = [job EXCEPT ![p] = k]
  BY DEF Put, Go
<1>3. j.then \in {"idle", "clear", "promote"}
  BY <1>1 DEF Job
<1>4. /\ k \in Job /\ Same(k, j) /\ k.pc = j.then /\ k.st = j.st /\ k.etag = j.st /\ k.todo = j.todo
      /\ k.removed = {} /\ k.promotedTo = None
  BY <1>1, <1>3 DEF Job, Label, Same
<1> HIDE DEF k
<1>5. QED
  BY <1>2, <1>3, <1>4

-----------------------------------------------------------------------------
(* What the copies of the state say, when what may overlap only adds to the site. *)

(* IDs of what overlaps name their contents, so that nothing is replaced or removed beside another command. *)
Additive ==
  \A r \in Overlap :
    /\ r.cmd \in {"deploy", "publish"}
    /\ r.cmd = "deploy" => \A s \in Requests : s.cmd = "deploy" /\ s.id = r.id => s.hash = r.hash

(* Every record is of a deploy somebody asked for. *)
Asked(deploys) == \A d \in deploys : \E r \in Requests : r.cmd = "deploy" /\ r.id = d.id /\ r.hash = d.hash

Pointed(st) == {st.current, st.previous} \subseteq Ids(st.deploys) \cup {None}

Writing(j) == j.pc \in {"check", "put"}

Filling(j) == j.pc \in {"clear", "upload"}

Replacing(j) ==
  \/ j.pc = "reread" /\ j.cmd.cmd = "deploy"
  \/ Writing(j) /\ j.then = "clear"

Promoting(j) ==
  \/ j.pc \in {"promote", "rule", "missing"}
  \/ Writing(j) /\ j.then = "promote"

(* A command that will write files writes those it was asked for, and has not begun before the prefix is clear. *)
Deploying(j) ==
  Replacing(j) \/ Filling(j) =>
    /\ j.cmd.cmd = "deploy" /\ j.id = j.cmd.id /\ j.hash = j.cmd.hash
    /\ j.todo \subseteq PathsOf[j.hash] /\ (j.pc # "upload" => j.todo = PathsOf[j.hash])

(* No record of other bytes has the ID that is written to. *)
Free(j) ==
  Filling(j) => \A d \in j.st.deploys : d.id = j.id => d.hash = j.hash /\ (j.pc = "upload" \/ j.cmd \in Overlap)

(* What removes records runs alone, leaves what the state points to, and has forgotten them before it writes. *)
Removing(j) ==
  /\ j.removed # {} \/ j.pc = "sweep" \/ Replacing(j) => j.cmd \notin Overlap
  /\ j.pc = "sweep" => \A i \in j.todo \cup j.removed : ~Blocked(j.st, i)
  /\ Writing(j) => Ids(j.st.deploys) \cap j.removed = {}
  /\ Writing(j) /\ j.then = "clear" => j.removed = {j.id}

(* What is promoted is recorded, and the write that tells so says it is current. *)
Telling(j) ==
  /\ Promoting(j) => j.id \in Ids(j.st.deploys)
  /\ j.promotedTo # None => /\ Writing(j) /\ j.then = "idle" /\ j.removed = {}
                            /\ j.promotedTo = j.id /\ j.id \in Ids(j.st.deploys) /\ j.st.current = j.id

Sound(j) ==
  /\ j.pc = "idle" => j = Idle
  /\ j.pc # "idle" => j.cmd \in Requests
  /\ Asked(j.st.deploys) /\ Pointed(j.st)
  /\ ~Writing(j) => j.st = j.etag
  /\ Deploying(j) /\ Free(j) /\ Removing(j) /\ Telling(j)

AllSound == \A p \in Proc : Sound(job[p])

Lone(j) == j.pc # "idle" /\ j.cmd \notin Overlap

(* A command that may not overlap runs alone, so the file is what it read or wrote last. *)
LoneOnes ==
  \A p \in Proc : Lone(job[p]) => job[p].etag = state /\ \A q \in Proc : q # p => job[q].pc = "idle"

AInv == Asked(state.deploys) /\ Pointed(state) /\ LoneOnes /\ AllSound

LEMMA SoundIdle == Sound(Idle) /\ Idle.pc = "idle"
BY DEF Sound, Idle, NoDeploys, Asked, Pointed, Writing, Deploying, Free, Removing, Telling, Replacing, Filling,
       Promoting

(* A step of a command that leaves the state file alone. *)
LEMMA GoSound ==
  ASSUME IInv, AInv, NEW p \in Proc, NEW k, Sound(k), job[p].pc # "idle",
         job' = [job EXCEPT ![p] = k], state' = state,
         k.pc = "idle" \/ (k.cmd = job[p].cmd /\ k.etag \in {job[p].etag, state})
  PROVE  AInv'
<1>1. job \in [Proc -> Job]
  BY DEF IInv, TypeOK
<1>2. \A q \in Proc : job'[q] = IF q = p THEN k ELSE job[q]
  BY <1>1
<1>3. AllSound'
  BY <1>2 DEF AInv, AllSound
<1>4. LoneOnes'
  <2>1. ASSUME NEW q \in Proc, Lone(job'[q])
        PROVE  job'[q].etag = state' /\ \A o \in Proc : o # q => job'[o].pc = "idle"
    <3>1. CASE q = p
      BY <1>2, <2>1, <3>1 DEF AInv, LoneOnes, Lone
    <3>2. CASE q # p
      BY <1>2, <2>1, <3>2 DEF AInv, LoneOnes, Lone
    <3>3. QED
      BY <3>1, <3>2
  <2>2. QED
    BY <2>1 DEF LoneOnes
<1>5. QED
  BY <1>3, <1>4 DEF AInv

(* A command that starts on what it read. *)
LEMMA StartSound ==
  ASSUME IInv, AInv, NEW p \in Proc, NEW r \in Requests, NEW k, Sound(k), Fresh(k, r), k.pc # "idle",
         job[p].pc = "idle", MayStart(r), job' = [job EXCEPT ![p] = k], state' = state
  PROVE  AInv'
<1>1. job \in [Proc -> Job]
  BY DEF IInv, TypeOK
<1>2. \A q \in Proc : job'[q] = IF q = p THEN k ELSE job[q]
  BY <1>1
<1>3. AllSound'
  BY <1>2 DEF AInv, AllSound
<1>4. k.cmd = r /\ k.etag = state
  BY DEF Fresh
<1>5. /\ r \notin Overlap => \A q \in Proc : job[q].pc = "idle"
      /\ \A q \in Proc : ~Lone(job[q]) \/ r \notin Overlap
  BY DEF MayStart, Running, Lone
<1>6. LoneOnes'
  <2>1. ASSUME NEW q \in Proc, Lone(job'[q])
        PROVE  job'[q].etag = state' /\ \A o \in Proc : o # q => job'[o].pc = "idle"
    <3>1. CASE q = p
      BY <1>2, <1>4, <1>5, <2>1, <3>1 DEF Lone
    <3>2. CASE q # p
      BY <1>2, <1>5, <2>1, <3>2 DEF Lone
    <3>3. QED
      BY <3>1, <3>2
  <2>2. QED
    BY <2>1 DEF LoneOnes
<1>7. QED
  BY <1>3, <1>6 DEF AInv

(* When a command starts. *)
LEMMA Begun ==
  ASSUME NEW p \in Proc, NEW r \in Requests,
         \/ DeployNew(p, r) \/ DeployReplacing(p, r) \/ DeployUploaded(p, r)
         \/ Publish(p, r) \/ Delete(p, r) \/ Prune(p, r)
  PROVE  /\ job[p].pc = "idle" /\ MayStart(r)
         /\ UNCHANGED <<state, files, live, notFound, clock, deaths>>
BY DEF DeployNew, DeployReplacing, DeployUploaded, Publish, Delete, Prune, Begin

LEMMA DeploySound ==
  ASSUME Additive, IInv, AInv, NEW p \in Proc, NEW r \in Requests, DeployNew(p, r) \/ DeployReplacing(p, r)
  PROVE  AInv'
<1>1. PICK k \in Job :
        /\ job' = [job EXCEPT ![p] = k] /\ Fresh(k, r)
        /\ DeployReplacing(p, r) => k.pc = "reread"
        /\ DeployNew(p, r) => k.pc = IF r.id \in Ids(state.deploys) THEN "upload" ELSE "clear"
        /\ r.cmd = "deploy" /\ k.id = r.id /\ k.hash = r.hash /\ k.st = state /\ k.unchanged = FALSE
        /\ k.todo = PathsOf[r.hash]
  BY DeployDoes
<1>2. k.cmd = r /\ k.etag = state /\ k.removed = {} /\ k.promotedTo = None
  BY <1>1 DEF Fresh
<1>3. k.pc \in {"clear", "upload", "reread"}
  BY <1>1
<1>4. Asked(k.st.deploys) /\ Pointed(k.st)
  BY <1>1 DEF AInv
<1>5. k.pc = "reread" => r \notin Overlap
  <2>1. SUFFICES ASSUME k.pc = "reread", r \in Overlap PROVE FALSE
    OBVIOUS
  <2>2. DeployReplacing(p, r)
    BY <1>1, <2>1
  <2>3. PICK d \in state.deploys : d.id = r.id /\ d.hash # r.hash
    BY <2>2 DEF DeployReplacing, Taken
  <2>4. PICK s \in Requests : s.cmd = "deploy" /\ s.id = d.id /\ s.hash = d.hash
    BY <2>3 DEF AInv, Asked
  <2>5. QED
    BY <1>1, <2>1, <2>3, <2>4 DEF Additive
<1>6. Free(k)
  <2>1. SUFFICES ASSUME Filling(k), NEW d \in state.deploys, d.id = r.id
                 PROVE  d.hash = r.hash /\ k.pc = "upload"
    BY <1>1 DEF Free
  <2>2. DeployNew(p, r)
    BY <1>1, <2>1 DEF Filling
  <2>3. QED
    BY <1>1, <2>1, <2>2 DEF DeployNew, Taken, Ids
<1>7. Deploying(k)
  BY <1>1, <1>2 DEF Deploying
<1>8. Removing(k) /\ Telling(k) /\ ~Writing(k)
  BY <1>2, <1>3, <1>5 DEF Removing, Telling, Replacing, Writing, Promoting
<1>9. Sound(k)
  BY <1>1, <1>2, <1>3, <1>4, <1>6, <1>7, <1>8 DEF Sound
<1>10. QED
  BY <1>1, <1>3, <1>9, Begun, StartSound

LEMMA UploadedSound ==
  ASSUME Additive, IInv, AInv, NEW p \in Proc, NEW r \in Requests, DeployUploaded(p, r)
  PROVE  AInv'
<1>1. PICK k \in Job, d \in state.deploys :
        /\ job' = [job EXCEPT ![p] = k] /\ Fresh(k, r)
        /\ k.id = d.id /\ (k.unchanged => state.current = d.id)
        /\ \/ k.pc = "promote" /\ k.st = state
           \/ /\ k.pc = "check" /\ k.then = "promote"
              /\ k.st = [state EXCEPT !.deploys = (state.deploys \ {d}) \cup {[d EXCEPT !.spa = r.spa]}]
  BY UploadedDoes
<1>2. k.cmd = r /\ k.etag = state /\ k.removed = {} /\ k.promotedTo = None
  BY <1>1 DEF Fresh
<1>3. state \in RemoteState /\ d \in DeployRecord
  BY <1>1 DEF IInv, TypeOK, RemoteState
<1> DEFINE d2 == [d EXCEPT !.spa = r.spa]
<1>4. d2.id = d.id /\ d2.hash = d.hash
  BY <1>3 DEF DeployRecord
<1> HIDE DEF d2
<1>5. /\ Ids(k.st.deploys) = Ids(state.deploys) /\ k.st.current = state.current /\ k.st.previous = state.previous
      /\ Asked(k.st.deploys)
  <2>1. CASE k.st = state
    BY <2>1 DEF AInv
  <2>2. CASE k.st = [state EXCEPT !.deploys = (state.deploys \ {d}) \cup {d2}]
    <3>1. /\ k.st.deploys = (state.deploys \ {d}) \cup {d2}
          /\ k.st.current = state.current /\ k.st.previous = state.previous
      BY <1>3, <2>2 DEF RemoteState
    <3>2. Ids(k.st.deploys) = Ids(state.deploys)
      BY <1>1, <1>4, <3>1 DEF Ids
    <3>3. Asked(k.st.deploys)
      BY <1>1, <1>4, <3>1 DEF AInv, Asked
    <3>4. QED
      BY <3>1, <3>2, <3>3
  <2>3. QED
    BY <1>1, <2>1, <2>2 DEF d2
<1>6. Pointed(k.st)
  BY <1>5 DEF AInv, Pointed
<1>7. k.id \in Ids(k.st.deploys)
  BY <1>1, <1>5 DEF Ids
<1>8. Deploying(k) /\ Free(k) /\ Removing(k) /\ Telling(k)
  BY <1>1, <1>2, <1>7 DEF Deploying, Free, Removing, Telling, Replacing, Filling, Writing
<1>9. Sound(k)
  BY <1>1, <1>2, <1>5, <1>6, <1>8 DEF Sound, Writing
<1>10. k.pc # "idle"
  BY <1>1
<1>11. QED
  BY <1>1, <1>9, <1>10, Begun, StartSound

LEMMA RereadersSound ==
  ASSUME Additive, IInv, AInv, NEW p \in Proc, NEW r \in Requests, Publish(p, r) \/ Delete(p, r) \/ Prune(p, r)
  PROVE  AInv'
<1>1. PICK k \in Job :
        /\ job' = [job EXCEPT ![p] = k] /\ Fresh(k, r)
        /\ k.pc = "reread" /\ k.st = state /\ k.unchanged = FALSE
        /\ r.cmd # "deploy"
  BY RereadersDo
<1>2. k.cmd = r /\ k.etag = state /\ k.removed = {} /\ k.promotedTo = None
  BY <1>1 DEF Fresh
<1>3. Deploying(k) /\ Free(k) /\ Removing(k) /\ Telling(k)
  BY <1>1, <1>2 DEF Deploying, Free, Removing, Telling, Replacing, Filling, Writing, Promoting
<1>4. Sound(k)
  BY <1>1, <1>2, <1>3 DEF Sound, Writing, AInv
<1>5. QED
  BY <1>1, <1>4, Begun, StartSound

(* A command that removes or replaces has read the state last, and nobody wrote it since. *)
LEMMA LoneHas ==
  ASSUME AInv, NEW p \in Proc, job[p].pc # "idle", job[p].cmd \notin Overlap
  PROVE  /\ job[p].etag = state /\ (~Writing(job[p]) => job[p].st = state)
         /\ \A q \in Proc : q # p => job[q].pc = "idle"
BY DEF AInv, LoneOnes, Lone, AllSound, Sound

LEMMA RereadReplacingSound ==
  ASSUME IInv, AInv, NEW p \in Proc, RereadReplacing(p)
  PROVE  AInv'
<1> DEFINE j == job[p]
<1>1. j.pc = "reread" /\ j.cmd.cmd = "deploy" /\ state' = state /\ Sound(j)
  BY DEF RereadReplacing, Is, AInv, AllSound
<1>2. CASE job' = [job EXCEPT ![p] = Idle]
  BY <1>1, <1>2, SoundIdle, GoSound
<1>3. CASE ~Blocked(state, j.id)
           /\ \E k \in Job : /\ job' = [job EXCEPT ![p] = k]
                             /\ Saved(k, j, "clear", None, {j.id})
                             /\ k.st = [j.st EXCEPT !.deploys = Without(@, {j.id})]
  <2>1. PICK k \in Job : /\ job' = [job EXCEPT ![p] = k]
                         /\ Saved(k, j, "clear", None, {j.id})
                         /\ k.st = [j.st EXCEPT !.deploys = Without(@, {j.id})]
    BY <1>3
  <2>2. /\ k.cmd = j.cmd /\ k.id = j.id /\ k.hash = j.hash /\ k.pc = "check" /\ k.then = "clear"
        /\ k.promotedTo = None /\ k.removed = {j.id} /\ k.etag = j.etag /\ k.todo = j.todo
    BY <2>1 DEF Saved, Same
  <2>3. j.cmd \notin Overlap /\ j.cmd \in Requests
    BY <1>1 DEF Sound, Removing, Replacing
  <2>4. j.st = state /\ state \in RemoteState
    BY <1>1, <2>3, LoneHas DEF Writing, IInv, TypeOK
  <2>5. /\ k.st.deploys = Without(state.deploys, {j.id})
        /\ k.st.current = state.current /\ k.st.previous = state.previous
    BY <2>1, <2>4 DEF RemoteState
  <2>6. Asked(k.st.deploys)
    BY <2>5 DEF AInv, Asked, Without
  <2>7. Pointed(k.st)
    BY <1>3, <2>5 DEF AInv, Pointed, Without, Ids, Blocked
  <2>8. Ids(k.st.deploys) \cap {j.id} = {}
    BY <2>5 DEF Ids, Without
  <2>9. Deploying(k)
    BY <1>1, <2>2 DEF Sound, Deploying, Replacing
  <2>10. Free(k) /\ Removing(k) /\ Telling(k) /\ Writing(k)
    BY <2>2, <2>3, <2>8 DEF Free, Filling, Removing, Telling, Promoting, Writing
  <2>11. Sound(k)
    BY <2>2, <2>3, <2>6, <2>7, <2>9, <2>10 DEF Sound
  <2>12. QED
    BY <1>1, <2>1, <2>2, <2>11, GoSound
<1>4. QED
  BY <1>2, <1>3, RereadReplacingDoes

LEMMA RereadPublishingSound ==
  ASSUME IInv, AInv, NEW p \in Proc, RereadPublishing(p)
  PROVE  AInv'
<1> DEFINE j == job[p]
<1>1. j.pc = "reread" /\ j.cmd.cmd = "publish" /\ state' = state /\ Sound(j)
  BY DEF RereadPublishing, Is, AInv, AllSound
<1>2. j.removed = {} /\ j.promotedTo = None /\ j.cmd \in Requests
  BY <1>1 DEF IInv, JobsOK, JobOK, Sound, Telling, Writing
<1>3. CASE job' = [job EXCEPT ![p] = Idle]
  BY <1>1, <1>3, SoundIdle, GoSound
<1>4. CASE j.id \in Ids(state.deploys)
           /\ \E k \in Job : /\ job' = [job EXCEPT ![p] = k] /\ Same(k, j)
                             /\ k.pc = "promote" /\ k.st = state /\ k.etag = state
                             /\ k.removed = j.removed /\ k.promotedTo = j.promotedTo
  <2>1. PICK k \in Job : /\ job' = [job EXCEPT ![p] = k] /\ Same(k, j)
                         /\ k.pc = "promote" /\ k.st = state /\ k.etag = state
                         /\ k.removed = j.removed /\ k.promotedTo = j.promotedTo
    BY <1>4
  <2>2. k.cmd = j.cmd /\ k.id = j.id
    BY <2>1 DEF Same
  <2>3. Deploying(k) /\ Free(k) /\ Removing(k) /\ Telling(k)
    BY <1>2, <1>4, <2>1, <2>2 DEF Deploying, Free, Removing, Telling, Replacing, Filling, Writing
  <2>4. Sound(k)
    BY <1>2, <2>1, <2>2, <2>3 DEF Sound, AInv
  <2>5. QED
    BY <1>1, <2>1, <2>2, <2>4, GoSound
<1>5. QED
  BY <1>3, <1>4, RereadPublishingDoes

LEMMA RereadDeletingSound ==
  ASSUME Additive, IInv, AInv, NEW p \in Proc, RereadDeleting(p)
  PROVE  AInv'
<1> DEFINE j == job[p]
<1>1. j.pc = "reread" /\ j.cmd.cmd \in {"delete", "prune"} /\ state' = state /\ Sound(j)
  BY DEF RereadDeleting, Is, AInv, AllSound
<1>2. j.removed = {} /\ j.promotedTo = None /\ j.cmd \in Requests
  BY <1>1 DEF IInv, JobsOK, JobOK, Sound, Telling, Writing
<1>3. CASE job' = [job EXCEPT ![p] = Idle]
  BY <1>1, <1>3, SoundIdle, GoSound
<1>4. CASE \E k \in Job : /\ job' = [job EXCEPT ![p] = k] /\ Same(k, j)
                          /\ k.pc = "sweep" /\ k.st = state /\ k.etag = state
                          /\ k.removed = j.removed /\ k.promotedTo = j.promotedTo
                          /\ \A i \in k.todo : ~Blocked(state, i)
  <2>1. PICK k \in Job : /\ job' = [job EXCEPT ![p] = k] /\ Same(k, j)
                         /\ k.pc = "sweep" /\ k.st = state /\ k.etag = state
                         /\ k.removed = j.removed /\ k.promotedTo = j.promotedTo
                         /\ \A i \in k.todo : ~Blocked(state, i)
    BY <1>4
  <2>2. k.cmd = j.cmd /\ k.id = j.id
    BY <2>1 DEF Same
  <2>3. j.cmd \notin Overlap
    BY <1>1 DEF Additive
  <2>4. Deploying(k) /\ Free(k) /\ Removing(k) /\ Telling(k)
    BY <1>2, <2>1, <2>2, <2>3 DEF Deploying, Free, Removing, Telling, Replacing, Filling, Writing, Promoting
  <2>5. Sound(k)
    BY <1>2, <2>1, <2>2, <2>4 DEF Sound, AInv
  <2>6. QED
    BY <1>1, <2>1, <2>2, <2>5, GoSound
<1>5. QED
  BY <1>3, <1>4, RereadDeletingDoes

LEMMA SweepSound ==
  ASSUME IInv, AInv, NEW p \in Proc, Sweep(p) \/ SweepFails(p)
  PROVE  AInv'
<1> DEFINE j == job[p]
<1>1. j.pc = "sweep" /\ state' = state /\ Sound(j)
  BY DEF Sweep, SweepFails, Is, AInv, AllSound
<1>2. PICK k \in Job, i \in j.todo :
        /\ job' = [job EXCEPT ![p] = k] /\ Same(k, j)
        /\ k.pc = "sweep" /\ k.st = j.st /\ k.etag = j.etag /\ k.promotedTo = j.promotedTo
        /\ k.todo = j.todo \ {i} /\ k.removed \subseteq j.removed \cup {i}
  BY SweepDoes
<1>3. k.cmd = j.cmd /\ k.id = j.id
  BY <1>2 DEF Same
<1>4. Deploying(k) /\ Free(k) /\ Removing(k) /\ Telling(k)
  BY <1>1, <1>2, <1>3 DEF Sound, Deploying, Free, Removing, Telling, Replacing, Filling, Writing, Promoting
<1>5. Sound(k)
  BY <1>1, <1>2, <1>3, <1>4 DEF Sound, Writing
<1>6. QED
  BY <1>1, <1>2, <1>3, <1>5, GoSound

LEMMA SweptSound ==
  ASSUME IInv, AInv, NEW p \in Proc, Swept(p)
  PROVE  AInv'
<1> DEFINE j == job[p]
<1>1. j.pc = "sweep" /\ j.todo = {} /\ state' = state /\ Sound(j)
  BY DEF Swept, AInv, AllSound
<1>2. PICK k \in Job : /\ job' = [job EXCEPT ![p] = k] /\ Saved(k, j, "idle", None, j.removed)
                       /\ k.st = [j.st EXCEPT !.deploys = Without(@, j.removed)]
  BY SweptDoes
<1>3. /\ k.cmd = j.cmd /\ k.pc = "check" /\ k.then = "idle" /\ k.promotedTo = None
      /\ k.removed = j.removed /\ k.etag = j.etag
  BY <1>2 DEF Saved, Same
<1>4. j.cmd \notin Overlap /\ j.cmd \in Requests /\ \A i \in j.removed : ~Blocked(j.st, i)
  BY <1>1 DEF Sound, Removing
<1>5. /\ k.st.deploys = Without(j.st.deploys, j.removed)
      /\ k.st.current = j.st.current /\ k.st.previous = j.st.previous
  BY <1>2, JobTyped DEF RemoteState
<1>6. Asked(k.st.deploys) /\ Ids(k.st.deploys) \cap k.removed = {}
  BY <1>1, <1>3, <1>5 DEF Sound, Asked, Without, Ids
<1>7. Pointed(k.st)
  BY <1>1, <1>4, <1>5 DEF Sound, Pointed, Without, Ids, Blocked
<1>8. Deploying(k) /\ Free(k) /\ Removing(k) /\ Telling(k) /\ Writing(k)
  BY <1>3, <1>4, <1>6 DEF Deploying, Free, Removing, Telling, Replacing, Filling, Writing, Promoting
<1>9. Sound(k)
  BY <1>3, <1>4, <1>6, <1>7, <1>8 DEF Sound
<1>10. QED
  BY <1>1, <1>2, <1>3, <1>9, GoSound

LEMMA FilesSound ==
  ASSUME IInv, AInv, NEW p \in Proc, Clear(p) \/ Upload(p)
  PROVE  AInv'
<1> DEFINE j == job[p]
<1>1. Filling(j) /\ j.pc # "idle" /\ state' = state /\ Sound(j)
  BY DEF Clear, Upload, Filling, AInv, AllSound
<1>2. PICK k \in Job : /\ job' = [job EXCEPT ![p] = k] /\ Same(k, j)
                       /\ k.pc = "upload" /\ k.st = j.st /\ k.etag = j.etag /\ k.todo \subseteq j.todo
                       /\ k.removed = j.removed /\ k.promotedTo = j.promotedTo
  BY ClearDoes, UploadDoes
<1>3. k.cmd = j.cmd /\ k.id = j.id /\ k.hash = j.hash
  BY <1>2 DEF Same
<1>4. Deploying(k) /\ Free(k)
  BY <1>1, <1>2, <1>3 DEF Sound, Deploying, Free, Filling
<1>5. Removing(k) /\ Telling(k)
  BY <1>1, <1>2, <1>3 DEF Sound, Removing, Telling, Replacing, Filling, Writing, Promoting
<1>6. Sound(k)
  BY <1>1, <1>2, <1>3, <1>4, <1>5 DEF Sound, Writing, Filling
<1>7. QED
  BY <1>1, <1>2, <1>3, <1>6, GoSound

LEMMA RecordSound ==
  ASSUME IInv, AInv, NEW p \in Proc, Record(p)
  PROVE  AInv'
<1> DEFINE j == job[p]
<1>1. j.pc = "upload" /\ state' = state /\ Sound(j)
  BY DEF Record, AInv, AllSound
<1>2. PICK k \in Job, d \in DeployRecord :
        /\ job' = [job EXCEPT ![p] = k] /\ Saved(k, j, "promote", None, {})
        /\ d.id = j.id /\ d.hash = j.hash
        /\ k.st = [j.st EXCEPT !.deploys = Without(@, {j.id}) \cup {d}]
  BY RecordDoes
<1>3. /\ k.cmd = j.cmd /\ k.id = j.id /\ k.pc = "check" /\ k.then = "promote" /\ k.promotedTo = None
      /\ k.removed = {} /\ k.etag = j.etag
  BY <1>2 DEF Saved, Same
<1>4. j.cmd \in Requests /\ j.cmd.cmd = "deploy" /\ j.id = j.cmd.id /\ j.hash = j.cmd.hash
  BY <1>1 DEF Sound, Deploying, Filling
<1>5. /\ k.st.deploys = Without(j.st.deploys, {j.id}) \cup {d}
      /\ k.st.current = j.st.current /\ k.st.previous = j.st.previous
  BY <1>2, JobTyped DEF RemoteState
<1>6. Asked(k.st.deploys)
  BY <1>1, <1>2, <1>4, <1>5 DEF Sound, Asked, Without
<1>7. Ids(j.st.deploys) \subseteq Ids(k.st.deploys) /\ j.id \in Ids(k.st.deploys)
  BY <1>2, <1>5 DEF Ids, Without
<1>8. Pointed(k.st)
  BY <1>1, <1>5, <1>7 DEF Sound, Pointed
<1>9. Deploying(k) /\ Free(k) /\ Removing(k) /\ Telling(k) /\ Writing(k)
  BY <1>3, <1>7 DEF Deploying, Free, Removing, Telling, Replacing, Filling, Writing, Promoting
<1>10. Sound(k)
  BY <1>3, <1>4, <1>6, <1>8, <1>9 DEF Sound
<1>11. QED
  BY <1>1, <1>2, <1>3, <1>10, GoSound

LEMMA PromoteSound ==
  ASSUME IInv, AInv, NEW p \in Proc, Promote(p) \/ Retarget(p)
  PROVE  AInv'
<1> DEFINE j == job[p]
<1>1. j.pc \in {"promote", "rule"} /\ state' = state /\ Sound(j)
  BY DEF Promote, Retarget, AInv, AllSound
<1>2. PICK k \in Job :
        /\ job' = [job EXCEPT ![p] = k] /\ Same(k, j)
        /\ k.pc \in {"rule", "missing"}
        /\ k.st = j.st /\ k.etag = j.etag /\ k.removed = j.removed /\ k.promotedTo = j.promotedTo
  BY PromoteDoes
<1>3. k.cmd = j.cmd /\ k.id = j.id
  BY <1>2 DEF Same
<1>4. Deploying(k) /\ Free(k) /\ Removing(k) /\ Telling(k)
  BY <1>1, <1>2, <1>3 DEF Sound, Deploying, Free, Removing, Telling, Replacing, Filling, Writing, Promoting
<1>5. Sound(k)
  BY <1>1, <1>2, <1>3, <1>4 DEF Sound, Writing
<1>6. QED
  BY <1>1, <1>2, <1>3, <1>5, GoSound

LEMMA NotFoundSound ==
  ASSUME IInv, AInv, NEW p \in Proc, SetNotFound(p)
  PROVE  AInv'
<1> DEFINE j == job[p]
<1>1. j.pc = "missing" /\ state' = state /\ Sound(j)
  BY DEF SetNotFound, AInv, AllSound
<1>2. CASE job' = [job EXCEPT ![p] = Idle]
  BY <1>1, <1>2, SoundIdle, GoSound
<1>3. CASE \E k \in Job : /\ job' = [job EXCEPT ![p] = k] /\ Saved(k, j, "idle", j.id, {})
                          /\ k.st = MarkCurrent(j.st, j.id)
  <2>1. PICK k \in Job : /\ job' = [job EXCEPT ![p] = k] /\ Saved(k, j, "idle", j.id, {})
                         /\ k.st = MarkCurrent(j.st, j.id)
    BY <1>3
  <2>2. /\ k.cmd = j.cmd /\ k.id = j.id /\ k.pc = "check" /\ k.then = "idle" /\ k.promotedTo = j.id
        /\ k.removed = {} /\ k.etag = j.etag
    BY <2>1 DEF Saved, Same
  <2>3. j.cmd \in Requests /\ j.id \in Ids(j.st.deploys)
    BY <1>1 DEF Sound, Telling, Promoting
  <2>4. /\ k.st.deploys = j.st.deploys /\ k.st.current = j.id
        /\ k.st.previous \in {j.st.current, j.st.previous}
    BY <2>1, JobTyped DEF MarkCurrent, RemoteState
  <2>5. Asked(k.st.deploys) /\ Pointed(k.st)
    BY <1>1, <2>3, <2>4 DEF Sound, Pointed
  <2>6. Deploying(k) /\ Free(k) /\ Removing(k) /\ Telling(k) /\ Writing(k)
    BY <2>2, <2>3, <2>4 DEF Deploying, Free, Removing, Telling, Replacing, Filling, Writing, Promoting
  <2>7. Sound(k)
    BY <2>2, <2>3, <2>5, <2>6 DEF Sound
  <2>8. QED
    BY <1>1, <2>1, <2>2, <2>7, GoSound
<1>4. QED
  BY <1>2, <1>3, NotFoundDoes

(* A merge keeps what both sides say, as a command that removes records never finds the file changed. *)
LEMMA CheckSound ==
  ASSUME IInv, AInv, NEW p \in Proc, Check(p)
  PROVE  AInv'
<1> DEFINE j == job[p]
           m == Merged(j.st, state, j.promotedTo, j.removed)
<1>1. j.pc = "check" /\ state' = state /\ Sound(j)
  BY DEF Check, AInv, AllSound
<1>2. PICK k \in Job :
        /\ job' = [job EXCEPT ![p] = k] /\ Same(k, j)
        /\ k.pc = "put" /\ k.etag = j.etag /\ k.then = j.then /\ k.todo = j.todo
        /\ k.removed = j.removed /\ k.promotedTo = j.promotedTo
        /\ k.st = IF state = j.etag THEN j.st ELSE m
  BY CheckDoes
<1>3. k.cmd = j.cmd /\ k.id = j.id /\ k.hash = j.hash /\ j.cmd \in Requests
  BY <1>1, <1>2 DEF Same, Sound
<1>4. /\ j.st \in RemoteState /\ state \in RemoteState /\ j.promotedTo \in Id \cup {None} /\ j.removed \in SUBSET Id
      /\ OncePerId(j.st.deploys) /\ OncePerId(state.deploys)
  BY JobTyped
<1>5. Ids(j.st.deploys) \subseteq Ids(m.deploys) /\ Ids(state.deploys) \subseteq Ids(m.deploys) \cup j.removed
  BY <1>4, MergeKeeps
<1>6. state # j.etag => j.removed = {}
  BY <1>1, LoneHas DEF Sound, Removing
<1>7. /\ m.deploys = j.st.deploys \cup Without(state.deploys, Ids(j.st.deploys) \cup j.removed)
      /\ m.current = IF j.promotedTo # None THEN j.promotedTo ELSE state.current
      /\ m.previous = IF j.promotedTo # None /\ state.current \notin {None, j.promotedTo}
                      THEN state.current ELSE state.previous
  BY DEF Merged
<1> HIDE DEF m
<1>8. /\ Asked(k.st.deploys) /\ Ids(k.st.deploys) \cap k.removed = {} /\ Ids(j.st.deploys) \subseteq Ids(k.st.deploys)
      /\ Pointed(k.st) /\ (k.promotedTo # None => k.st.current = k.promotedTo)
  <2>1. CASE state = j.etag
    <3>1. k.st = j.st
      BY <1>2, <2>1
    <3>2. Asked(j.st.deploys) /\ Pointed(j.st) /\ Ids(j.st.deploys) \cap j.removed = {}
      BY <1>1 DEF Sound, Removing, Writing
    <3>3. j.promotedTo # None => j.st.current = j.promotedTo
      BY <1>1 DEF Sound, Telling
    <3>4. QED
      BY <1>2, <3>1, <3>2, <3>3
  <2>2. CASE state # j.etag
    <3>1. k.st = m /\ k.removed = {}
      BY <1>2, <1>6, <2>2
    <3>2. Asked(m.deploys)
      BY <1>1, <1>7 DEF Sound, AInv, Asked, Without
    <3>3. j.promotedTo # None => j.promotedTo \in Ids(m.deploys)
      BY <1>1, <1>5 DEF Sound, Telling
    <3>4. {state.current, state.previous} \subseteq Ids(m.deploys) \cup {None}
      BY <1>5, <3>1, <1>2 DEF AInv, Pointed
    <3>5. Pointed(m)
      BY <1>7, <3>3, <3>4 DEF Pointed
    <3>6. QED
      BY <1>2, <1>5, <1>7, <3>1, <3>2, <3>5
  <2>3. QED
    BY <2>1, <2>2
<1>9. Deploying(k) /\ Free(k)
  BY <1>1, <1>2, <1>3 DEF Sound, Deploying, Free, Replacing, Filling, Writing
<1>10. Removing(k)
  BY <1>1, <1>2, <1>3, <1>8 DEF Sound, Removing, Replacing, Writing
<1>11. Telling(k)
  BY <1>1, <1>2, <1>3, <1>8 DEF Sound, Telling, Promoting, Writing
<1>12. Sound(k)
  BY <1>2, <1>3, <1>8, <1>9, <1>10, <1>11 DEF Sound, Writing
<1>13. QED
  BY <1>1, <1>2, <1>3, <1>12, GoSound

LEMMA PutSound ==
  ASSUME IInv, AInv, NEW p \in Proc, Put(p)
  PROVE  AInv'
<1> DEFINE j == job[p]
<1>1. j.pc = "put" /\ Sound(j)
  BY DEF Put, AInv, AllSound
<1>2. state' = j.st
  BY PutDoes
<1>3. \E k \in Job : job' = [job EXCEPT ![p] = k] /\ Sound(k)
                     /\ (k.pc # "idle" => k.cmd = j.cmd /\ k.etag = j.st)
  <2>1. CASE job' = [job EXCEPT ![p] = Idle]
    BY <2>1, SoundIdle, IdleOK DEF JobOK
  <2>2. CASE \E k \in Job :
               /\ job' = [job EXCEPT ![p] = k] /\ Same(k, j)
               /\ k.pc = j.then /\ k.pc \in {"clear", "promote"}
               /\ k.st = j.st /\ k.etag = j.st /\ k.todo = j.todo
               /\ k.removed = {} /\ k.promotedTo = None
    <3>1. PICK k \in Job :
               /\ job' = [job EXCEPT ![p] = k] /\ Same(k, j)
               /\ k.pc = j.then /\ k.pc \in {"clear", "promote"}
               /\ k.st = j.st /\ k.etag = j.st /\ k.todo = j.todo
               /\ k.removed = {} /\ k.promotedTo = None
      BY <2>2
    <3>2. k.cmd = j.cmd /\ k.id = j.id /\ k.hash = j.hash
      BY <3>1 DEF Same
    <3>3. Deploying(k) /\ Free(k)
      BY <1>1, <3>1, <3>2 DEF Sound, Deploying, Free, Removing, Replacing, Filling, Writing, Ids
    <3>4. Removing(k) /\ Telling(k)
      BY <1>1, <3>1, <3>2 DEF Sound, Removing, Telling, Replacing, Writing, Promoting
    <3>5. Sound(k)
      BY <1>1, <3>1, <3>2, <3>3, <3>4 DEF Sound
    <3>6. QED
      BY <3>1, <3>2, <3>5
  <2>3. QED
    BY <2>1, <2>2, PutDoes
<1>4. PICK k \in Job : job' = [job EXCEPT ![p] = k] /\ Sound(k)
                       /\ (k.pc # "idle" => k.cmd = j.cmd /\ k.etag = j.st)
  BY <1>3
<1>5. \A q \in Proc : job'[q] = IF q = p THEN k ELSE job[q]
  BY <1>4 DEF IInv, TypeOK
<1>6. Asked(state'.deploys) /\ Pointed(state')
  BY <1>1, <1>2 DEF Sound
<1>7. AllSound'
  BY <1>4, <1>5 DEF AInv, AllSound
<1>8. LoneOnes'
  <2>1. ASSUME NEW q \in Proc, Lone(job'[q])
        PROVE  job'[q].etag = state' /\ \A o \in Proc : o # q => job'[o].pc = "idle"
    <3>1. CASE q = p
      BY <1>1, <1>2, <1>4, <1>5, <2>1, <3>1 DEF AInv, LoneOnes, Lone
    <3>2. CASE q # p
      BY <1>1, <1>5, <2>1, <3>2 DEF AInv, LoneOnes, Lone
    <3>3. QED
      BY <3>1, <3>2
  <2>2. QED
    BY <2>1 DEF LoneOnes
<1>9. QED
  BY <1>6, <1>7, <1>8 DEF AInv

LEMMA NextSound ==
  ASSUME Additive, IInv, AInv, [Next]_vars
  PROVE  AInv'
<1>1. ASSUME NEW p \in Proc, Start(p) PROVE AInv'
  BY <1>1, DeploySound, UploadedSound, RereadersSound DEF Start
<1>2. ASSUME NEW p \in Proc, Step(p) PROVE AInv'
  BY <1>2, RereadReplacingSound, RereadPublishingSound, RereadDeletingSound, SweepSound, SweptSound, FilesSound,
     RecordSound, PromoteSound, NotFoundSound, CheckSound, PutSound DEF Step
<1>3. ASSUME NEW p \in Proc, Die(p) PROVE AInv'
  BY <1>3, SoundIdle, GoSound DEF Die
<1>4. CASE UNCHANGED vars
  BY <1>4 DEF vars, AInv, AllSound, LoneOnes
<1>5. QED
  BY <1>1, <1>2, <1>3, <1>4 DEF Next

LEMMA InitSound == Init => AInv
<1> SUFFICES ASSUME Init PROVE AInv
  OBVIOUS
<1>1. \A p \in Proc : job[p] = Idle
  BY DEF Init
<1>2. AllSound /\ LoneOnes
  BY <1>1, SoundIdle DEF AllSound, LoneOnes, Lone
<1>3. Asked(state.deploys) /\ Pointed(state)
  BY DEF Init, NoDeploys, Asked, Pointed
<1>4. QED
  BY <1>2, <1>3 DEF AInv

LEMMA SoundAlways ==
  ASSUME Additive
  PROVE  Spec => [](IInv /\ AInv)
<1>1. Init => IInv /\ AInv
  BY InitKept, InitSound
<1>2. IInv /\ AInv /\ [Next]_vars => (IInv /\ AInv)'
  BY NextKeeps, NextSound
<1>3. QED
  BY <1>1, <1>2, PTL DEF Spec

(* However deploys and publishes overlap, and whoever overwrites whom, the current deploy and the rollback target stay *)
(* recorded (deleteBlocker, pruneDeploys, writeRemoteState).                                                           *)
THEOREM TargetsRecorded ==
  ASSUME Additive
  PROVE  Spec => []PointersRecorded
<1>1. AInv => PointersRecorded
  BY DEF AInv, Pointed, PointersRecorded
<1>2. QED
  BY <1>1, SoundAlways, PTL

-----------------------------------------------------------------------------
(* What the records say about the files. *)

Has(deploys, i, h) == \E d \in deploys : d.id = i /\ d.hash = h

(* A command knows deploy i with content h: it has the record, or is filling the prefix. *)
Vouches(j, i, h) ==
  \/ Has(j.st.deploys, i, h)
  \/ j.pc = "upload" /\ j.id = i /\ j.hash = h

Known(i, h) == Has(state.deploys, i, h) \/ \E p \in Proc : Vouches(job[p], i, h)

(* A step tells nobody of a deploy that nobody knew. *)
NoNew == \A i \in Id, h \in Hash : Known(i, h)' => Known(i, h)

LEMMA GoNew ==
  ASSUME IInv, NEW p \in Proc, NEW k, job' = [job EXCEPT ![p] = k],
         state'.deploys \in {state.deploys, job[p].st.deploys},
         \A i \in Id, h \in Hash : Vouches(k, i, h) => Known(i, h)
  PROVE  NoNew
<1>1. \A q \in Proc : job'[q] = IF q = p THEN k ELSE job[q]
  BY DEF IInv, TypeOK
<1>2. SUFFICES ASSUME NEW i \in Id, NEW h \in Hash, Known(i, h)' PROVE Known(i, h)
  BY DEF NoNew
<1>3. CASE Has(state'.deploys, i, h)
  BY <1>3 DEF Known, Vouches
<1>4. CASE \E q \in Proc : Vouches(job'[q], i, h)
  <2>1. PICK q \in Proc : Vouches(job'[q], i, h)
    BY <1>4
  <2>2. Vouches(k, i, h) \/ Vouches(job[q], i, h)
    BY <1>1, <2>1
  <2>3. QED
    BY <2>2 DEF Known
<1>5. QED
  BY <1>2, <1>3, <1>4 DEF Known

(* Records that come from the file or the command's own copy are known. *)
LEMMA OldRecords ==
  ASSUME NEW p \in Proc, NEW k, k.pc # "upload", k.st.deploys \subseteq state.deploys \cup job[p].st.deploys
  PROVE  \A i \in Id, h \in Hash : Vouches(k, i, h) => Known(i, h)
BY DEF Vouches, Known, Has

LEMMA IdleKnows == Idle.pc # "upload" /\ Idle.st.deploys = {}
BY DEF Idle, NoDeploys

LEMMA StartNew ==
  ASSUME IInv, NEW p \in Proc, Start(p)
  PROVE  NoNew
<1>1. PICK r \in Requests :
        \/ DeployNew(p, r) \/ DeployReplacing(p, r) \/ DeployUploaded(p, r)
        \/ Publish(p, r) \/ Delete(p, r) \/ Prune(p, r)
  BY DEF Start
<1>2. state' = state
  BY <1>1, Begun
<1>3. CASE DeployNew(p, r) \/ DeployReplacing(p, r)
  <2>1. PICK k \in Job :
          /\ job' = [job EXCEPT ![p] = k] /\ Fresh(k, r)
          /\ DeployReplacing(p, r) => k.pc = "reread"
          /\ DeployNew(p, r) => k.pc = IF r.id \in Ids(state.deploys) THEN "upload" ELSE "clear"
          /\ r.cmd = "deploy" /\ k.id = r.id /\ k.hash = r.hash /\ k.st = state /\ k.unchanged = FALSE
          /\ k.todo = PathsOf[r.hash]
    BY <1>3, DeployDoes
  <2>2. k.pc = "upload" => Has(state.deploys, r.id, r.hash)
    BY <1>3, <2>1 DEF DeployNew, Taken, Ids, Has
  <2>3. \A i \in Id, h \in Hash : Vouches(k, i, h) => Known(i, h)
    BY <2>1, <2>2 DEF Vouches, Known
  <2>4. QED
    BY <1>2, <2>1, <2>3, GoNew
<1>4. CASE DeployUploaded(p, r)
  <2>1. PICK k \in Job, d \in state.deploys :
          /\ job' = [job EXCEPT ![p] = k] /\ Fresh(k, r)
          /\ k.id = d.id /\ (k.unchanged => state.current = d.id)
          /\ \/ k.pc = "promote" /\ k.st = state
             \/ /\ k.pc = "check" /\ k.then = "promote"
                /\ k.st = [state EXCEPT !.deploys = (state.deploys \ {d}) \cup {[d EXCEPT !.spa = r.spa]}]
    BY <1>4, UploadedDoes
  <2> DEFINE d2 == [d EXCEPT !.spa = r.spa]
  <2>2. d2.id = d.id /\ d2.hash = d.hash
    BY JobTyped DEF DeployRecord
  <2> HIDE DEF d2
  <2>3. k.st.deploys \subseteq state.deploys \cup {d2}
    BY <2>1, JobTyped DEF RemoteState, d2
  <2>4. \A i \in Id, h \in Hash : Vouches(k, i, h) => Known(i, h)
    BY <2>1, <2>2, <2>3 DEF Vouches, Known, Has
  <2>5. QED
    BY <1>2, <2>1, <2>4, GoNew
<1>5. CASE Publish(p, r) \/ Delete(p, r) \/ Prune(p, r)
  <2>1. PICK k \in Job : job' = [job EXCEPT ![p] = k] /\ k.pc = "reread" /\ k.st = state
    BY <1>5, RereadersDo
  <2>2. \A i \in Id, h \in Hash : Vouches(k, i, h) => Known(i, h)
    BY <2>1, OldRecords
  <2>3. QED
    BY <1>2, <2>1, <2>2, GoNew
<1>6. QED
  BY <1>1, <1>3, <1>4, <1>5

LEMMA StepNew ==
  ASSUME IInv, NEW p \in Proc, Step(p), ~Clear(p), ~Upload(p)
  PROVE  NoNew
<1> DEFINE j == job[p]
           Old(k) == k.pc # "upload" /\ k.st.deploys \subseteq state.deploys \cup j.st.deploys
<1>1. ASSUME NEW k, job' = [job EXCEPT ![p] = k], state'.deploys \in {state.deploys, j.st.deploys}, Old(k)
      PROVE  NoNew
  <2>1. \A i \in Id, h \in Hash : Vouches(k, i, h) => Known(i, h)
    BY <1>1, OldRecords
  <2>2. QED
    BY <1>1, <2>1, GoNew
<1>2. Old(Idle)
  BY IdleKnows
<1>3. /\ j.st \in RemoteState
      /\ \A ids : Without(j.st.deploys, ids) \subseteq j.st.deploys
  BY JobTyped DEF Without
<1>4. CASE RereadReplacing(p)
  <2>1. state' = state
    BY <1>4 DEF RereadReplacing
  <2>2. CASE job' = [job EXCEPT ![p] = Idle]
    BY <1>1, <1>2, <2>1, <2>2
  <2>3. CASE \E k \in Job : job' = [job EXCEPT ![p] = k] /\ Saved(k, j, "clear", None, {j.id})
                            /\ k.st = [j.st EXCEPT !.deploys = Without(@, {j.id})]
    <3>1. PICK k \in Job : job' = [job EXCEPT ![p] = k] /\ Saved(k, j, "clear", None, {j.id})
                           /\ k.st = [j.st EXCEPT !.deploys = Without(@, {j.id})]
      BY <2>3
    <3>2. Old(k)
      BY <1>3, <3>1 DEF Saved, RemoteState
    <3>3. QED
      BY <1>1, <2>1, <3>1, <3>2
  <2>4. QED
    BY <1>4, <2>2, <2>3, RereadReplacingDoes
<1>5. CASE RereadPublishing(p)
  <2>1. state' = state
    BY <1>5 DEF RereadPublishing
  <2>2. CASE job' = [job EXCEPT ![p] = Idle]
    BY <1>1, <1>2, <2>1, <2>2
  <2>3. CASE \E k \in Job : job' = [job EXCEPT ![p] = k] /\ k.pc = "promote" /\ k.st = state
    BY <1>1, <2>1, <2>3
  <2>4. QED
    BY <1>5, <2>2, <2>3, RereadPublishingDoes
<1>6. CASE RereadDeleting(p)
  <2>1. state' = state
    BY <1>6 DEF RereadDeleting
  <2>2. CASE job' = [job EXCEPT ![p] = Idle]
    BY <1>1, <1>2, <2>1, <2>2
  <2>3. CASE \E k \in Job : job' = [job EXCEPT ![p] = k] /\ k.pc = "sweep" /\ k.st = state
    BY <1>1, <2>1, <2>3
  <2>4. QED
    BY <1>6, <2>2, <2>3, RereadDeletingDoes
<1>7. CASE Sweep(p) \/ SweepFails(p)
  <2>1. state' = state
    BY <1>7 DEF Sweep, SweepFails
  <2>2. PICK k \in Job : job' = [job EXCEPT ![p] = k] /\ k.pc = "sweep" /\ k.st = j.st
    BY <1>7, SweepDoes
  <2>3. QED
    BY <1>1, <2>1, <2>2
<1>8. CASE Swept(p)
  <2>1. state' = state
    BY <1>8 DEF Swept
  <2>2. PICK k \in Job : job' = [job EXCEPT ![p] = k] /\ Saved(k, j, "idle", None, j.removed)
                         /\ k.st = [j.st EXCEPT !.deploys = Without(@, j.removed)]
    BY <1>8, SweptDoes
  <2>3. Old(k)
    BY <1>3, <2>2 DEF Saved, RemoteState
  <2>4. QED
    BY <1>1, <2>1, <2>2, <2>3
<1>9. CASE Record(p)
  <2>1. state' = state /\ j.pc = "upload"
    BY <1>9 DEF Record
  <2>2. PICK k \in Job, d \in DeployRecord :
          /\ job' = [job EXCEPT ![p] = k] /\ Saved(k, j, "promote", None, {})
          /\ d.id = j.id /\ d.hash = j.hash
          /\ k.st = [j.st EXCEPT !.deploys = Without(@, {j.id}) \cup {d}]
    BY <1>9, RecordDoes
  <2>3. k.pc # "upload" /\ k.st.deploys \subseteq j.st.deploys \cup {d}
    BY <1>3, <2>2 DEF Saved, RemoteState
  <2>4. \A i \in Id, h \in Hash : Vouches(k, i, h) => Vouches(j, i, h)
    BY <2>1, <2>2, <2>3 DEF Vouches, Has
  <2>5. QED
    BY <2>1, <2>2, <2>4, GoNew DEF Known
<1>10. CASE Promote(p) \/ Retarget(p)
  <2>1. state' = state
    BY <1>10 DEF Promote, Retarget
  <2>2. PICK k \in Job : job' = [job EXCEPT ![p] = k] /\ k.pc \in {"rule", "missing"} /\ k.st = j.st
    BY <1>10, PromoteDoes
  <2>3. QED
    BY <1>1, <2>1, <2>2
<1>11. CASE SetNotFound(p)
  <2>1. state' = state
    BY <1>11 DEF SetNotFound
  <2>2. CASE job' = [job EXCEPT ![p] = Idle]
    BY <1>1, <1>2, <2>1, <2>2
  <2>3. CASE \E k \in Job : job' = [job EXCEPT ![p] = k] /\ Saved(k, j, "idle", j.id, {})
                            /\ k.st = MarkCurrent(j.st, j.id)
    <3>1. PICK k \in Job : job' = [job EXCEPT ![p] = k] /\ Saved(k, j, "idle", j.id, {})
                           /\ k.st = MarkCurrent(j.st, j.id)
      BY <2>3
    <3>2. Old(k)
      BY <1>3, <3>1 DEF Saved, MarkCurrent, RemoteState
    <3>3. QED
      BY <1>1, <2>1, <3>1, <3>2
  <2>4. QED
    BY <1>11, <2>2, <2>3, NotFoundDoes
<1>12. CASE Check(p)
  <2>1. state' = state
    BY <1>12 DEF Check
  <2>2. PICK k \in Job :
          /\ job' = [job EXCEPT ![p] = k] /\ k.pc = "put"
          /\ k.st = IF state = j.etag THEN j.st ELSE Merged(j.st, state, j.promotedTo, j.removed)
    BY <1>12, CheckDoes
  <2>3. Old(k)
    BY <2>2 DEF Merged, Without
  <2>4. QED
    BY <1>1, <2>1, <2>2, <2>3
<1>13. CASE Put(p)
  <2>1. state' = j.st
    BY <1>13, PutDoes
  <2>2. CASE job' = [job EXCEPT ![p] = Idle]
    BY <1>1, <1>2, <2>1, <2>2
  <2>3. CASE \E k \in Job : job' = [job EXCEPT ![p] = k] /\ k.pc \in {"clear", "promote"} /\ k.st = j.st
    BY <1>1, <2>1, <2>3
  <2>4. QED
    BY <1>13, <2>2, <2>3, PutDoes
<1>14. QED
  BY <1>4, <1>5, <1>6, <1>7, <1>8, <1>9, <1>10, <1>11, <1>12, <1>13 DEF Step

LEMMA DieNew ==
  ASSUME IInv, NEW p \in Proc, Die(p)
  PROVE  NoNew
<1>1. job' = [job EXCEPT ![p] = Idle] /\ state' = state
  BY DEF Die
<1>2. \A i \in Id, h \in Hash : Vouches(Idle, i, h) => Known(i, h)
  BY IdleKnows, OldRecords
<1>3. QED
  BY <1>1, <1>2, GoNew

(* Files of deploy i are those of content h, or gone. *)
Fits(h, i) == \A path \in Path : files[i][path] \in {None, Whole(h)[path]}

Fitting == \A i \in Id, h \in Hash : Known(i, h) => Fits(h, i)

(* The upload has written whatever it has not still to write. *)
Completes(j, i, h) ==
  /\ j.pc = "upload" /\ j.id = i /\ j.hash = h
  /\ \A path \in PathsOf[h] \ j.todo : files[i][path] = h

Healthy(i, h) ==
  \/ files[i] = Whole(h)
  \/ \E p \in Proc : Completes(job[p], i, h) \/ i \in job[p].removed

(* What is not whole is being filled or removed, unless something failed. *)
Healing == deaths = 0 => \A i \in Id, h \in Hash : Known(i, h) => Healthy(i, h)

(* Whoever fills a prefix is the only one who knows it, or agrees on the content. *)
LEMMA OnlyMine ==
  ASSUME Additive, IInv, AInv, NEW p \in Proc, Filling(job[p]), NEW h \in Hash, Known(job[p].id, h)
  PROVE  h = job[p].hash
<1> DEFINE j == job[p]
<1>1. Sound(j) /\ j.pc # "idle" /\ j.cmd \in Requests
  BY DEF AInv, AllSound, Sound, Filling
<1>2. j.cmd.cmd = "deploy" /\ j.id = j.cmd.id /\ j.hash = j.cmd.hash
  BY <1>1 DEF Sound, Deploying
<1>3. CASE j.cmd \in Overlap
  <2>1. PICK s \in Requests : s.cmd = "deploy" /\ s.id = j.id /\ s.hash = h
    <3>1. CASE Has(state.deploys, j.id, h)
      BY <3>1 DEF Has, AInv, Asked
    <3>2. CASE \E q \in Proc : Vouches(job[q], j.id, h)
      <4>1. PICK q \in Proc : Vouches(job[q], j.id, h)
        BY <3>2
      <4>2. Sound(job[q])
        BY DEF AInv, AllSound
      <4>3. CASE Has(job[q].st.deploys, j.id, h)
        BY <4>2, <4>3 DEF Has, Sound, Asked
      <4>4. CASE job[q].pc = "upload" /\ job[q].id = j.id /\ job[q].hash = h
        BY <4>2, <4>4 DEF Sound, Deploying, Filling
      <4>5. QED
        BY <4>1, <4>3, <4>4 DEF Vouches
    <3>3. QED
      BY <3>1, <3>2 DEF Known
  <2>2. QED
    BY <1>2, <1>3, <2>1 DEF Additive
<1>4. CASE j.cmd \notin Overlap
  <2>1. j.st = state /\ \A q \in Proc : q # p => job[q] = Idle
    <3>1. ~Writing(j)
      BY DEF Filling, Writing
    <3>2. j.st = state /\ \A q \in Proc : q # p => job[q].pc = "idle"
      BY <1>1, <1>4, <3>1, LoneHas
    <3>3. QED
      BY <3>2 DEF AInv, AllSound, Sound
  <2>2. ASSUME NEW q \in Proc, Vouches(job[q], j.id, h) PROVE q = p
    BY <2>1, <2>2, IdleKnows DEF Vouches, Has
  <2>3. Has(j.st.deploys, j.id, h) \/ (j.pc = "upload" /\ j.hash = h)
    BY <2>1, <2>2 DEF Known, Vouches
  <2>4. QED
    BY <1>1, <2>3 DEF Sound, Free, Has
<1>5. QED
  BY <1>3, <1>4

(* What does not write files, or only empties prefixes, keeps records and files together. *)
LEMMA ShrunkFits ==
  ASSUME IInv, Fitting, NoNew, files' = files \/ \E i \in Id : files' = [files EXCEPT ![i] = Empty]
  PROVE  Fitting'
<1>1. files \in [Id -> [Path -> Hash \cup {None}]]
  BY DEF IInv, TypeOK
<1>2. \A i \in Id, path \in Path : files'[i][path] \in {files[i][path], None}
  BY <1>1 DEF Empty
<1>3. QED
  BY <1>2 DEF Fitting, NoNew, Fits, Whole

LEMMA ClearFits ==
  ASSUME Additive, IInv, AInv, Fitting, NEW p \in Proc, Clear(p)
  PROVE  /\ Fitting'
         /\ \A i \in Id, h \in Hash : Known(i, h)' => Known(i, h) \/ (i = job[p].id /\ h = job[p].hash)
<1> DEFINE j == job[p]
<1>1. PICK k \in Job : /\ job' = [job EXCEPT ![p] = k] /\ Same(k, j)
                       /\ k.pc = "upload" /\ k.st = j.st
  BY ClearDoes
<1>2. state' = state /\ files' = [files EXCEPT ![j.id] = Empty]
  BY DEF Clear
<1>3. \A q \in Proc : job'[q] = IF q = p THEN k ELSE job[q]
  BY <1>1 DEF IInv, TypeOK
<1>4. ASSUME NEW i \in Id, NEW h \in Hash, Known(i, h)' PROVE Known(i, h) \/ (i = j.id /\ h = j.hash)
  BY <1>1, <1>2, <1>3, <1>4 DEF Known, Vouches, Same
<1>5. files \in [Id -> [Path -> Hash \cup {None}]]
  BY DEF IInv, TypeOK
<1>6. \A i \in Id, path \in Path : files'[i][path] = IF i = j.id THEN None ELSE files[i][path]
  BY <1>2, <1>5 DEF Empty
<1>7. Fitting'
  BY <1>4, <1>6 DEF Fitting, Fits, Whole
<1>8. QED
  BY <1>4, <1>7

LEMMA UploadNew ==
  ASSUME IInv, NEW p \in Proc, Upload(p)
  PROVE  NoNew
<1>1. PICK k \in Job : /\ job' = [job EXCEPT ![p] = k] /\ Same(k, job[p])
                       /\ k.pc = "upload" /\ k.st = job[p].st
  BY UploadDoes
<1>2. state' = state /\ job[p].pc = "upload"
  BY DEF Upload
<1>3. \A i \in Id, h \in Hash : Vouches(k, i, h) => Known(i, h)
  BY <1>1, <1>2 DEF Vouches, Known, Same
<1>4. QED
  BY <1>1, <1>2, <1>3, GoNew

(* What an upload writes, and to whom it matters. *)
LEMMA UploadWrites ==
  ASSUME Additive, IInv, AInv, NEW p \in Proc, NEW path \in job[p].todo, job[p].pc = "upload",
         files' = [files EXCEPT ![job[p].id][path] = job[p].hash]
  PROVE  /\ path \in PathsOf[job[p].hash] /\ job[p].id \in Id /\ job[p].hash \in Hash
         /\ \A i \in Id, x \in Path : files'[i][x] = IF i = job[p].id /\ x = path THEN job[p].hash ELSE files[i][x]
         /\ \A i \in Id : files'[i] \in [Path -> Hash \cup {None}]
         /\ \A h \in Hash : Known(job[p].id, h) => h = job[p].hash
<1> DEFINE j == job[p]
<1>1. path \in PathsOf[j.hash] /\ j.id \in Id /\ j.hash \in Hash
  BY DEF IInv, JobsOK, JobOK, Targeted, AInv, AllSound, Sound, Deploying, Filling
<1>2. files \in [Id -> [Path -> Hash \cup {None}]] /\ path \in Path
  BY <1>1 DEF IInv, TypeOK
<1>3. \A h \in Hash : Known(j.id, h) => h = j.hash
  BY OnlyMine DEF Filling
<1>4. files' \in [Id -> [Path -> Hash \cup {None}]]
  BY <1>1, <1>2
<1>5. \A i \in Id, x \in Path : files'[i][x] = IF i = j.id /\ x = path THEN j.hash ELSE files[i][x]
  BY <1>1, <1>2
<1>6. QED
  BY <1>1, <1>3, <1>4, <1>5

LEMMA UploadFits ==
  ASSUME Additive, IInv, AInv, Fitting, NEW p \in Proc, Upload(p)
  PROVE  Fitting'
<1> DEFINE j == job[p]
<1>1. PICK path \in j.todo : files' = [files EXCEPT ![j.id][path] = j.hash]
  BY DEF Upload
<1>2. j.pc = "upload"
  BY DEF Upload
<1>3. /\ path \in PathsOf[j.hash]
      /\ \A i \in Id, x \in Path : files'[i][x] = IF i = j.id /\ x = path THEN j.hash ELSE files[i][x]
      /\ \A h \in Hash : Known(j.id, h) => h = j.hash
  BY <1>1, <1>2, UploadWrites
<1>4. NoNew
  BY UploadNew
<1>5. ASSUME NEW i \in Id, NEW h \in Hash, Known(i, h)', NEW x \in Path
      PROVE  files'[i][x] \in {None, Whole(h)[x]}
  <2>1. Known(i, h) /\ files[i][x] \in {None, Whole(h)[x]}
    BY <1>4, <1>5 DEF NoNew, Fitting, Fits
  <2>2. CASE i = j.id /\ x = path
    BY <1>3, <2>1, <2>2 DEF Whole
  <2>3. CASE ~(i = j.id /\ x = path)
    BY <1>3, <2>1, <2>3
  <2>4. QED
    BY <2>2, <2>3
<1>6. QED
  BY <1>5 DEF Fitting, Fits

(* What a step that is no Clear and no Upload does to the files. *)
LEMMA OthersShrink ==
  ASSUME IInv, NEW p \in Proc, Start(p) \/ Step(p) \/ Die(p), ~Clear(p), ~Upload(p)
  PROVE  files' = files \/ \E i \in Id : files' = [files EXCEPT ![i] = Empty]
<1>1. CASE Sweep(p) \/ SweepFails(p)
  BY <1>1, SweepDoes
<1>2. CASE Start(p)
  BY <1>2, Begun DEF Start
<1>3. CASE Die(p)
  BY <1>3 DEF Die
<1>4. CASE Step(p) /\ ~Sweep(p) /\ ~SweepFails(p)
  BY <1>4 DEF Step, RereadReplacing, RereadPublishing, RereadDeleting, Swept, Record, Promote, Retarget, SetNotFound,
              Check, Put
<1>5. QED
  BY <1>1, <1>2, <1>3, <1>4

LEMMA NextFits ==
  ASSUME Additive, IInv, AInv, Fitting, [Next]_vars
  PROVE  Fitting'
<1>1. ASSUME NEW p \in Proc, Start(p) \/ Step(p) \/ Die(p) PROVE Fitting'
  <2>1. CASE Clear(p)
    BY <2>1, ClearFits
  <2>2. CASE Upload(p)
    BY <2>2, UploadFits
  <2>3. CASE ~Clear(p) /\ ~Upload(p)
    <3>1. NoNew
      BY <1>1, <2>3, StartNew, StepNew, DieNew
    <3>2. files' = files \/ \E i \in Id : files' = [files EXCEPT ![i] = Empty]
      BY <1>1, <2>3, OthersShrink
    <3>3. QED
      BY <3>1, <3>2, ShrunkFits
  <2>4. QED
    BY <2>1, <2>2, <2>3
<1>2. CASE UNCHANGED vars
  BY <1>2 DEF vars, Fitting, Known, Fits
<1>3. QED
  BY <1>1, <1>2 DEF Next

LEMMA InitFits == Init => Fitting
<1> SUFFICES ASSUME Init PROVE Fitting
  OBVIOUS
<1>1. \A i \in Id, path \in Path : files[i][path] = None
  BY DEF Init, Empty
<1>2. QED
  BY <1>1 DEF Fitting, Fits

(* However deploys and publishes overlap, and whatever was replaced, pruned or cut short before, a record never *)
(* vouches for bytes of another content: what is missing is missing, and never something else (deploy.ts).       *)
THEOREM NeverMixed ==
  ASSUME Additive
  PROVE  Spec => []RecordsVouch
<1>1. IInv /\ Fitting => RecordsVouch
  BY JobTyped DEF IInv, TypeOK, RemoteState, DeployRecord, Fitting, Fits, Known, Has, RecordsVouch
<1>2. Init => IInv /\ AInv /\ Fitting
  BY InitKept, InitSound, InitFits
<1>3. IInv /\ AInv /\ Fitting /\ [Next]_vars => (IInv /\ AInv /\ Fitting)'
  BY NextKeeps, NextSound, NextFits
<1>4. QED
  BY <1>1, <1>2, <1>3, PTL DEF Spec

(* A step that writes no file keeps a deploy whole or in good hands, if it ends no upload midway and forgets no removal. *)
LEMMA HealthyStays ==
  ASSUME IInv, AInv, Fitting, Healing, NEW p \in Proc, NEW k, job' = [job EXCEPT ![p] = k],
         NoNew, files' = files, deaths' = deaths,
         job[p].pc = "upload" => job[p].todo = {},
         \A i \in job[p].removed, h \in Hash : Known(i, h)' => i \in k.removed
  PROVE  Healing'
<1> DEFINE j == job[p]
<1>1. \A q \in Proc : job'[q] = IF q = p THEN k ELSE job[q]
  BY DEF IInv, TypeOK
<1>2. SUFFICES ASSUME deaths = 0, NEW i \in Id, NEW h \in Hash, Known(i, h)' PROVE Healthy(i, h)'
  BY DEF Healing
<1>3. Known(i, h) /\ Healthy(i, h) /\ Fits(h, i)
  BY <1>2 DEF NoNew, Healing, Fitting
<1>4. CASE files[i] = Whole(h)
  BY <1>4 DEF Healthy, Whole
<1>5. CASE \E q \in Proc : Completes(job[q], i, h)
  <2>1. PICK q \in Proc : Completes(job[q], i, h)
    BY <1>5
  <2>2. CASE q = p
    <3>1. \A path \in PathsOf[h] : files[i][path] = h
      BY <2>1, <2>2 DEF Completes
    <3>2. \A path \in Path : files[i][path] = Whole(h)[path]
      BY <1>3, <3>1 DEF Fits, Whole
    <3>3. files[i] = Whole(h)
      BY <3>2 DEF IInv, TypeOK, Whole
    <3>4. QED
      BY <3>3 DEF Healthy, Whole
  <2>3. CASE q # p
    <3>1. Completes(job[q], i, h)'
      BY <1>1, <2>1, <2>3 DEF Completes
    <3>2. QED
      BY <3>1 DEF Healthy
  <2>4. QED
    BY <2>2, <2>3
<1>6. CASE \E q \in Proc : i \in job[q].removed
  <2>1. PICK q \in Proc : i \in job[q].removed
    BY <1>6
  <2>2. i \in job'[q].removed
    BY <1>1, <1>2, <2>1
  <2>3. QED
    BY <2>2 DEF Healthy
<1>7. QED
  BY <1>3, <1>4, <1>5, <1>6 DEF Healthy

LEMMA StartHeals ==
  ASSUME IInv, AInv, Fitting, Healing, NEW p \in Proc, Start(p)
  PROVE  Healing'
<1>1. PICK r \in Requests :
        \/ DeployNew(p, r) \/ DeployReplacing(p, r) \/ DeployUploaded(p, r)
        \/ Publish(p, r) \/ Delete(p, r) \/ Prune(p, r)
  BY DEF Start
<1>2. job[p].pc = "idle" /\ files' = files /\ deaths' = deaths
  BY <1>1, Begun
<1>3. job[p].removed = {}
  BY <1>2 DEF IInv, JobsOK, JobOK
<1>4. \E k : job' = [job EXCEPT ![p] = k]
  BY <1>1 DEF DeployNew, DeployReplacing, DeployUploaded, Publish, Delete, Prune, Begin
<1>5. NoNew
  BY StartNew
<1>6. QED
  BY <1>2, <1>3, <1>4, <1>5, HealthyStays

(* A write ends by forgetting what it removed: then the removed deploys are recorded no more. *)
LEMMA PutForgets ==
  ASSUME IInv, AInv, NEW p \in Proc, Put(p), NEW i \in job[p].removed, NEW h \in Hash
  PROVE  ~Known(i, h)'
<1> DEFINE j == job[p]
<1>1. j.pc = "put" /\ Sound(j)
  BY DEF Put, AInv, AllSound
<1>2. j.cmd \notin Overlap /\ Ids(j.st.deploys) \cap j.removed = {}
  BY <1>1 DEF Sound, Removing, Writing
<1>3. \A q \in Proc : q # p => job[q] = Idle
  <2>1. \A q \in Proc : q # p => job[q].pc = "idle"
    BY <1>1, <1>2, LoneHas
  <2>2. QED
    BY <2>1 DEF AInv, AllSound, Sound
<1>4. \E k : job' = [job EXCEPT ![p] = k] /\ k.pc # "upload" /\ k.st.deploys \subseteq j.st.deploys
  BY PutDoes, IdleKnows
<1>5. PICK k : job' = [job EXCEPT ![p] = k] /\ k.pc # "upload" /\ k.st.deploys \subseteq j.st.deploys
  BY <1>4
<1>6. \A q \in Proc : job'[q] = IF q = p THEN k ELSE Idle
  BY <1>3, <1>5 DEF IInv, TypeOK
<1>7. state' = j.st
  BY PutDoes
<1>8. ~Has(j.st.deploys, i, h)
  BY <1>2 DEF Has, Ids
<1>9. QED
  BY <1>5, <1>6, <1>7, <1>8, IdleKnows DEF Known, Vouches, Has

(* The steps that neither write files nor fail. *)
LEMMA QuietHeals ==
  ASSUME IInv, AInv, Fitting, Healing, NEW p \in Proc, Step(p),
         ~Sweep(p), ~SweepFails(p), ~Clear(p), ~Upload(p)
  PROVE  Healing'
<1> DEFINE j == job[p]
<1>1. NoNew
  BY StepNew
<1>2. files' = files /\ deaths' = deaths
  BY DEF Step, RereadReplacing, RereadPublishing, RereadDeleting, Swept, Record, Promote, Retarget, SetNotFound,
         Check, Put, Go
<1>3. j.pc = "upload" => j.todo = {}
  BY DEF Step, RereadReplacing, RereadPublishing, RereadDeleting, Swept, Record, Promote, Retarget, SetNotFound,
         Check, Put, Is
<1>4. CASE Put(p)
  <2>1. \E k : job' = [job EXCEPT ![p] = k]
    BY <1>4, PutDoes
  <2>2. \A i \in j.removed, h \in Hash : ~Known(i, h)'
    BY <1>4, PutForgets
  <2>3. QED
    BY <1>1, <1>2, <1>3, <2>1, <2>2, HealthyStays
<1>5. CASE Swept(p) \/ Check(p)
  <2>1. \E k : job' = [job EXCEPT ![p] = k] /\ k.removed = j.removed
    BY <1>5, SweptDoes, CheckDoes DEF Saved
  <2>2. PICK k : job' = [job EXCEPT ![p] = k] /\ k.removed = j.removed
    BY <2>1
  <2>3. QED
    BY <1>1, <1>2, <1>3, <2>2, HealthyStays
<1>6. CASE ~Put(p) /\ ~Swept(p) /\ ~Check(p)
  <2>1. j.pc \notin {"sweep", "check", "put"}
    BY <1>6 DEF Step, RereadReplacing, RereadPublishing, RereadDeleting, Record, Promote, Retarget, SetNotFound, Is
  <2>2. j.removed = {}
    BY <2>1 DEF IInv, JobsOK, JobOK
  <2>3. \E k : job' = [job EXCEPT ![p] = k]
    BY <1>6 DEF Step, RereadReplacing, RereadPublishing, RereadDeleting, Record, Promote, Retarget, SetNotFound, Go
  <2>4. QED
    BY <1>1, <1>2, <1>3, <2>2, <2>3, HealthyStays
<1>7. QED
  BY <1>4, <1>5, <1>6

LEMMA SweepHeals ==
  ASSUME IInv, AInv, Fitting, Healing, NEW p \in Proc, Sweep(p)
  PROVE  Healing'
<1> DEFINE j == job[p]
<1>1. PICK k \in Job, i \in j.todo :
        /\ job' = [job EXCEPT ![p] = k] /\ k.pc = "sweep"
        /\ j.removed \subseteq k.removed /\ i \in k.removed
        /\ i \in Id /\ files' \in {files, [files EXCEPT ![i] = Empty]}
  BY SweepDoes
<1>2. NoNew
  <2>1. Step(p) /\ ~Clear(p) /\ ~Upload(p)
    BY DEF Sweep, Clear, Upload, Step
  <2>2. QED
    BY <2>1, StepNew
<1>3. \A q \in Proc : job'[q] = IF q = p THEN k ELSE job[q]
  BY <1>1 DEF IInv, TypeOK
<1>4. deaths' = deaths /\ j.pc = "sweep"
  BY DEF Sweep, Go
<1>5. \A o \in Id : o # i => files'[o] = files[o]
  BY <1>1 DEF IInv, TypeOK
<1>6. SUFFICES ASSUME deaths = 0, NEW o \in Id, NEW h \in Hash, Known(o, h)' PROVE Healthy(o, h)'
  BY <1>4 DEF Healing
<1>7. CASE o = i
  <2>1. o \in job'[p].removed
    BY <1>1, <1>3, <1>7
  <2>2. QED
    BY <2>1 DEF Healthy
<1>8. CASE o # i
  <2>1. Healthy(o, h) /\ files'[o] = files[o]
    BY <1>2, <1>5, <1>6, <1>8 DEF NoNew, Healing
  <2>2. CASE files[o] = Whole(h)
    BY <2>1, <2>2 DEF Healthy, Whole
  <2>3. CASE \E q \in Proc : Completes(job[q], o, h) \/ o \in job[q].removed
    <3>1. PICK q \in Proc : Completes(job[q], o, h) \/ o \in job[q].removed
      BY <2>3
    <3>2. Completes(job[q], o, h)' \/ o \in job'[q].removed
      BY <1>1, <1>3, <1>4, <2>1, <3>1 DEF Completes
    <3>3. QED
      BY <3>2 DEF Healthy
  <2>4. QED
    BY <2>1, <2>2, <2>3 DEF Healthy
<1>9. QED
  BY <1>7, <1>8

LEMMA ClearHeals ==
  ASSUME Additive, IInv, AInv, Fitting, Healing, NEW p \in Proc, Clear(p)
  PROVE  Healing'
<1> DEFINE j == job[p]
<1>1. PICK k \in Job : /\ job' = [job EXCEPT ![p] = k] /\ Same(k, j)
                       /\ k.pc = "upload" /\ k.todo = j.todo /\ k.removed = j.removed
  BY ClearDoes
<1>2. \A q \in Proc : job'[q] = IF q = p THEN k ELSE job[q]
  BY <1>1 DEF IInv, TypeOK
<1>3. /\ deaths' = deaths /\ j.pc = "clear" /\ files' = [files EXCEPT ![j.id] = Empty]
  BY DEF Clear, Go
<1>4. Filling(j) /\ j.id \in Id /\ j.todo = PathsOf[j.hash]
  BY <1>3 DEF IInv, JobsOK, JobOK, Targeted, AInv, AllSound, Sound, Deploying, Filling
<1>5. \A o \in Id : o # j.id => files'[o] = files[o]
  BY <1>3 DEF IInv, TypeOK
<1>6. SUFFICES ASSUME deaths = 0, NEW o \in Id, NEW h \in Hash, Known(o, h)' PROVE Healthy(o, h)'
  BY <1>3 DEF Healing
<1>7. Known(o, h) \/ (o = j.id /\ h = j.hash)
  BY <1>6, ClearFits
<1>8. CASE o = j.id
  <2>1. h = j.hash
    BY <1>4, <1>7, <1>8, OnlyMine
  <2>2. Completes(job[p], o, h)'
    BY <1>1, <1>2, <1>4, <1>8, <2>1 DEF Completes, Same
  <2>3. QED
    BY <2>2 DEF Healthy
<1>9. CASE o # j.id
  <2>1. Healthy(o, h) /\ files'[o] = files[o]
    BY <1>5, <1>6, <1>7, <1>9 DEF Healing
  <2>2. CASE files[o] = Whole(h)
    BY <2>1, <2>2 DEF Healthy, Whole
  <2>3. CASE \E q \in Proc : Completes(job[q], o, h) \/ o \in job[q].removed
    <3>1. PICK q \in Proc : Completes(job[q], o, h) \/ o \in job[q].removed
      BY <2>3
    <3>2. Completes(job[q], o, h)' \/ o \in job'[q].removed
      BY <1>1, <1>2, <1>3, <2>1, <3>1 DEF Completes
    <3>3. QED
      BY <3>2 DEF Healthy
  <2>4. QED
    BY <2>1, <2>2, <2>3 DEF Healthy
<1>10. QED
  BY <1>8, <1>9

LEMMA UploadHeals ==
  ASSUME Additive, IInv, AInv, Fitting, Healing, NEW p \in Proc, Upload(p)
  PROVE  Healing'
<1> DEFINE j == job[p]
<1>1. PICK k \in Job, path \in j.todo :
        /\ job' = [job EXCEPT ![p] = k] /\ Same(k, j)
        /\ k.pc = "upload" /\ k.todo = j.todo \ {path} /\ k.removed = j.removed
        /\ files' = [files EXCEPT ![j.id][path] = j.hash]
  BY UploadDoes
<1>2. \A q \in Proc : job'[q] = IF q = p THEN k ELSE job[q]
  BY <1>1 DEF IInv, TypeOK
<1>3. deaths' = deaths /\ j.pc = "upload"
  BY DEF Upload, Go
<1>4. /\ path \in PathsOf[j.hash]
      /\ \A i \in Id, x \in Path : files'[i][x] = IF i = j.id /\ x = path THEN j.hash ELSE files[i][x]
      /\ \A i \in Id : files'[i] \in [Path -> Hash \cup {None}]
      /\ \A h \in Hash : Known(j.id, h) => h = j.hash
  BY <1>1, <1>3, UploadWrites
<1>5. NoNew
  BY UploadNew
<1>6. SUFFICES ASSUME deaths = 0, NEW o \in Id, NEW h \in Hash, Known(o, h)' PROVE Healthy(o, h)'
  BY <1>3 DEF Healing
<1>7. Known(o, h) /\ Healthy(o, h) /\ (o = j.id => h = j.hash)
  BY <1>4, <1>5, <1>6 DEF NoNew, Healing
<1>8. CASE files[o] = Whole(h)
  <2>1. \A x \in Path : files'[o][x] = Whole(h)[x]
    BY <1>4, <1>7, <1>8 DEF Whole
  <2>2. files'[o] = Whole(h)
    BY <1>4, <2>1 DEF Whole
  <2>3. QED
    BY <2>2 DEF Healthy, Whole
<1>9. CASE \E q \in Proc : Completes(job[q], o, h) \/ o \in job[q].removed
  <2>1. PICK q \in Proc : Completes(job[q], o, h) \/ o \in job[q].removed
    BY <1>9
  <2>2. CASE o \in job[q].removed
    <3>1. o \in job'[q].removed
      BY <1>1, <1>2, <2>2
    <3>2. QED
      BY <3>1 DEF Healthy
  <2>3. CASE Completes(job[q], o, h)
    <3>1. job'[q].pc = "upload" /\ job'[q].id = o /\ job'[q].hash = h
      BY <1>1, <1>2, <1>3, <2>3 DEF Completes, Same
    <3>2. ASSUME NEW x \in PathsOf[h] \ job'[q].todo PROVE files'[o][x] = h
      <4>1. x \in Path
        OBVIOUS
      <4>2. CASE o = j.id /\ x = path
        BY <1>4, <1>7, <4>1, <4>2
      <4>3. CASE ~(o = j.id /\ x = path)
        <5>1. files'[o][x] = files[o][x]
          BY <1>4, <4>1, <4>3
        <5>2. x \notin job[q].todo
          <6>1. CASE q = p
            <7>1. o = j.id
              BY <2>3, <6>1 DEF Completes
            <7>2. job'[q].todo = j.todo \ {path}
              BY <1>1, <1>2, <6>1
            <7>3. QED
              BY <3>2, <4>3, <6>1, <7>1, <7>2
          <6>2. CASE q # p
            BY <1>2, <3>2, <6>2
          <6>3. QED
            BY <6>1, <6>2
        <5>3. QED
          BY <2>3, <3>2, <5>1, <5>2 DEF Completes
      <4>4. QED
        BY <4>2, <4>3
    <3>3. Completes(job[q], o, h)'
      BY <3>1, <3>2 DEF Completes
    <3>4. QED
      BY <3>3 DEF Healthy
  <2>4. QED
    BY <2>1, <2>2, <2>3
<1>10. QED
  BY <1>7, <1>8, <1>9 DEF Healthy

LEMMA NextHeals ==
  ASSUME Additive, IInv, AInv, Fitting, Healing, [Next]_vars
  PROVE  Healing'
<1>1. ASSUME NEW p \in Proc, Start(p) \/ Step(p) \/ Die(p) PROVE Healing'
  <2>1. CASE Start(p)
    BY <2>1, StartHeals
  <2>2. CASE Sweep(p) \/ Clear(p) \/ Upload(p)
    BY <2>2, SweepHeals, ClearHeals, UploadHeals
  <2>3. CASE SweepFails(p) \/ Die(p)
    <3>1. deaths' = deaths + 1 /\ deaths \in Nat
      BY <2>3 DEF SweepFails, Die, IInv, TypeOK
    <3>2. QED
      BY <3>1 DEF Healing
  <2>4. CASE Step(p) /\ ~Sweep(p) /\ ~SweepFails(p) /\ ~Clear(p) /\ ~Upload(p)
    BY <2>4, QuietHeals
  <2>5. QED
    BY <1>1, <2>1, <2>2, <2>3, <2>4
<1>2. CASE UNCHANGED vars
  BY <1>2 DEF vars, Healing, Known, Healthy, Completes
<1>3. QED
  BY <1>1, <1>2 DEF Next

LEMMA InitHeals == Init => Healing
<1> SUFFICES ASSUME Init PROVE Healing
  OBVIOUS
<1>1. state.deploys = {} /\ \A p \in Proc : job[p] = Idle
  BY DEF Init, NoDeploys
<1>2. QED
  BY <1>1, IdleKnows DEF Healing, Known, Vouches, Has

(* The site's invariant, where what overlaps only adds. *)
SiteInv == IInv /\ AInv /\ Fitting /\ Healing

LEMMA SiteAlways ==
  ASSUME Additive
  PROVE  Spec => []SiteInv
<1>1. Init => SiteInv
  BY InitKept, InitSound, InitFits, InitHeals DEF SiteInv
<1>2. SiteInv /\ [Next]_vars => SiteInv'
  BY NextKeeps, NextSound, NextFits, NextHeals DEF SiteInv
<1>3. QED
  BY <1>1, <1>2, PTL DEF Spec

(* As long as nothing failed, whatever overlapped: between commands every recorded deploy has all its files. *)
THEOREM AllPublishable ==
  ASSUME Additive
  PROVE  Spec => []RecordsWhole
<1>1. SiteInv => RecordsWhole
  <2>1. SUFFICES ASSUME SiteInv, Quiet, deaths = 0, NEW d \in state.deploys PROVE files[d.id] = Whole(d.hash)
    BY DEF RecordsWhole
  <2>2. d.id \in Id /\ d.hash \in Hash
    BY <2>1 DEF SiteInv, IInv, TypeOK, RemoteState, DeployRecord
  <2>3. Known(d.id, d.hash)
    BY DEF Known, Has
  <2>4. \A p \in Proc : job[p].pc = "idle" /\ job[p].removed = {}
    BY <2>1 DEF Quiet, Running, SiteInv, IInv, JobsOK, JobOK
  <2>5. QED
    BY <2>1, <2>2, <2>3, <2>4 DEF SiteInv, Healing, Healthy, Completes
<1>2. QED
  BY <1>1, SiteAlways, PTL

-----------------------------------------------------------------------------
(* What production serves, when commands run one at a time. *)

LEMMA AloneAdditive == Overlap = {} => Additive
BY DEF Additive

(* The not-found page the command's deploy asks for. *)
Page(j) == IF \E d \in j.st.deploys : d.id = j.id /\ d.spa THEN j.id ELSE None

(* How far the promotion of a command has come, and what it leaves as it was. *)
InStep(j) ==
  /\ j.unchanged => state.current = j.id
  /\ Writing(j) /\ j.promotedTo = None => j.st.current = state.current
  /\ j.pc \in {"rule", "missing"} => j.zone = notFound
  /\ j.pc = "missing" \/ j.promotedTo # None => live = j.id
  /\ j.promotedTo # None => notFound = Page(j)

AllInStep == \A p \in Proc : InStep(job[p])

(* The rule serves the current deploy, but for a promotion that has not told yet. *)
Following ==
  deaths = 0 => live = state.current \/ \E p \in Proc : job[p].pc = "missing" \/ job[p].promotedTo # None

(* What the rule serves is whole. *)
Serving == deaths = 0 => \A h \in Hash : live \in Id /\ Known(live, h) => files[live] = Whole(h)

AloneInv == SiteInv /\ AllInStep /\ Following /\ Serving

LEMMA IdleInStep == InStep(Idle)'
BY DEF InStep, Idle, Writing

(* Whoever runs is alone, and has the state file's state but for what it is writing. *)
LEMMA Alone ==
  ASSUME Overlap = {}, SiteInv, NEW p \in Proc, job[p].pc # "idle"
  PROVE  /\ job[p].etag = state /\ (~Writing(job[p]) => job[p].st = state)
         /\ \A q \in Proc : q # p => job[q] = Idle
<1>1. AInv
  BY DEF SiteInv
<1>2. /\ job[p].etag = state /\ (~Writing(job[p]) => job[p].st = state)
      /\ \A q \in Proc : q # p => job[q].pc = "idle"
  BY <1>1, LoneHas
<1>3. QED
  BY <1>1, <1>2 DEF AInv, AllSound, Sound

LEMMA AloneStarts ==
  ASSUME Overlap = {}, NEW p \in Proc, Start(p)
  PROVE  \A q \in Proc : job[q].pc = "idle"
<1>1. PICK r \in Requests : MayStart(r)
  BY Begun DEF Start
<1>2. QED
  BY <1>1 DEF MayStart, Running

(* Where one command takes a step, the others are idle. *)
LEMMA GoInStep ==
  ASSUME IInv, NEW p \in Proc, NEW k, job' = [job EXCEPT ![p] = k], \A q \in Proc : q # p => job[q] = Idle,
         InStep(k)'
  PROVE  AllInStep'
<1>1. \A q \in Proc : job'[q] = IF q = p THEN k ELSE Idle
  BY DEF IInv, TypeOK
<1>2. QED
  BY <1>1, IdleInStep DEF AllInStep

LEMMA GoFollows ==
  ASSUME IInv, NEW p \in Proc, NEW k, job' = [job EXCEPT ![p] = k], deaths' = deaths,
         deaths = 0 => live' = state'.current \/ k.pc = "missing" \/ k.promotedTo # None
  PROVE  Following'
<1>1. job'[p] = k
  BY DEF IInv, TypeOK
<1>2. QED
  BY <1>1 DEF Following

LEMMA FollowingAlone ==
  ASSUME Overlap = {}, SiteInv, Following, NEW p \in Proc, job[p].pc # "idle", deaths = 0
  PROVE  live = state.current \/ job[p].pc = "missing" \/ job[p].promotedTo # None
<1>1. \A q \in Proc : q # p => job[q] = Idle
  BY Alone
<1>2. Idle.pc # "missing" /\ Idle.promotedTo = None
  BY DEF Idle
<1>3. QED
  BY <1>1, <1>2 DEF Following

LEMMA StartsInStep ==
  ASSUME Overlap = {}, AloneInv, NEW p \in Proc, Start(p)
  PROVE  AllInStep' /\ Following'
<1>1. IInv /\ AInv
  BY DEF AloneInv, SiteInv
<1>2. PICK r \in Requests :
        \/ DeployNew(p, r) \/ DeployReplacing(p, r) \/ DeployUploaded(p, r)
        \/ Publish(p, r) \/ Delete(p, r) \/ Prune(p, r)
  BY DEF Start
<1>3. UNCHANGED <<state, live, notFound, deaths>>
  BY <1>2, Begun
<1>4. \A q \in Proc : job[q] = Idle
  BY <1>1, AloneStarts DEF AInv, AllSound, Sound
<1>5. deaths = 0 => live' = state'.current
  BY <1>3, <1>4 DEF AloneInv, Following, Idle
<1>6. \E k \in Job : job' = [job EXCEPT ![p] = k] /\ InStep(k)'
  <2>1. CASE DeployNew(p, r) \/ DeployReplacing(p, r)
    <3>1. PICK k \in Job :
            /\ job' = [job EXCEPT ![p] = k] /\ Fresh(k, r)
            /\ DeployReplacing(p, r) => k.pc = "reread"
            /\ DeployNew(p, r) => k.pc = IF r.id \in Ids(state.deploys) THEN "upload" ELSE "clear"
            /\ r.cmd = "deploy" /\ k.id = r.id /\ k.hash = r.hash /\ k.st = state /\ k.unchanged = FALSE
            /\ k.todo = PathsOf[r.hash]
      BY <1>1, <2>1, DeployDoes
    <3>2. k.pc \in {"clear", "upload", "reread"} /\ k.promotedTo = None
      BY <2>1, <3>1 DEF Fresh
    <3>3. InStep(k)'
      BY <3>1, <3>2 DEF InStep, Writing
    <3>4. QED
      BY <3>1, <3>3
  <2>2. CASE DeployUploaded(p, r)
    <3>1. PICK k \in Job, d \in state.deploys :
            /\ job' = [job EXCEPT ![p] = k] /\ Fresh(k, r)
            /\ k.id = d.id /\ (k.unchanged => state.current = d.id)
            /\ \/ k.pc = "promote" /\ k.st = state
               \/ /\ k.pc = "check" /\ k.then = "promote"
                  /\ k.st = [state EXCEPT !.deploys = (state.deploys \ {d}) \cup {[d EXCEPT !.spa = r.spa]}]
      BY <1>1, <2>2, UploadedDoes
    <3>2. k.st.current = state.current /\ k.promotedTo = None /\ k.pc \in {"promote", "check"}
      BY <1>1, <3>1, JobTyped DEF Fresh, RemoteState
    <3>3. InStep(k)'
      BY <1>3, <3>1, <3>2 DEF InStep, Writing
    <3>4. QED
      BY <3>1, <3>3
  <2>3. CASE Publish(p, r) \/ Delete(p, r) \/ Prune(p, r)
    <3>1. PICK k \in Job : /\ job' = [job EXCEPT ![p] = k] /\ Fresh(k, r)
                           /\ k.pc = "reread" /\ k.st = state /\ k.unchanged = FALSE
                           /\ r.cmd # "deploy"
      BY <1>1, <2>3, RereadersDo
    <3>2. InStep(k)'
      BY <3>1 DEF Fresh, InStep, Writing
    <3>3. QED
      BY <3>1, <3>2
  <2>4. QED
    BY <1>2, <2>1, <2>2, <2>3
<1>7. PICK k \in Job : job' = [job EXCEPT ![p] = k] /\ InStep(k)'
  BY <1>6
<1>8. QED
  BY <1>1, <1>3, <1>4, <1>5, <1>7, GoInStep, GoFollows

(* The steps before the promotion; the rule, the page and the state file stay. *)
LEMMA PreparesInStep ==
  ASSUME Overlap = {}, AloneInv, NEW p \in Proc,
         \/ RereadReplacing(p) \/ RereadPublishing(p) \/ RereadDeleting(p)
         \/ Sweep(p) \/ Swept(p) \/ Clear(p) \/ Upload(p) \/ Record(p)
  PROVE  AllInStep' /\ Following'
<1> DEFINE j == job[p]
<1>1. IInv /\ AInv /\ SiteInv
  BY DEF AloneInv, SiteInv
<1>2. UNCHANGED <<state, live, notFound, deaths>> /\ j.pc \in {"reread", "sweep", "clear", "upload"}
  BY DEF RereadReplacing, RereadPublishing, RereadDeleting, Sweep, Swept, Clear, Upload, Record, Is, Go
<1>3. j.st = state /\ \A q \in Proc : q # p => job[q] = Idle
  BY <1>1, <1>2, Alone DEF Writing
<1>4. InStep(j) /\ j.promotedTo = None /\ j.st \in RemoteState
  BY <1>1, <1>2, JobTyped DEF AloneInv, AllInStep, AInv, AllSound, Sound, Telling, Writing
<1>5. deaths = 0 => live' = state'.current
  BY <1>1, <1>2, <1>4, FollowingAlone DEF AloneInv
<1> DEFINE Carried(k) == /\ k.unchanged = j.unchanged /\ k.id = j.id /\ k.promotedTo = None
                         /\ k.pc \notin {"rule", "missing"} /\ (Writing(k) => k.st.current = j.st.current)
<1>6. ASSUME NEW k, job' = [job EXCEPT ![p] = k], k = Idle \/ Carried(k)
      PROVE  AllInStep' /\ Following'
  <2>1. InStep(k)'
    <3>1. CASE k = Idle
      BY <3>1, IdleInStep
    <3>2. CASE Carried(k)
      BY <1>2, <1>3, <1>4, <3>2 DEF InStep
    <3>3. QED
      BY <1>6, <3>1, <3>2
  <2>2. QED
    BY <1>1, <1>2, <1>3, <1>5, <1>6, <2>1, GoInStep, GoFollows
<1>7. CASE RereadReplacing(p)
  <2>1. CASE job' = [job EXCEPT ![p] = Idle]
    BY <1>6, <2>1
  <2>2. CASE \E k \in Job : job' = [job EXCEPT ![p] = k] /\ Saved(k, j, "clear", None, {j.id})
                            /\ k.st = [j.st EXCEPT !.deploys = Without(@, {j.id})]
    <3>1. PICK k \in Job : job' = [job EXCEPT ![p] = k] /\ Saved(k, j, "clear", None, {j.id})
                           /\ k.st = [j.st EXCEPT !.deploys = Without(@, {j.id})]
      BY <2>2
    <3>2. Carried(k)
      BY <1>4, <3>1 DEF Saved, Same, RemoteState
    <3>3. QED
      BY <1>6, <3>1, <3>2
  <2>3. QED
    BY <1>1, <1>7, <2>1, <2>2, RereadReplacingDoes
<1>8. CASE RereadPublishing(p)
  <2>1. CASE job' = [job EXCEPT ![p] = Idle]
    BY <1>6, <2>1
  <2>2. CASE \E k \in Job : job' = [job EXCEPT ![p] = k] /\ Same(k, j) /\ k.pc = "promote"
                            /\ k.promotedTo = j.promotedTo
    <3>1. PICK k \in Job : job' = [job EXCEPT ![p] = k] /\ Same(k, j) /\ k.pc = "promote"
                           /\ k.promotedTo = j.promotedTo
      BY <2>2
    <3>2. Carried(k)
      BY <1>4, <3>1 DEF Same, Writing
    <3>3. QED
      BY <1>6, <3>1, <3>2
  <2>3. QED
    BY <1>1, <1>8, <2>1, <2>2, RereadPublishingDoes
<1>9. CASE RereadDeleting(p)
  <2>1. CASE job' = [job EXCEPT ![p] = Idle]
    BY <1>6, <2>1
  <2>2. CASE \E k \in Job : job' = [job EXCEPT ![p] = k] /\ Same(k, j) /\ k.pc = "sweep"
                            /\ k.promotedTo = j.promotedTo
    <3>1. PICK k \in Job : job' = [job EXCEPT ![p] = k] /\ Same(k, j) /\ k.pc = "sweep"
                           /\ k.promotedTo = j.promotedTo
      BY <2>2
    <3>2. Carried(k)
      BY <1>4, <3>1 DEF Same, Writing
    <3>3. QED
      BY <1>6, <3>1, <3>2
  <2>3. QED
    BY <1>1, <1>9, <2>1, <2>2, RereadDeletingDoes
<1>10. CASE Sweep(p) \/ Clear(p) \/ Upload(p)
  <2>1. \E k \in Job : /\ job' = [job EXCEPT ![p] = k] /\ Same(k, j)
                       /\ k.pc \in {"sweep", "upload"} /\ k.promotedTo = j.promotedTo
    BY <1>1, <1>10, SweepDoes, ClearDoes, UploadDoes
  <2>2. PICK k \in Job : /\ job' = [job EXCEPT ![p] = k] /\ Same(k, j)
                         /\ k.pc \in {"sweep", "upload"} /\ k.promotedTo = j.promotedTo
    BY <2>1
  <2>3. Carried(k)
    BY <1>4, <2>2 DEF Same, Writing
  <2>4. QED
    BY <1>6, <2>2, <2>3
<1>11. CASE Swept(p)
  <2>1. PICK k \in Job : job' = [job EXCEPT ![p] = k] /\ Saved(k, j, "idle", None, j.removed)
                         /\ k.st = [j.st EXCEPT !.deploys = Without(@, j.removed)]
    BY <1>1, <1>11, SweptDoes
  <2>2. Carried(k)
    BY <1>4, <2>1 DEF Saved, Same, RemoteState
  <2>3. QED
    BY <1>6, <2>1, <2>2
<1>12. CASE Record(p)
  <2>1. PICK k \in Job, d \in DeployRecord :
          /\ job' = [job EXCEPT ![p] = k] /\ Saved(k, j, "promote", None, {})
          /\ d.id = j.id /\ d.hash = j.hash
          /\ k.st = [j.st EXCEPT !.deploys = Without(@, {j.id}) \cup {d}]
    BY <1>1, <1>12, RecordDoes
  <2>2. Carried(k)
    BY <1>4, <2>1 DEF Saved, Same, RemoteState
  <2>3. QED
    BY <1>6, <2>1, <2>2
<1>13. QED
  BY <1>7, <1>8, <1>9, <1>10, <1>11, <1>12

LEMMA PromotesInStep ==
  ASSUME Overlap = {}, AloneInv, NEW p \in Proc, Promote(p) \/ Retarget(p) \/ SetNotFound(p)
  PROVE  AllInStep' /\ Following'
<1> DEFINE j == job[p]
<1>1. IInv /\ AInv /\ SiteInv /\ InStep(j) /\ Sound(j)
  BY DEF AloneInv, SiteInv, AllInStep, AInv, AllSound
<1>2. state' = state /\ deaths' = deaths /\ j.pc \in {"promote", "rule", "missing"}
  BY DEF Promote, Retarget, SetNotFound, Go
<1>3. j.st = state /\ \A q \in Proc : q # p => job[q] = Idle
  BY <1>1, <1>2, Alone DEF Writing
<1>4. j.promotedTo = None /\ j.st \in RemoteState /\ j.id \in Ids(j.st.deploys) /\ j.id \in Id
  <2>1. j.promotedTo = None /\ j.id \in Ids(j.st.deploys)
    BY <1>1, <1>2 DEF Sound, Telling, Promoting, Writing
  <2>2. QED
    BY <1>1, <2>1, JobTyped, IdsTyped
<1>5. CASE Promote(p) \/ Retarget(p)
  <2>1. PICK k \in Job :
          /\ job' = [job EXCEPT ![p] = k] /\ Same(k, j)
          /\ k.pc = IF j.pc = "promote" THEN "rule" ELSE "missing"
          /\ k.zone = IF j.pc = "promote" THEN notFound ELSE j.zone
          /\ k.st = j.st /\ k.etag = j.etag
          /\ k.removed = j.removed /\ k.promotedTo = j.promotedTo
    BY <1>1, <1>5, PromoteDoes
  <2>2. /\ notFound' = notFound
        /\ IF j.pc = "promote" THEN live' = live ELSE j.pc = "rule" /\ live' = j.id
    BY <1>5 DEF Promote, Retarget
  <2>3. InStep(k)'
    BY <1>1, <1>2, <1>4, <2>1, <2>2 DEF InStep, Same, Writing
  <2>4. deaths = 0 => live' = state'.current \/ k.pc = "missing"
    BY <1>1, <1>2, <1>4, <2>1, <2>2, FollowingAlone DEF AloneInv
  <2>5. QED
    BY <1>1, <1>2, <1>3, <2>1, <2>3, <2>4, GoInStep, GoFollows
<1>6. CASE SetNotFound(p)
  <2>1. j.pc = "missing" /\ live' = live /\ live = j.id /\ j.zone = notFound
    BY <1>1, <1>6 DEF SetNotFound, InStep
  <2>2. notFound' = Page(j)
    BY <1>6, <2>1 DEF SetNotFound, Page
  <2>3. CASE j.unchanged /\ job' = [job EXCEPT ![p] = Idle]
    <3>1. live' = state'.current
      BY <1>1, <1>2, <2>1, <2>3 DEF InStep
    <3>2. QED
      BY <1>1, <1>2, <1>3, <2>3, <3>1, IdleInStep, GoInStep, GoFollows
  <2>4. CASE \E k \in Job : /\ job' = [job EXCEPT ![p] = k] /\ Saved(k, j, "idle", j.id, {})
                            /\ k.st = MarkCurrent(j.st, j.id)
    <3>1. PICK k \in Job : /\ job' = [job EXCEPT ![p] = k] /\ Saved(k, j, "idle", j.id, {})
                           /\ k.st = MarkCurrent(j.st, j.id)
      BY <2>4
    <3>2. /\ k.pc = "check" /\ k.id = j.id /\ k.promotedTo = j.id /\ k.unchanged = j.unchanged
          /\ k.st.deploys = j.st.deploys /\ k.promotedTo # None
      BY <1>4, <3>1, MarkTyped DEF Saved, Same
    <3>3. notFound' = Page(k)
      BY <2>2, <3>2 DEF Page
    <3>4. InStep(k)'
      BY <1>1, <1>2, <2>1, <3>2, <3>3 DEF InStep, Page
    <3>5. QED
      BY <1>1, <1>2, <1>3, <3>1, <3>2, <3>4, GoInStep, GoFollows
  <2>5. QED
    BY <1>1, <1>6, <2>3, <2>4, NotFoundDoes
<1>7. QED
  BY <1>5, <1>6

LEMMA WritesInStep ==
  ASSUME Overlap = {}, AloneInv, NEW p \in Proc, Check(p) \/ Put(p)
  PROVE  AllInStep' /\ Following'
<1> DEFINE j == job[p]
<1>1. IInv /\ AInv /\ SiteInv /\ InStep(j) /\ Sound(j)
  BY DEF AloneInv, SiteInv, AllInStep, AInv, AllSound
<1>2. UNCHANGED <<live, notFound, deaths>> /\ j.pc \in {"check", "put"}
  BY DEF Check, Put, Go
<1>3. j.etag = state /\ \A q \in Proc : q # p => job[q] = Idle
  BY <1>1, <1>2, Alone
<1>4. deaths = 0 => live = state.current \/ j.promotedTo # None
  BY <1>1, <1>2, FollowingAlone DEF AloneInv
<1>5. CASE Check(p)
  <2>1. state' = state
    BY <1>5 DEF Check
  <2>2. PICK k \in Job :
          /\ job' = [job EXCEPT ![p] = k] /\ Same(k, j)
          /\ k.pc = "put" /\ k.etag = j.etag /\ k.then = j.then /\ k.todo = j.todo
          /\ k.removed = j.removed /\ k.promotedTo = j.promotedTo
          /\ k.st = IF state = j.etag THEN j.st ELSE Merged(j.st, state, j.promotedTo, j.removed)
    BY <1>1, <1>5, CheckDoes
  <2>3. k.st = j.st /\ k.id = j.id /\ k.unchanged = j.unchanged
    BY <1>3, <2>2 DEF Same
  <2>4. InStep(k)'
    BY <1>1, <1>2, <2>1, <2>2, <2>3 DEF InStep, Page, Writing
  <2>5. QED
    BY <1>1, <1>2, <1>3, <1>4, <2>1, <2>2, <2>4, GoInStep, GoFollows
<1>6. CASE Put(p)
  <2>1. state' = j.st
    BY <1>1, <1>6, PutDoes
  <2>2. deaths = 0 => live = j.st.current
    BY <1>1, <1>2, <1>4 DEF InStep, Sound, Telling, Writing
  <2>3. CASE job' = [job EXCEPT ![p] = Idle]
    BY <1>1, <1>2, <1>3, <2>1, <2>2, <2>3, IdleInStep, GoInStep, GoFollows
  <2>4. CASE j.then # "idle"
             /\ \E k \in Job : /\ job' = [job EXCEPT ![p] = k] /\ Same(k, j)
                               /\ k.pc \in {"clear", "promote"} /\ k.promotedTo = None
    <3>1. PICK k \in Job : /\ job' = [job EXCEPT ![p] = k] /\ Same(k, j)
                           /\ k.pc \in {"clear", "promote"} /\ k.promotedTo = None
      BY <2>4
    <3>2. j.promotedTo = None
      BY <1>1, <2>4 DEF Sound, Telling
    <3>3. k.unchanged => j.st.current = k.id
      BY <1>1, <1>2, <3>1, <3>2 DEF InStep, Same, Writing
    <3>4. InStep(k)'
      BY <2>1, <3>1, <3>3 DEF InStep, Writing
    <3>5. QED
      BY <1>1, <1>2, <1>3, <2>1, <2>2, <3>1, <3>4, GoInStep, GoFollows
  <2>5. QED
    BY <1>1, <1>6, <2>3, <2>4, PutDoes
<1>7. QED
  BY <1>5, <1>6

LEMMA FailuresInStep ==
  ASSUME Overlap = {}, AloneInv, NEW p \in Proc, SweepFails(p) \/ Die(p)
  PROVE  AllInStep' /\ Following'
<1> DEFINE j == job[p]
<1>1. IInv /\ AInv /\ SiteInv /\ InStep(j)
  BY DEF AloneInv, SiteInv, AllInStep
<1>2. UNCHANGED <<state, live, notFound>> /\ j.pc # "idle" /\ deaths' = deaths + 1 /\ deaths \in Nat
  BY <1>1 DEF SweepFails, Die, Is, IInv, TypeOK
<1>3. \A q \in Proc : q # p => job[q] = Idle
  BY <1>1, <1>2, Alone
<1>4. \E k : job' = [job EXCEPT ![p] = k] /\ InStep(k)'
  <2>1. CASE Die(p)
    BY <2>1, IdleInStep DEF Die
  <2>2. CASE SweepFails(p)
    <3>1. PICK k \in Job : job' = [job EXCEPT ![p] = k] /\ Same(k, j) /\ k.pc = "sweep" /\ k.promotedTo = j.promotedTo
      BY <1>1, <2>2, SweepDoes
    <3>2. j.pc = "sweep" /\ j.promotedTo = None
      BY <1>1, <2>2 DEF SweepFails, Is, AInv, AllSound, Sound, Telling, Writing
    <3>3. InStep(k)'
      BY <1>1, <1>2, <3>1, <3>2 DEF InStep, Same, Writing
    <3>4. QED
      BY <3>1, <3>3
  <2>3. QED
    BY <2>1, <2>2
<1>5. AllInStep'
  BY <1>1, <1>3, <1>4, GoInStep
<1>6. QED
  BY <1>2, <1>5 DEF Following

LEMMA NextInStep ==
  ASSUME Overlap = {}, AloneInv, [Next]_vars
  PROVE  AllInStep' /\ Following'
<1>1. ASSUME NEW p \in Proc, Start(p) \/ Step(p) \/ Die(p) PROVE AllInStep' /\ Following'
  BY <1>1, StartsInStep, PreparesInStep, PromotesInStep, WritesInStep, FailuresInStep DEF Step
<1>2. CASE UNCHANGED vars
  BY <1>2 DEF vars, AloneInv, AllInStep, InStep, Page, Following
<1>3. QED
  BY <1>1, <1>2 DEF Next

(* Nothing is taken from what production serves: what is cleared or removed is neither current nor being promoted. *)
LEMMA Spared ==
  ASSUME Overlap = {}, AloneInv, deaths = 0, live \in Id, NEW p \in Proc,
         NEW i \in Id, \/ job[p].pc = "clear" /\ i = job[p].id
                       \/ job[p].pc = "sweep" /\ i \in job[p].todo
  PROVE  i # live
<1> DEFINE j == job[p]
<1>1. SiteInv /\ IInv /\ AInv /\ Sound(j)
  BY DEF AloneInv, SiteInv, AInv, AllSound
<1>2. j.promotedTo = None /\ j.st = state /\ j.cmd \notin Overlap
  BY <1>1, Alone DEF Sound, Telling, Writing
<1>3. live = state.current
  BY <1>1, <1>2, FollowingAlone DEF AloneInv
<1>4. CASE j.pc = "clear" /\ i = j.id
  <2>1. \A d \in state.deploys : d.id # i
    BY <1>1, <1>2, <1>4 DEF Sound, Free, Filling
  <2>2. live \in Ids(state.deploys)
    BY <1>1, <1>3 DEF AInv, Pointed
  <2>3. QED
    BY <2>1, <2>2 DEF Ids
<1>5. CASE j.pc = "sweep" /\ i \in j.todo
  BY <1>1, <1>2, <1>3, <1>5 DEF Sound, Removing, Blocked
<1>6. QED
  BY <1>4, <1>5

LEMMA ServingBy ==
  ASSUME \A i \in Id, h \in Hash : i = live' /\ deaths' = 0 /\ Known(i, h)' => files'[i] = Whole(h)
  PROVE  Serving'
BY DEF Serving, Known, Whole

LEMMA ClearServes ==
  ASSUME Overlap = {}, AloneInv, NEW p \in Proc, Clear(p)
  PROVE  Serving'
<1>1. IInv /\ AInv /\ Fitting
  BY DEF AloneInv, SiteInv
<1>2. /\ UNCHANGED <<live, deaths>> /\ job[p].pc = "clear" /\ files' = [files EXCEPT ![job[p].id] = Empty]
  BY DEF Clear, Go
<1>3. SUFFICES ASSUME deaths = 0, NEW o \in Id, o = live, NEW h \in Hash, Known(o, h)' PROVE files'[o] = Whole(h)
  BY <1>2, ServingBy
<1>4. job[p].id \in Id
  BY <1>1, <1>2 DEF IInv, JobsOK, JobOK, Targeted
<1>5. o # job[p].id
  BY <1>2, <1>3, <1>4, Spared
<1>6. Known(o, h)
  BY <1>1, <1>3, <1>5, AloneAdditive, ClearFits
<1>7. files'[o] = files[o]
  BY <1>1, <1>2, <1>3, <1>5 DEF IInv, TypeOK
<1>8. QED
  BY <1>3, <1>6, <1>7 DEF AloneInv, Serving

LEMMA UploadServes ==
  ASSUME Overlap = {}, AloneInv, NEW p \in Proc, Upload(p)
  PROVE  Serving'
<1> DEFINE j == job[p]
<1>1. IInv /\ AInv /\ Additive
  BY AloneAdditive DEF AloneInv, SiteInv
<1>2. UNCHANGED <<live, deaths>> /\ j.pc = "upload"
  BY DEF Upload, Go
<1>3. PICK path \in j.todo : files' = [files EXCEPT ![j.id][path] = j.hash]
  BY DEF Upload
<1>4. /\ path \in PathsOf[j.hash]
      /\ \A i \in Id, x \in Path : files'[i][x] = IF i = j.id /\ x = path THEN j.hash ELSE files[i][x]
      /\ \A i \in Id : files'[i] \in [Path -> Hash \cup {None}]
      /\ \A h \in Hash : Known(j.id, h) => h = j.hash
  BY <1>1, <1>2, <1>3, UploadWrites
<1>5. SUFFICES ASSUME deaths = 0, NEW o \in Id, o = live, NEW h \in Hash, Known(o, h)' PROVE files'[o] = Whole(h)
  BY <1>2, ServingBy
<1>6. Known(o, h)
  BY <1>1, <1>5, UploadNew DEF NoNew
<1>7. files[o] = Whole(h) /\ (o = j.id => h = j.hash)
  BY <1>4, <1>5, <1>6 DEF AloneInv, Serving
<1>8. \A x \in Path : files'[o][x] = Whole(h)[x]
  BY <1>4, <1>5, <1>7 DEF Whole
<1>9. QED
  BY <1>4, <1>5, <1>8 DEF Whole

LEMMA SweepServes ==
  ASSUME Overlap = {}, AloneInv, NEW p \in Proc, Sweep(p)
  PROVE  Serving'
<1>1. IInv /\ AInv
  BY DEF AloneInv, SiteInv
<1>2. /\ UNCHANGED <<live, deaths>> /\ job[p].pc = "sweep"
  BY DEF Sweep, Go
<1>3. PICK i \in job[p].todo : i \in Id /\ files' \in {files, [files EXCEPT ![i] = Empty]}
  BY <1>1, SweepDoes
<1>4. NoNew
  <2>1. Step(p) /\ ~Clear(p) /\ ~Upload(p)
    BY DEF Sweep, Clear, Upload, Step
  <2>2. QED
    BY <1>1, <2>1, StepNew
<1>5. SUFFICES ASSUME deaths = 0, NEW o \in Id, o = live, NEW h \in Hash, Known(o, h)' PROVE files'[o] = Whole(h)
  BY <1>2, ServingBy
<1>6. o # i
  BY <1>2, <1>3, <1>5, Spared
<1>7. Known(o, h) /\ files'[o] = files[o]
  BY <1>1, <1>3, <1>4, <1>5, <1>6 DEF NoNew, IInv, TypeOK
<1>8. QED
  BY <1>5, <1>7 DEF AloneInv, Serving

(* The rule is retargeted to a deploy that is recorded, and nobody else is at work on its files. *)
LEMMA RetargetServes ==
  ASSUME Overlap = {}, AloneInv, NEW p \in Proc, Retarget(p)
  PROVE  Serving'
<1> DEFINE j == job[p]
<1>1. IInv /\ AInv /\ SiteInv
  BY DEF AloneInv, SiteInv
<1>2. j.pc = "rule" /\ live' = j.id /\ files' = files /\ deaths' = deaths
  BY DEF Retarget, Go
<1>3. NoNew
  <2>1. Step(p) /\ ~Clear(p) /\ ~Upload(p)
    BY <1>2 DEF Clear, Upload, Step
  <2>2. QED
    BY <1>1, <2>1, StepNew
<1>4. \A q \in Proc : job[q].pc # "upload" /\ job[q].removed = {}
  <2>1. \A q \in Proc : q = p \/ job[q] = Idle
    BY <1>1, <1>2, Alone
  <2>2. j.removed = {} /\ Idle.pc # "upload" /\ Idle.removed = {}
    BY <1>1, <1>2 DEF IInv, JobsOK, JobOK, Idle
  <2>3. QED
    BY <1>2, <2>1, <2>2
<1>5. SUFFICES ASSUME deaths = 0, NEW o \in Id, o = j.id, NEW h \in Hash, Known(o, h)' PROVE files[o] = Whole(h)
  BY <1>2, ServingBy
<1>6. Healthy(o, h)
  BY <1>1, <1>3, <1>5 DEF NoNew, SiteInv, Healing
<1>7. QED
  BY <1>4, <1>6 DEF Healthy, Completes

LEMMA OthersServe ==
  ASSUME Overlap = {}, AloneInv, NEW p \in Proc, Start(p) \/ Step(p),
         ~Sweep(p), ~SweepFails(p), ~Clear(p), ~Upload(p), ~Retarget(p)
  PROVE  Serving'
<1>1. NoNew
  BY StartNew, StepNew DEF AloneInv, SiteInv
<1>2. UNCHANGED <<files, live, deaths>>
  <2>1. CASE Start(p)
    BY <2>1, Begun DEF Start
  <2>2. CASE Step(p)
    BY <2>2 DEF Step, RereadReplacing, RereadPublishing, RereadDeleting, Swept, Record, Promote, SetNotFound, Check,
                Put, Go
  <2>3. QED
    BY <2>1, <2>2
<1>3. SUFFICES ASSUME deaths = 0, NEW o \in Id, o = live, NEW h \in Hash, Known(o, h)' PROVE files[o] = Whole(h)
  BY <1>2, ServingBy
<1>4. QED
  BY <1>1, <1>3 DEF AloneInv, Serving, NoNew

LEMMA NextServes ==
  ASSUME Overlap = {}, AloneInv, [Next]_vars
  PROVE  Serving'
<1>1. ASSUME NEW p \in Proc, Start(p) \/ Step(p) \/ Die(p) PROVE Serving'
  <2>1. CASE Clear(p) \/ Upload(p) \/ Sweep(p) \/ Retarget(p)
    BY <2>1, ClearServes, UploadServes, SweepServes, RetargetServes
  <2>2. CASE SweepFails(p) \/ Die(p)
    <3>1. deaths' = deaths + 1 /\ deaths \in Nat
      BY <2>2 DEF SweepFails, Die, AloneInv, SiteInv, IInv, TypeOK
    <3>2. QED
      BY <3>1 DEF Serving
  <2>3. CASE (Start(p) \/ Step(p)) /\ ~Sweep(p) /\ ~SweepFails(p) /\ ~Clear(p) /\ ~Upload(p) /\ ~Retarget(p)
    BY <2>3, OthersServe
  <2>4. QED
    BY <1>1, <2>1, <2>2, <2>3
<1>2. CASE UNCHANGED vars
  BY <1>2 DEF vars, AloneInv, Serving, Known, Whole
<1>3. QED
  BY <1>1, <1>2 DEF Next

LEMMA InitAlone == Init => AloneInv
<1> SUFFICES ASSUME Init PROVE AloneInv
  OBVIOUS
<1>1. SiteInv
  BY InitKept, InitSound, InitFits, InitHeals DEF SiteInv
<1>2. (\A p \in Proc : job[p] = Idle) /\ live = None /\ state = NoDeploys
  BY DEF Init
<1>3. AllInStep
  BY <1>2 DEF AllInStep, InStep, Idle, Writing
<1>4. Following /\ Serving
  BY <1>2 DEF Following, Serving, NoDeploys
<1>5. QED
  BY <1>1, <1>3, <1>4 DEF AloneInv

LEMMA AloneAlways ==
  ASSUME Overlap = {}
  PROVE  Spec => []AloneInv
<1>1. AloneInv /\ [Next]_vars => AloneInv'
  <2>1. SUFFICES ASSUME AloneInv, [Next]_vars PROVE AloneInv'
    OBVIOUS
  <2>2. SiteInv'
    BY <2>1, AloneAdditive, NextKeeps, NextSound, NextFits, NextHeals DEF AloneInv, SiteInv
  <2>3. QED
    BY <2>1, <2>2, NextInStep, NextServes DEF AloneInv
<1>2. QED
  BY <1>1, InitAlone, PTL DEF Spec

(* With commands one at a time and as long as nothing failed, production serves a whole deploy at every moment: while *)
(* a deploy is uploaded, replaced, promoted or pruned too (deploy.ts, promoteDeploy, deleteBlocker).                   *)
THEOREM WholeIsServed ==
  ASSUME Overlap = {}
  PROVE  Spec => []ServesWhole
<1>1. AloneInv => ServesWhole
  <2>1. SUFFICES ASSUME AloneInv, deaths = 0, live # None PROVE \E h \in Hash : files[live] = Whole(h)
    BY DEF ServesWhole
  <2>2. SiteInv /\ IInv /\ AInv /\ live \in Id
    BY <2>1 DEF AloneInv, SiteInv, IInv, TypeOK
  <2>3. \E h \in Hash : Known(live, h)
    <3>1. CASE live = state.current
      <4>1. PICK d \in state.deploys : d.id = live
        BY <2>1, <2>2, <3>1 DEF AInv, Pointed, Ids
      <4>2. d.hash \in Hash
        BY <2>2 DEF IInv, TypeOK, RemoteState, DeployRecord
      <4>3. QED
        BY <4>1, <4>2 DEF Known, Has
    <3>2. CASE \E p \in Proc : job[p].pc = "missing" \/ job[p].promotedTo # None
      <4>1. PICK p \in Proc : job[p].pc = "missing" \/ job[p].promotedTo # None
        BY <3>2
      <4>2. live = job[p].id
        BY <2>1, <4>1 DEF AloneInv, AllInStep, InStep
      <4>3. live \in Ids(job[p].st.deploys)
        BY <2>2, <4>1, <4>2 DEF AInv, AllSound, Sound, Telling, Promoting
      <4>4. PICK d \in job[p].st.deploys : d.id = live
        BY <4>3 DEF Ids
      <4>5. d.hash \in Hash
        BY <2>2, JobTyped DEF DeployRecord
      <4>6. QED
        BY <4>4, <4>5 DEF Known, Vouches, Has
    <3>3. QED
      BY <2>1, <3>1, <3>2 DEF AloneInv, Following
  <2>4. QED
    BY <2>1, <2>2, <2>3 DEF AloneInv, Serving
<1>2. QED
  BY <1>1, AloneAlways, PTL

(* The last step of a promotion that does not fail. *)
LEMMA LastStep ==
  ASSUME Overlap = {}, AloneInv, [Next]_vars, NEW p \in Proc,
         job[p].pc = "missing" \/ (job[p].pc = "put" /\ job[p].promotedTo # None),
         job'[p].pc = "idle", deaths' = deaths
  PROVE  (job[p].pc = "missing" /\ SetNotFound(p)) \/ (job[p].pc = "put" /\ Put(p))
<1>1. SiteInv /\ IInv
  BY DEF AloneInv, SiteInv
<1>2. deaths \in Nat
  BY <1>1 DEF IInv, TypeOK
<1>3. PICK q \in Proc : Start(q) \/ Step(q) \/ Die(q)
  BY DEF Next, vars
<1>4. ~Start(q)
  BY AloneStarts
<1>5. ~Die(q)
  BY <1>2 DEF Die
<1>6. q = p
  <2>1. job[q].pc # "idle"
    BY <1>3, <1>4, <1>5 DEF Step, RereadReplacing, RereadPublishing, RereadDeleting, Sweep, SweepFails, Swept, Clear,
          Upload, Record, Promote, Retarget, SetNotFound, Check, Put, Is
  <2>2. q # p => job[q] = Idle
    BY <1>1, Alone
  <2>3. QED
    BY <2>1, <2>2, IdleOK DEF Idle
<1>7. QED
  BY <1>3, <1>4, <1>5, <1>6 DEF Step, RereadReplacing, RereadPublishing, RereadDeleting, Sweep, SweepFails, Swept,
        Clear, Upload, Record, Promote, Retarget, SetNotFound, Check, Put, Is

(* A deploy or publish that runs alone and ends well leaves the rule, the state and the not-found page on its deploy, *)
(* even after commands that failed halfway: the page is set last from what was fetched first (promoteDeploy).          *)
THEOREM PromotionSettles ==
  ASSUME Overlap = {}
  PROVE  Spec => PublishSettles
<1> DEFINE Settled(p) == /\ live = job[p].id /\ state'.current = live
                         /\ notFound' = IF \E d \in state'.deploys : d.id = live /\ d.spa THEN live ELSE None
           Ends(p) == /\ job[p].pc = "missing" \/ (job[p].pc = "put" /\ job[p].promotedTo # None)
                      /\ job'[p].pc = "idle" /\ deaths' = deaths
           Settling == \A p \in Proc : Ends(p) => Settled(p)
<1>1. ASSUME AloneInv, [Next]_vars PROVE [Settling]_vars
  <2>1. SUFFICES ASSUME NEW p \in Proc, Ends(p) PROVE Settled(p)
    OBVIOUS
  <2> DEFINE j == job[p]
  <2>2. SiteInv /\ IInv /\ AInv /\ InStep(j) /\ Sound(j)
    BY <1>1 DEF AloneInv, SiteInv, AllInStep, AInv, AllSound
  <2>3. (j.pc = "missing" /\ SetNotFound(p)) \/ (j.pc = "put" /\ Put(p))
    BY <1>1, <2>1, LastStep
  <2>4. live = j.id
    BY <2>1, <2>2 DEF InStep
  <2>5. CASE j.pc = "missing" /\ SetNotFound(p)
    <3>1. j.st = state /\ state' = state
      BY <2>2, <2>5, Alone DEF SetNotFound, Writing
    <3>2. j.unchanged
      <4>1. ASSUME NEW k, job' = [job EXCEPT ![p] = k], k.pc = "check" PROVE FALSE
        BY <2>1, <2>2, <4>1 DEF IInv, TypeOK
      <4>2. QED
        BY <2>2, <2>5, <4>1, NotFoundDoes DEF Saved
    <3>3. state'.current = live
      BY <2>2, <2>4, <3>1, <3>2 DEF InStep
    <3>4. j.zone = notFound
      BY <2>2, <2>5 DEF InStep
    <3>5. notFound' = Page(j)
      BY <2>5, <3>4 DEF SetNotFound, Page
    <3>6. QED
      BY <2>4, <3>1, <3>3, <3>5 DEF Page
  <2>6. CASE j.pc = "put" /\ Put(p)
    <3>1. state' = j.st /\ notFound' = notFound
      BY <2>2, <2>6, PutDoes DEF Put
    <3>2. j.promotedTo # None
      BY <2>1, <2>6
    <3>3. notFound = Page(j) /\ j.st.current = j.id
      BY <2>2, <3>2 DEF InStep, Sound, Telling
    <3>4. QED
      BY <2>4, <3>1, <3>3 DEF Page
  <2>7. QED
    BY <2>3, <2>5, <2>6
<1>2. QED
  BY <1>1, AloneAlways, PTL DEF Spec, PublishSettles
=============================================================================
