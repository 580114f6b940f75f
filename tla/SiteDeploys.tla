----------------------------- MODULE SiteDeploys -----------------------------
(***************************************************************************)
(* The deploys of one static site (packages/cli/src/commands/sites): the   *)
(* commands deploy, deployments publish, delete and prune, run by several  *)
(* processes that share the site's state file, its storage zone and its    *)
(* pull zone rule, and nothing else.  There is no lock: a command works on *)
(* the copy of the state it read, and its writes compare the file with     *)
(* what it read last and merge when it changed.                            *)
(*                                                                         *)
(* One action is one request to the API with what the command does before  *)
(* the next one.  The etag is a hash of the file, so it is modelled by the *)
(* state itself.  Local decisions that follow the first read without a     *)
(* request are part of the action that starts the command.                 *)
(***************************************************************************)
EXTENDS Naturals, FiniteSets

CONSTANTS
  Id,            \* deploy IDs
  Hash,          \* contents
  Path,          \* paths of files in a deploy
  PathsOf,       \* the paths each content has
  None,          \* no deploy, no file
  Proc,          \* processes, one command each at a time
  Requests,      \* the commands users give
  Overlap,       \* those that may run beside each other; the rest run alone
  AtomicWrites,  \* does nobody else write between a writer's check of the file and its upload?
  MaxCommands,   \* bound: commands
  MaxDeaths      \* bound: failures, of a request or of a whole process

Request == [cmd: {"deploy", "publish", "delete", "prune"}, id: Id \cup {None},
            hash: Hash \cup {None}, custom: BOOLEAN, force: BOOLEAN, spa: BOOLEAN, keep: Nat]

ASSUME SiteAssumption ==
  /\ None \notin Id \cup Hash
  /\ PathsOf \in [Hash -> SUBSET Path]
  /\ Requests \subseteq Request /\ Overlap \subseteq Requests
  /\ \A r \in Requests : /\ r.cmd = "deploy" => r.id \in Id /\ r.hash \in Hash
                         /\ r.cmd = "delete" => r.id \in Id
  /\ AtomicWrites \in BOOLEAN /\ MaxCommands \in Nat /\ MaxDeaths \in Nat

DeployRecord == [id: Id, hash: Hash, spa: BOOLEAN, createdAt: Nat]

RemoteState == [deploys: SUBSET DeployRecord, current: Id \cup {None}, previous: Id \cup {None}]

Label == {"idle", "reread", "check", "put", "clear", "upload", "promote", "rule", "missing", "sweep"}

(* A command under way: the request it is about to send, its copy of the state and that copy's etag. *)
Job == [pc: Label, cmd: Request \cup {None}, id: Id \cup {None}, hash: Hash \cup {None}, spa: BOOLEAN,
        st: RemoteState, etag: RemoteState,
        then: {"idle", "clear", "promote"}, removed: SUBSET Id, promotedTo: Id \cup {None},
        unchanged: BOOLEAN, todo: SUBSET (Id \cup Path), zone: Id \cup {None}]

VARIABLES
  state,      \* _bunny/site.json
  files,      \* the content of each path under deploys/<id>/
  live,       \* the deploy the rewrite rule serves, None for the placeholder
  notFound,   \* the deploy whose index.html the zone serves for a miss, None for the 404 page
  job,        \* the command each process runs
  clock,      \* creation times given out
  commands, deaths

vars == <<state, files, live, notFound, job, clock, commands, deaths>>

NoDeploys == [deploys |-> {}, current |-> None, previous |-> None]

Idle == [pc |-> "idle", cmd |-> None, id |-> None, hash |-> None, spa |-> FALSE,
         st |-> NoDeploys, etag |-> NoDeploys,
         then |-> "idle", removed |-> {}, promotedTo |-> None, unchanged |-> FALSE,
         todo |-> {}, zone |-> None]

Empty == [path \in Path |-> None]

Whole(h) == [path \in Path |-> IF path \in PathsOf[h] THEN h ELSE None]

OncePerId(deploys) == \A d, e \in deploys : d.id = e.id => d = e

(* The state, the files, the routing and the commands' copies are well formed, and the state file records an ID once (constants.ts, findDeploy and every filter by ID rely on it). *)
TypeOK ==
  /\ state \in RemoteState /\ OncePerId(state.deploys)
  /\ files \in [Id -> [Path -> Hash \cup {None}]]
  /\ live \in Id \cup {None} /\ notFound \in Id \cup {None}
  /\ job \in [Proc -> Job]
  /\ clock \in Nat /\ commands \in 0 .. MaxCommands /\ deaths \in 0 .. MaxDeaths

(* A site just created. *)
Init ==
  /\ state = NoDeploys
  /\ files = [i \in Id |-> Empty] /\ live = None /\ notFound = None
  /\ job = [p \in Proc |-> Idle]
  /\ clock = 0 /\ commands = 0 /\ deaths = 0

-----------------------------------------------------------------------------
(* The state file's records. *)

Ids(deploys) == {d.id : d \in deploys}

Without(deploys, ids) == {d \in deploys : d.id \notin ids}

Newer(d, e) == d.createdAt > e.createdAt

(* deleteBlocker *)
Blocked(st, id) == id \in {st.current, st.previous}

(* Mutant: the rollback target may be pruned. *)
VictimsNotCurrent(st, keep) ==
  {d \in st.deploys : /\ Cardinality({e \in st.deploys : Newer(e, d)}) >= keep
                      /\ d.id # st.current}

(* The deploys beyond the newest `keep`, never the current or previous. *)
PruneVictims(st, keep) ==
  {d \in st.deploys : /\ Cardinality({e \in st.deploys : Newer(e, d)}) >= keep
                      /\ ~Blocked(st, d.id)}

MarkCurrent(st, id) ==
  [st EXCEPT !.previous = IF st.current \notin {None, id} THEN st.current ELSE @,
             !.current = id]

(* Mutant: a write that finds the file changed keeps its own records. *)
MergedOurs(st, remote, promotedTo, removed) ==
  [deploys |-> st.deploys,
   current |-> IF promotedTo # None THEN promotedTo ELSE remote.current,
   previous |-> IF promotedTo # None /\ remote.current \notin {None, promotedTo}
                THEN remote.current ELSE remote.previous]

(* What a write makes of its state when the file holds `remote`, which it did not read. *)
Merged(st, remote, promotedTo, removed) ==
  [deploys |-> st.deploys \cup Without(remote.deploys, Ids(st.deploys) \cup removed),
   current |-> IF promotedTo # None THEN promotedTo ELSE remote.current,
   previous |-> IF promotedTo # None /\ remote.current \notin {None, promotedTo}
                THEN remote.current ELSE remote.previous]

(* The newest deploy a command finds its bytes under: any ID's for a derived ID, its own for a custom one. *)
Uploaded(st, r) ==
  LET same == {d \in st.deploys : d.hash = r.hash /\ (r.custom => d.id = r.id)}
  IN  IF r.force THEN {} ELSE {d \in same : \A e \in same : ~Newer(e, d)}

(* The ID is taken by other bytes. *)
Taken(st, r) == \E d \in st.deploys : d.id = r.id /\ d.hash # r.hash

-----------------------------------------------------------------------------
(* Starting a command: the site's state is read, and what follows from it alone is decided. *)

Running == {p \in Proc : job[p].pc # "idle"}

(* Only requests that may overlap run beside each other. *)
MayStart(r) ==
  /\ commands < MaxCommands
  /\ Running = {} \/ (r \in Overlap /\ \A p \in Running : job[p].cmd \in Overlap)

Begin(p, r, j) ==
  /\ job[p].pc = "idle" /\ MayStart(r)
  /\ job' = [job EXCEPT ![p] = [j EXCEPT !.cmd = r]]
  /\ commands' = commands + 1
  /\ UNCHANGED <<state, files, live, notFound, clock, deaths>>

(* A command on deploy `id` that has read the state. *)
Read(id) == [Idle EXCEPT !.id = id, !.st = state, !.etag = state]

DeployOf(r) == [Read(r.id) EXCEPT !.hash = r.hash, !.spa = r.spa, !.todo = PathsOf[r.hash]]

(* The write of j's state, and where the command goes from there. *)
Saving(j, then, promotedTo, removed) ==
  [j EXCEPT !.pc = "check", !.then = then, !.promotedTo = promotedTo, !.removed = removed]

(* New bytes under a free ID, or the same bytes again with --force. *)
DeployNew(p, r) ==
  /\ r.cmd = "deploy" /\ Uploaded(state, r) = {} /\ ~Taken(state, r)
  /\ Begin(p, r, [DeployOf(r) EXCEPT !.pc = IF r.id \in Ids(state.deploys) THEN "upload" ELSE "clear"])

(* Mutant: the deploy production serves may be replaced. *)
DeployOver(p, r) ==
  /\ r.cmd = "deploy" /\ Uploaded(state, r) = {} /\ Taken(state, r)
  /\ Begin(p, r, [DeployOf(r) EXCEPT !.pc = "clear"])

(* Other bytes under an ID in use, confirmed when the ID was custom; never the live deploy or the rollback target. *)
DeployReplacing(p, r) ==
  /\ r.cmd = "deploy" /\ Uploaded(state, r) = {} /\ Taken(state, r)
  /\ ~Blocked(state, r.id)
  /\ Begin(p, r, [DeployOf(r) EXCEPT !.pc = "reread"])

(* Bytes that are there already: the deploy that has them is promoted, its not-found mode brought up to date first. *)
DeployUploaded(p, r) ==
  /\ r.cmd = "deploy"
  /\ \E d \in Uploaded(state, r) :
       LET j == [Read(d.id) EXCEPT !.hash = r.hash, !.spa = r.spa, !.unchanged = state.current = d.id]
       IN  Begin(p, r, IF d.spa = r.spa THEN [j EXCEPT !.pc = "promote"]
                       ELSE Saving([j EXCEPT !.st.deploys = (@ \ {d}) \cup {[d EXCEPT !.spa = r.spa]}],
                                   "promote", None, {}))

(* publish <id>, or --previous when the request names none. *)
Publish(p, r) ==
  LET id == IF r.id = None THEN state.previous ELSE r.id
  IN  /\ r.cmd = "publish"
      /\ id \in Ids(state.deploys) /\ id # state.current
      /\ Begin(p, r, [Read(id) EXCEPT !.pc = "reread"])

Delete(p, r) ==
  /\ r.cmd = "delete"
  /\ r.id \in Ids(state.deploys) /\ ~Blocked(state, r.id)
  /\ Begin(p, r, [Read(r.id) EXCEPT !.pc = "reread", !.todo = {r.id}])

Prune(p, r) ==
  /\ r.cmd = "prune" /\ PruneVictims(state, r.keep) # {}
  /\ Begin(p, r, [Read(None) EXCEPT !.pc = "reread", !.todo = Ids(PruneVictims(state, r.keep))])

-----------------------------------------------------------------------------
(* The steps of a command. *)

Go(p, j) ==
  /\ job' = [job EXCEPT ![p] = j]
  /\ UNCHANGED <<commands, deaths>>

Is(p, pc, cmd) == job[p].pc = pc /\ job[p].cmd.cmd = cmd

(* Mutant: a replacement starts with the files and leaves the record. *)
RereadOnly(p) ==
  LET j == job[p]
  IN  /\ Is(p, "reread", "deploy")
      /\ Go(p, IF Blocked(state, j.id) THEN Idle ELSE [j EXCEPT !.pc = "clear"])
      /\ UNCHANGED <<state, files, live, notFound, clock>>

(* rereadRemoteState before a replacement: the record goes before its files. *)
RereadReplacing(p) ==
  LET j == job[p]
  IN  /\ Is(p, "reread", "deploy")
      /\ Go(p, IF Blocked(state, j.id) THEN Idle
               ELSE Saving([j EXCEPT !.st.deploys = Without(@, {j.id})], "clear", None, {j.id}))
      /\ UNCHANGED <<state, files, live, notFound, clock>>

RereadPublishing(p) ==
  LET j == job[p]
  IN  /\ Is(p, "reread", "publish")
      /\ Go(p, IF j.id \in Ids(state.deploys)
               THEN [j EXCEPT !.st = state, !.etag = state, !.pc = "promote"] ELSE Idle)
      /\ UNCHANGED <<state, files, live, notFound, clock>>

(* Before a delete or a prune: what is live, a rollback target or gone by now is left alone. *)
RereadDeleting(p) ==
  LET j == job[p]
      still == IF j.cmd.cmd = "delete"
               THEN {id \in j.todo \cap Ids(state.deploys) : ~Blocked(state, id)}
               ELSE j.todo \cap Ids(PruneVictims(state, j.cmd.keep))
  IN  /\ Is(p, "reread", "delete") \/ Is(p, "reread", "prune")
      /\ Go(p, IF j.cmd.cmd = "delete" /\ still = {} THEN Idle
               ELSE [j EXCEPT !.st = state, !.etag = state, !.todo = still, !.pc = "sweep"])
      /\ UNCHANGED <<state, files, live, notFound, clock>>

(* The files of the next victim are deleted. *)
Sweep(p) ==
  LET j == job[p]
  IN  /\ j.pc = "sweep"
      /\ \E id \in j.todo :
           /\ files' = [files EXCEPT ![id] = Empty]
           /\ Go(p, [j EXCEPT !.todo = @ \ {id}, !.removed = @ \cup {id}])
      /\ UNCHANGED <<state, live, notFound, clock>>

(* A prune goes on when that fails, before or after the files are gone. *)
SweepFails(p) ==
  LET j == job[p]
  IN  /\ Is(p, "sweep", "prune") /\ deaths < MaxDeaths
      /\ deaths' = deaths + 1
      /\ \E id \in j.todo :
           /\ files' \in {files, [files EXCEPT ![id] = Empty]}
           /\ job' = [job EXCEPT ![p].todo = @ \ {id}]
      /\ UNCHANGED <<state, live, notFound, clock, commands>>

(* Mutant: the removed IDs are told to the write, but their records stay in its state. *)
SweptKeeping(p) ==
  LET j == job[p]
  IN  /\ j.pc = "sweep" /\ j.todo = {}
      /\ Go(p, Saving(j, "idle", None, j.removed))
      /\ UNCHANGED <<state, files, live, notFound, clock>>

(* Only deploys whose files are gone are forgotten. *)
Swept(p) ==
  LET j == job[p]
  IN  /\ j.pc = "sweep" /\ j.todo = {}
      /\ Go(p, Saving([j EXCEPT !.st.deploys = Without(@, j.removed)], "idle", None, j.removed))
      /\ UNCHANGED <<state, files, live, notFound, clock>>

(* A deploy's prefix is emptied, then filled. *)
Clear(p) ==
  LET j == job[p]
  IN  /\ j.pc = "clear"
      /\ files' = [files EXCEPT ![j.id] = Empty]
      /\ Go(p, [j EXCEPT !.pc = "upload"])
      /\ UNCHANGED <<state, live, notFound, clock>>

Upload(p) ==
  LET j == job[p]
  IN  /\ j.pc = "upload"
      /\ \E path \in j.todo :
           /\ files' = [files EXCEPT ![j.id][path] = j.hash]
           /\ Go(p, [j EXCEPT !.todo = @ \ {path}])
      /\ UNCHANGED <<state, live, notFound, clock>>

(* The record of the deploy takes the place of one with its ID. *)
Record(p) ==
  LET j == job[p]
      d == [id |-> j.id, hash |-> j.hash, spa |-> j.spa, createdAt |-> clock + 1]
  IN  /\ j.pc = "upload" /\ j.todo = {}
      /\ clock' = clock + 1
      /\ Go(p, Saving([j EXCEPT !.st.deploys = Without(@, {j.id}) \cup {d}], "promote", None, {}))
      /\ UNCHANGED <<state, files, live, notFound>>

(* promoteDeploy: the zone's settings are fetched ... *)
Promote(p) ==
  /\ job[p].pc = "promote"
  /\ Go(p, [job[p] EXCEPT !.zone = notFound, !.pc = "rule"])
  /\ UNCHANGED <<state, files, live, notFound, clock>>

(* ... the rewrite rule is retargeted ... *)
Retarget(p) ==
  /\ job[p].pc = "rule"
  /\ live' = job[p].id
  /\ Go(p, [job[p] EXCEPT !.pc = "missing"])
  /\ UNCHANGED <<state, files, notFound, clock>>

(* Mutant: the not-found page is set for a single-page app, and never taken back. *)
SetNotFoundForSpa(p) ==
  LET j == job[p]
  IN  /\ j.pc = "missing"
      /\ notFound' = IF \E d \in j.st.deploys : d.id = j.id /\ d.spa THEN j.id ELSE notFound
      /\ Go(p, IF j.unchanged THEN Idle
               ELSE Saving([j EXCEPT !.st = MarkCurrent(@, j.id)], "idle", j.id, {}))
      /\ UNCHANGED <<state, files, live, clock>>

(* ... and the not-found page follows, if it differs from what was fetched. The state is told last. *)
SetNotFound(p) ==
  LET j == job[p]
      page == IF \E d \in j.st.deploys : d.id = j.id /\ d.spa THEN j.id ELSE None
  IN  /\ j.pc = "missing"
      /\ notFound' = IF page = j.zone THEN notFound ELSE page
      /\ Go(p, IF j.unchanged THEN Idle
               ELSE Saving([j EXCEPT !.st = MarkCurrent(@, j.id)], "idle", j.id, {}))
      /\ UNCHANGED <<state, files, live, clock>>

(* writeRemoteState: the file is compared with what was read last, and what it holds now is merged in. *)
Check(p) ==
  LET j == job[p]
  IN  /\ j.pc = "check"
      /\ AtomicWrites => \A q \in Proc : job[q].pc # "put"
      /\ Go(p, [j EXCEPT !.pc = "put",
                         !.st = IF state = j.etag THEN @ ELSE Merged(@, state, j.promotedTo, j.removed)])
      /\ UNCHANGED <<state, files, live, notFound, clock>>

Put(p) ==
  LET j == job[p]
  IN  /\ j.pc = "put"
      /\ state' = j.st
      /\ Go(p, IF j.then = "idle" THEN Idle
               ELSE [j EXCEPT !.pc = j.then, !.etag = j.st, !.removed = {}, !.promotedTo = None])
      /\ UNCHANGED <<files, live, notFound, clock>>

(* A request fails, or the process is killed: the command ends where it is. *)
Die(p) ==
  /\ job[p].pc # "idle" /\ deaths < MaxDeaths
  /\ deaths' = deaths + 1
  /\ job' = [job EXCEPT ![p] = Idle]
  /\ UNCHANGED <<state, files, live, notFound, clock, commands>>

Start(p) ==
  \E r \in Requests :
    \/ DeployNew(p, r) \/ DeployReplacing(p, r) \/ DeployUploaded(p, r)
    \/ Publish(p, r) \/ Delete(p, r) \/ Prune(p, r)

Step(p) ==
  \/ RereadReplacing(p) \/ RereadPublishing(p) \/ RereadDeleting(p) \/ Sweep(p) \/ SweepFails(p) \/ Swept(p)
  \/ Clear(p) \/ Upload(p) \/ Record(p) \/ Promote(p) \/ Retarget(p) \/ SetNotFound(p)
  \/ Check(p) \/ Put(p)

Next == \E p \in Proc : Start(p) \/ Step(p) \/ Die(p)

Spec == Init /\ [][Next]_vars

-----------------------------------------------------------------------------
(* Properties. *)

(* Nobody is in the middle of a command. *)
Quiet == Running = {}

(* A recorded deploy never holds bytes of another content, whatever was replaced, pruned or cut short before (deploy.ts, "no record ever vouches for a prefix mid-rewrite"). *)
RecordsVouch ==
  \A d \in state.deploys : \A path \in Path : files[d.id][path] \in {None, Whole(d.hash)[path]}

(* Between commands, as long as nothing failed, every recorded deploy can be published: all its files are there. *)
RecordsWhole ==
  Quiet /\ deaths = 0 => \A d \in state.deploys : files[d.id] = Whole(d.hash)

(* The current deploy and the rollback target are recorded, so that `publish --previous` finds its target. *)
PointersRecorded == {state.current, state.previous} \subseteq Ids(state.deploys) \cup {None}

(* A record leaves the state file only for a writer that removed it or replaced it, however writers overlap. *)
RecordsKept ==
  [][\A d \in state.deploys : d.id \notin Ids(state'.deploys)
       => \E p \in Proc : job[p].pc = "put" /\ d.id \in job[p].removed]_vars

(* A deploy or publish that runs alone and ends well leaves the rule, the state and the not-found page on its deploy, whatever earlier commands left half done. *)
PublishSettles ==
  [][\A p \in Proc :
       /\ job[p].pc = "missing" \/ (job[p].pc = "put" /\ job[p].promotedTo # None)
       /\ job'[p].pc = "idle" /\ deaths' = deaths
       => /\ live = job[p].id /\ state'.current = live
          /\ notFound' = IF \E d \in state'.deploys : d.id = live /\ d.spa THEN live ELSE None]_vars

(* As long as nothing failed, what production serves is at every moment a whole deploy. *)
ServesWhole ==
  deaths = 0 /\ live # None => \E h \in Hash : files[live] = Whole(h)

(* No delete, prune or replacement takes files away from the deploy production serves (README.md, "never current/previous"). *)
LiveUntouched ==
  [][live # None => \A path \in Path : files[live][path] # None => files'[live][path] # None]_vars
=============================================================================
