------------------------------ MODULE AppDeploy ------------------------------
(***************************************************************************)
(* Apps (packages/cli/src/commands/apps): `deploy`, which builds and       *)
(* pushes images, creates or patches the app and deploys it, and `push`,   *)
(* `pull`, `link`, `unlink`, `delete` and `undeploy`.  They share          *)
(* bunny.jsonc, which holds intent, `.bunny/app.json`, which holds the ID  *)
(* of the app, the registry of images and the app itself.                  *)
(***************************************************************************)
EXTENDS Naturals

CONSTANTS
  Proc,         \* commands that may run at one time in the directory
  App,          \* IDs an app may get
  Container,    \* containers an app may have
  Position,     \* Position[c]: where bunny.jsonc lists c
  Built,        \* refs an image built here may get: registry, name and tag
  Pinned,       \* refs of images published elsewhere
  NoImage,      \* "": the template has no image
  None,
  MaxCommands,  \* bound: commands and edits
  MaxFaults     \* bound: requests that fail, answers lost, processes that die

ASSUME AppsAssumption ==
  /\ Container # {} /\ Position \in [Container -> Nat]
  /\ \A S \in (SUBSET Container) \ {{}} : \E c \in S : \A d \in S : Position[c] <= Position[d]
  /\ Built \cap Pinned = {} /\ NoImage \notin Built \cup Pinned
  /\ None \notin App \cup Built \cup Pinned \cup Container \cup {NoImage}
  /\ LET sources == [dockerfile : BOOLEAN, image : Built \cup Pinned \cup {NoImage}]
     IN  None \notin sources /\ None \notin [Container -> sources \cup {None}]
  /\ MaxCommands \in Nat /\ MaxFaults \in Nat

VARIABLES
  config,    \* bunny.jsonc: what each container is built from or runs, or None
  manifest,  \* the app `.bunny/app.json` names, or None
  registry,  \* built images that were pushed
  app,       \* app[a]: the app's templates, and what it runs since its last deploy
  cmd,       \* cmd[p]: the command p runs
  orderly,   \* history: commands ran one after another, and no app was let go
  commands,
  faults

files == <<config, manifest>>
remote == <<registry, app>>
apps == <<config, manifest, registry, app, cmd, orderly, commands, faults>>

Image == Built \cup Pinned

(* A container of bunny.jsonc; the image of one with a dockerfile is known to the run that built it only. *)
Source(dockerfile, image) == [dockerfile |-> dockerfile, image |-> image]
Configs == {t \in [Container -> {Source(TRUE, NoImage), None} \cup {Source(FALSE, i) : i \in Pinned}] :
              \E c \in Container : t[c] # None}
stripTransientFields(t) ==
  [c \in Container |-> IF t[c] # None /\ t[c].dockerfile THEN [t[c] EXCEPT !.image = NoImage] ELSE t[c]]

Entries(t) == {c \in Container : t[c] # None}
Foremost(S) == CHOOSE c \in S : \A d \in S : Position[c] <= Position[d]
Templates(t) == [c \in Container |-> IF t[c] = None THEN None ELSE t[c].image]
Nowhere == [c \in Container |-> None]
NoApp == [is |-> "new", template |-> Nowhere, running |-> Nowhere]
There(a) == a # None /\ app[a].is = "there"

NoCommand == [pc |-> "idle", kind |-> "deploy", toml |-> None, id |-> None, todo |-> {}, target |-> None,
              image |-> None, noPush |-> FALSE]

AppsInit ==
  /\ config = None /\ manifest = None
  /\ registry = {}
  /\ app = [a \in App |-> NoApp]
  /\ cmd = [p \in Proc |-> NoCommand]
  /\ orderly = TRUE
  /\ commands = 0 /\ faults = 0

------------------------------------------------------------------------------
At(p, pc) == cmd[p].pc = pc
Idle(p) == At(p, "idle")
To(c, pc) == IF pc = "idle" THEN NoCommand ELSE [c EXCEPT !.pc = pc]
Keeps(p, c) == cmd' = [cmd EXCEPT ![p] = c]
Goes(p, pc) == Keeps(p, To(cmd[p], pc))
Sound == UNCHANGED faults
Faulty == faults < MaxFaults /\ faults' = faults + 1

Begins(p) ==
  /\ Idle(p) /\ commands < MaxCommands /\ commands' = commands + 1
  /\ UNCHANGED <<remote, faults>>
Alone == \A q \in Proc : Idle(q)

Dies(p) ==
  /\ ~Idle(p) /\ Faulty
  /\ Goes(p, "idle")
  /\ UNCHANGED <<files, remote, orderly, commands>>

(* The user writes bunny.jsonc. *)
Edit(t) ==
  /\ commands < MaxCommands /\ commands' = commands + 1
  /\ config' = t
  /\ UNCHANGED <<manifest, remote, cmd, orderly, faults>>

------------------------------------------------------------------------------
(* deploy: what to deploy, and from what. *)

Request == [image : Pinned \cup {None}, dockerfile : BOOLEAN, container : Container \cup {None}, noPush : BOOLEAN]
Plain(r) == r.image = None /\ ~r.dockerfile /\ r.container = None

(* runWalkthrough, when there is no bunny.jsonc: one container for an image or a Dockerfile, else whatever is found. *)
Walked(r) ==
  LET only(s) == {[c \in Container |-> IF c = Foremost(Container) THEN s ELSE None]} IN
  IF r.image # None THEN only(Source(FALSE, r.image))
  ELSE IF r.dockerfile THEN only(Source(TRUE, NoImage)) ELSE Configs

Several(t) == \E c, d \in Entries(t) : c # d

(* resolveTargetContainer; None is refused. *)
Target(t, r) ==
  IF r.container # None THEN IF t[r.container] # None THEN r.container ELSE None
  ELSE IF Several(t) /\ ~Plain(r) THEN None ELSE Foremost(Entries(t))

(* resolveMode. *)
Mode(t, target, r) ==
  IF target = None THEN "idle"
  ELSE IF r.image # None THEN "image"
  ELSE IF r.dockerfile \/ t[target].dockerfile THEN "build"
  ELSE IF t[target].image # NoImage THEN "apply" ELSE "idle"

(* prepareContainersForCreate: one container after the other. *)
Prepare(c) ==
  LET s == c.toml[Foremost(c.todo)] IN
  To([c EXCEPT !.target = Foremost(c.todo), !.image = s.image],
     IF s.dockerfile THEN "build" ELSE IF s.image # NoImage THEN "image" ELSE "idle")

Deploying(t, r) ==
  LET c == [NoCommand EXCEPT !.toml = t, !.id = manifest]
      target == Target(t, r) IN
  IF manifest = None /\ Several(t) /\ Plain(r) THEN Prepare([c EXCEPT !.todo = Entries(t)])
  ELSE To([c EXCEPT !.target = target, !.image = r.image, !.noPush = r.noPush], Mode(t, target, r))

Deploy(p, r) ==
  /\ ~(r.image # None /\ r.dockerfile)
  /\ Begins(p)
  /\ \E t \in IF config = None THEN Walked(r) ELSE {config} : config' = t /\ Keeps(p, Deploying(t, r))
  /\ orderly' = (orderly /\ Alone)
  /\ UNCHANGED manifest

(* What follows on a container: the next one of a first deploy, or the app. *)
Prepared(c) == IF c.todo \ {c.target} # {} THEN Prepare([c EXCEPT !.todo = @ \ {c.target}]) ELSE To(c, "apply")

(* persistDraft: the ID the run started with, or has created since. *)
Draft(c) == IF c.id = None THEN manifest ELSE c.id
Persist(c) == manifest' = Draft(c)

(* A registry is known, or asked for and recorded; then docker builds. *)
BuildImage(p) ==
  LET c == cmd[p] IN
  /\ At(p, "build")
  /\ manifest' \in {manifest, Draft(c)}
  /\ \/ \E i \in Built : Keeps(p, To([c EXCEPT !.image = i], IF c.noPush THEN "idle" ELSE "push")) /\ Sound
     \/ Goes(p, "idle") /\ Faulty
  /\ UNCHANGED <<config, remote, orderly, commands>>

(* Mutant: the image is deployed whether or not the push got through. *)
PushAnyway(p) ==
  LET c == cmd[p]
      t == [c.toml EXCEPT ![c.target] = Source(TRUE, c.image)] IN
  /\ At(p, "push")
  /\ registry' \in {registry, registry \cup {c.image}}
  /\ config' = stripTransientFields(t)
  /\ Keeps(p, Prepared([c EXCEPT !.toml = t]))
  /\ UNCHANGED <<manifest, app, orderly, commands, faults>>

(* docker push; only then the ref goes into the config of the run, and bunny.jsonc is saved without it. *)
PushImage(p) ==
  LET c == cmd[p]
      t == [c.toml EXCEPT ![c.target] = Source(TRUE, c.image)] IN
  /\ At(p, "push")
  /\ \/ /\ registry' = registry \cup {c.image}
        /\ config' = stripTransientFields(t)
        /\ Keeps(p, Prepared([c EXCEPT !.toml = t]))
        /\ Sound
     \/ registry' \in {registry, registry \cup {c.image}} /\ Goes(p, "idle") /\ Faulty /\ UNCHANGED config
  /\ UNCHANGED <<manifest, app, orderly, commands>>

(* resolveRegistryForImage, for an image named on the command line or pinned in bunny.jsonc. *)
ResolveImage(p) ==
  LET c == cmd[p]
      t == [c.toml EXCEPT ![c.target].image = c.image] IN
  /\ At(p, "image")
  /\ \/ Persist(c) /\ config' = stripTransientFields(t) /\ Keeps(p, Prepared([c EXCEPT !.toml = t])) /\ Sound
     \/ Goes(p, "idle") /\ Faulty /\ UNCHANGED files
  /\ UNCHANGED <<remote, orderly, commands>>

------------------------------------------------------------------------------
(* deploy: the app. *)

Creates(a, t) == app' = [app EXCEPT ![a] = [is |-> "there", template |-> Templates(t), running |-> Nowhere]]

(* After the app is there: the templates of a first deploy are read, else the image is set, unless it is as it was. *)
Applied(c) == IF c.kind = "push" THEN "idle" ELSE IF c.image = None /\ c.todo = {} THEN "deploy" ELSE "fetch"

(* Mutant: the ID is not written before everything is deployed. *)
CreateForgetful(p) ==
  LET c == cmd[p] IN
  /\ At(p, "apply") /\ c.id = None
  /\ \E a \in App : app[a].is = "new" /\ Creates(a, c.toml) /\ Keeps(p, To([c EXCEPT !.id = a], Applied(c)))
  /\ UNCHANGED <<files, registry, orderly, commands, faults>>

(* POST /apps; the ID is written before anything else is asked.  Without the answer nobody knows of the app. *)
Create(p) ==
  LET c == cmd[p] IN
  /\ At(p, "apply") /\ c.id = None
  /\ \E a \in App :
       /\ app[a].is = "new"
       /\ \/ Creates(a, c.toml) /\ manifest' = a /\ Keeps(p, To([c EXCEPT !.id = a], Applied(c))) /\ Sound /\ UNCHANGED orderly
          \/ Creates(a, c.toml) /\ Goes(p, "idle") /\ Faulty /\ orderly' = FALSE /\ UNCHANGED manifest
  /\ UNCHANGED <<config, registry, commands>>

(* The app as it is; the patch takes template IDs and environment from it. *)
ReadApp(p) ==
  /\ At(p, "apply") /\ cmd[p].id # None
  /\ \/ Goes(p, IF There(cmd[p].id) THEN "patch" ELSE "idle") /\ Sound
     \/ Goes(p, "idle") /\ Faulty
  /\ UNCHANGED <<files, remote, orderly, commands>>

(* PATCH replaces the templates of the app by those of bunny.jsonc and of this run. *)
PatchApp(p) ==
  LET c == cmd[p] a == cmd[p].id
      Patched == app' = [app EXCEPT ![a].template = Templates(c.toml)] IN
  /\ At(p, "patch")
  /\ \/ There(a) /\ Patched /\ Goes(p, Applied(c)) /\ Sound
     \/ ~There(a) /\ UNCHANGED app /\ Goes(p, "idle") /\ Sound
     \/ Goes(p, "idle") /\ Faulty /\ (UNCHANGED app \/ (There(a) /\ Patched))
  /\ UNCHANGED <<files, registry, orderly, commands>>

TemplatesOf(a) == {c \in Container : app[a].template[c] # None}

(* The template of the target by name, or the only one; its ID is recorded. *)
FetchApp(p) ==
  LET c == cmd[p]
      matched == IF c.target \in TemplatesOf(c.id) THEN {c.target}
                 ELSE {m \in Container : TemplatesOf(c.id) = {m}} IN
  /\ At(p, "fetch")
  /\ \/ There(c.id) /\ c.todo # {} /\ Persist(c) /\ Goes(p, "deploy") /\ Sound
     \/ /\ There(c.id) /\ c.todo = {} /\ Sound
        /\ \/ \E m \in matched : Persist(c) /\ Keeps(p, To([c EXCEPT !.target = m], "swap"))
           \/ matched = {} /\ UNCHANGED manifest /\ Goes(p, "idle")
     \/ UNCHANGED manifest /\ Goes(p, "idle") /\ ((~There(c.id) /\ Sound) \/ Faulty)
  /\ UNCHANGED <<config, remote, orderly, commands>>

(* PATCH of one container: the image. *)
SwapImage(p) ==
  LET c == cmd[p]
      here == There(c.id) /\ c.target \in TemplatesOf(c.id)
      Swapped == app' = [app EXCEPT ![c.id].template[c.target] = c.image] IN
  /\ At(p, "swap")
  /\ \/ here /\ Swapped /\ Goes(p, "deploy") /\ Sound
     \/ ~here /\ UNCHANGED app /\ Goes(p, "idle") /\ Sound
     \/ Goes(p, "idle") /\ Faulty /\ (UNCHANGED app \/ (here /\ Swapped))
  /\ UNCHANGED <<files, registry, orderly, commands>>

(* POST deploy: the app runs its templates. *)
DeployApp(p) ==
  LET a == cmd[p].id
      Deployed == app' = [app EXCEPT ![a].running = app[a].template] IN
  /\ At(p, "deploy")
  /\ \/ There(a) /\ Deployed /\ Sound
     \/ ~There(a) /\ UNCHANGED app /\ Sound
     \/ Faulty /\ (UNCHANGED app \/ (There(a) /\ Deployed))
  /\ Goes(p, "idle")
  /\ UNCHANGED <<files, registry, orderly, commands>>

------------------------------------------------------------------------------
(* The other commands. *)

(* push: the patch alone, from bunny.jsonc as it is on disk. *)
PushConfig(p) ==
  /\ config # None /\ manifest # None
  /\ Begins(p)
  /\ Keeps(p, [NoCommand EXCEPT !.pc = "apply", !.kind = "push", !.toml = config, !.id = manifest])
  /\ orderly' = (orderly /\ Alone)
  /\ UNCHANGED files

(* pull, link, delete and undeploy are one request and what follows its answer. *)
On(p, kind, a) ==
  /\ Begins(p)
  /\ Keeps(p, [NoCommand EXCEPT !.pc = kind, !.kind = kind, !.id = a])
  /\ orderly' = (orderly /\ Alone)
  /\ UNCHANGED files

(* An app this directory lets go is another's from now on. *)
LetsGo(a) == orderly' = (orderly /\ manifest \in {None, a})

(* bunny.jsonc becomes what the app runs: a container built here is pinned to the image it has. *)
Pull(p) ==
  LET a == cmd[p].id
      t == [c \in Container |-> IF c \in TemplatesOf(a) THEN Source(FALSE, app[a].template[c]) ELSE None] IN
  /\ At(p, "pull")
  /\ \/ There(a) /\ config' = t /\ manifest' = a /\ LetsGo(a) /\ Sound
     \/ UNCHANGED <<files, orderly>> /\ ((~There(a) /\ Sound) \/ Faulty)
  /\ Goes(p, "idle")
  /\ UNCHANGED <<remote, commands>>

Link(p) ==
  LET a == cmd[p].id IN
  /\ At(p, "link")
  /\ \/ There(a) /\ manifest' = a /\ LetsGo(a) /\ Sound
     \/ UNCHANGED <<manifest, orderly>> /\ ((~There(a) /\ Sound) \/ Faulty)
  /\ Goes(p, "idle")
  /\ UNCHANGED <<config, remote, commands>>

Unlink ==
  /\ manifest # None /\ commands < MaxCommands /\ commands' = commands + 1
  /\ manifest' = None /\ orderly' = FALSE
  /\ UNCHANGED <<config, remote, cmd, faults>>

(* The manifest goes once the app is gone, if it still names it. *)
Delete(p) ==
  LET a == cmd[p].id
      Gone == app' = [app EXCEPT ![a] = [NoApp EXCEPT !.is = "gone"]] IN
  /\ At(p, "delete")
  /\ \/ There(a) /\ Gone /\ manifest' = (IF manifest = a THEN None ELSE manifest) /\ Sound
     \/ UNCHANGED manifest /\ ((~There(a) /\ UNCHANGED app /\ Sound) \/ (Faulty /\ (UNCHANGED app \/ (There(a) /\ Gone))))
  /\ Goes(p, "idle")
  /\ UNCHANGED <<config, registry, orderly, commands>>

Undeploy(p) ==
  LET a == cmd[p].id
      Stopped == app' = [app EXCEPT ![a].running = Nowhere] IN
  /\ At(p, "undeploy")
  /\ \/ There(a) /\ Stopped /\ Sound
     \/ UNCHANGED app /\ ((~There(a) /\ Sound) \/ Faulty)
     \/ There(a) /\ Stopped /\ Faulty
  /\ Goes(p, "idle")
  /\ UNCHANGED <<files, registry, orderly, commands>>

------------------------------------------------------------------------------
Starts(p) ==
  \/ \E r \in Request : Deploy(p, r)
  \/ PushConfig(p)
  \/ \E kind \in {"pull", "link", "delete", "undeploy"}, a \in {a \in App : app[a].is # "new"} : On(p, kind, a)

Steps(p) ==
  \/ BuildImage(p) \/ PushImage(p) \/ ResolveImage(p)
  \/ Create(p) \/ ReadApp(p) \/ PatchApp(p) \/ FetchApp(p) \/ SwapImage(p) \/ DeployApp(p)
  \/ Pull(p) \/ Link(p) \/ Delete(p) \/ Undeploy(p)

AppsNext ==
  \/ \E t \in Configs : Edit(t)
  \/ Unlink
  \/ \E p \in Proc : Starts(p) \/ Steps(p) \/ Dies(p)

AppsSpec == AppsInit /\ [][AppsNext]_apps

------------------------------------------------------------------------------
(* Properties. *)

Sources == [dockerfile : BOOLEAN, image : Image \cup {NoImage}]
Tomls == {t \in [Container -> Sources \cup {None}] : Entries(t) # {}}
Working == {"build", "push", "image", "apply", "patch", "fetch", "swap", "deploy"}
CommandOf ==
  [pc : Working \cup {"idle", "pull", "link", "delete", "undeploy"},
   kind : {"deploy", "push", "pull", "link", "delete", "undeploy"},
   toml : Tomls \cup {None}, id : App \cup {None}, todo : SUBSET Container, target : Container \cup {None},
   image : Image \cup {NoImage, None}, noPush : BOOLEAN]

(* Every variable has its type; bunny.jsonc and an app that is there have a container. *)
AppsTypeOK ==
  /\ config \in Tomls \cup {None}
  /\ manifest \in App \cup {None}
  /\ registry \subseteq Built
  /\ app \in [App -> [is : {"new", "there", "gone"}, template : [Container -> Image \cup {NoImage, None}],
                      running : [Container -> Image \cup {NoImage, None}]]]
  /\ \A a \in App : There(a) => TemplatesOf(a) # {}
  /\ cmd \in [Proc -> CommandOf]
  /\ orderly \in BOOLEAN
  /\ commands \in Nat /\ faults \in Nat

(* Whatever an app runs can be pulled: no template ever names an image built here that was not pushed, whichever step failed or command came in between (deploy.ts:587). *)
RunsPushed ==
  \A a \in App, c \in Container :
    {app[a].template[c], app[a].running[c]} \cap Built \subseteq registry

(* A deploy that stops anywhere after the app was created is taken up by the next one: commands run one after another never leave an app that the directory does not know, and so never create a second (deploy.ts:351). *)
OneApp ==
  orderly /\ Alone => \A a \in App : There(a) => manifest = a
=============================================================================
