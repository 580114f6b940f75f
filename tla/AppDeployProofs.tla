--------------------------- MODULE AppDeployProofs ---------------------------
(***************************************************************************)
(* Proofs about AppDeploy, for every number of commands, containers and    *)
(* apps, however commands overlap and wherever they fail: the state is     *)
(* well formed, no template names an image built here that was not pushed, *)
(* and commands run in turn leave the directory no app it does not know.   *)
(***************************************************************************)
EXTENDS AppDeploy, TLAPS

USE AppsAssumption

-----------------------------------------------------------------------------
(* The invariant: whoever holds the ref of a built image pushed it, but for a command between build and push. *)

Pushed(i, pushed) == i \in Built => i \in pushed
TomlPushed(t, pushed) == t \in Tomls => \A c \in Container : t[c] # None => Pushed(t[c].image, pushed)

(* A command with a readable bunny.jsonc, all of whose built images were pushed. *)
Fit(c, pushed) ==
  /\ c \in CommandOf
  /\ c.toml \in Tomls /\ TomlPushed(c.toml, pushed)
  /\ c.todo \subseteq Entries(c.toml)

CommandOK(c, pushed) ==
  /\ c \in CommandOf
  /\ c.pc \in Working => Fit(c, pushed) /\ c.kind \in {"deploy", "push"}
  /\ c.pc # "push" => Pushed(c.image, pushed)
  /\ c.pc \in {"build", "push", "image"} => c.target \in Entries(c.toml) /\ c.kind = "deploy"
  /\ c.pc = "push" => c.image \in Built
  /\ c.pc = "image" => c.image # None
  /\ c.pc = "fetch" => c.image # None \/ c.todo # {}
  /\ c.pc = "swap" => c.image # None /\ c.target \in Container

AppPushed(x, pushed) == \A c \in Container : Pushed(x.template[c], pushed) /\ Pushed(x.running[c], pushed)

IInv ==
  /\ AppsTypeOK
  /\ TomlPushed(config, registry)
  /\ \A p \in Proc : CommandOK(cmd[p], registry)
  /\ \A a \in App : AppPushed(app[a], registry)

-----------------------------------------------------------------------------
(* The operators. *)

LEMMA ForemostIsIn ==
  ASSUME NEW S \in SUBSET Container, S # {}
  PROVE  Foremost(S) \in S
<1>1. \E c \in S : \A d \in S : Position[c] <= Position[d]
  BY DEF AppsAssumption
<1> QED
  BY <1>1 DEF Foremost

LEMMA PushedGrows ==
  ASSUME NEW pushed \in SUBSET Built, NEW more \in SUBSET Built, pushed \subseteq more
  PROVE  /\ \A i : Pushed(i, pushed) => Pushed(i, more)
         /\ \A t : TomlPushed(t, pushed) => TomlPushed(t, more)
         /\ \A c : CommandOK(c, pushed) => CommandOK(c, more)
         /\ \A x : AppPushed(x, pushed) => AppPushed(x, more)
<1>1. \A i : Pushed(i, pushed) => Pushed(i, more)
  BY DEF Pushed
<1>2. \A t : TomlPushed(t, pushed) => TomlPushed(t, more)
  BY <1>1 DEF TomlPushed
<1>3. \A c : CommandOK(c, pushed) => CommandOK(c, more)
  BY <1>1, <1>2 DEF CommandOK, Fit
<1>4. \A x : AppPushed(x, pushed) => AppPushed(x, more)
  BY <1>1 DEF AppPushed
<1> QED
  BY <1>1, <1>2, <1>3, <1>4

LEMMA NoCommandOK ==
  ASSUME NEW pushed
  PROVE  CommandOK(NoCommand, pushed)
BY DEF CommandOK, NoCommand, CommandOf, Working, Pushed, AppsAssumption

(* A command goes on; an end forgets everything. *)
LEMMA GoesOnOK ==
  ASSUME NEW pushed, NEW c, NEW pc \in Working \cup {"idle"}, Fit(c, pushed), c.kind \in {"deploy", "push"},
         pc \notin {"push", "idle"} => Pushed(c.image, pushed),
         pc \in {"build", "push", "image"} => c.target \in Entries(c.toml) /\ c.kind = "deploy",
         pc = "push" => c.image \in Built, pc = "image" => c.image # None,
         pc = "fetch" => c.image # None \/ c.todo # {},
         pc = "swap" => c.image # None /\ c.target \in Container
  PROVE  CommandOK(To(c, pc), pushed)
<1>1. CASE pc = "idle"
  BY <1>1, NoCommandOK DEF To
<1>2. CASE pc # "idle"
  <2>1. To(c, pc) = [c EXCEPT !.pc = pc]
    BY <1>2 DEF To
  <2> QED
    BY <1>2, <2>1 DEF CommandOK, Fit, CommandOf, Working
<1> QED
  BY <1>1, <1>2

LEMMA PrepareOK ==
  ASSUME NEW pushed, NEW c, Fit(c, pushed), c.kind = "deploy", c.todo # {}
  PROVE  CommandOK(Prepare(c), pushed)
<1> DEFINE f == Foremost(c.todo)
           s == c.toml[f]
           d == [c EXCEPT !.target = f, !.image = s.image]
           pc == IF s.dockerfile THEN "build" ELSE IF s.image # NoImage THEN "image" ELSE "idle"
<1>1. f \in c.todo /\ f \in Container
  BY ForemostIsIn DEF Fit, CommandOf
<1>2. s \in Sources /\ Pushed(s.image, pushed)
  BY <1>1 DEF Fit, Tomls, Entries, TomlPushed
<1>3. Fit(d, pushed) /\ d.kind = "deploy" /\ d.image = s.image /\ d.target = f /\ d.toml = c.toml
  BY <1>1, <1>2 DEF Fit, CommandOf, Sources
<1>4. pc \in Working \cup {"idle"} /\ pc \notin {"fetch", "swap", "push"} /\ s.image # None
  BY <1>2 DEF Working, Sources, Image, AppsAssumption
<1>5. f \in Entries(d.toml)
  BY <1>1, <1>3 DEF Fit
<1>6. CommandOK(To(d, pc), pushed)
  <2> HIDE DEF d, pc
  <2> QED
    BY <1>2, <1>3, <1>4, <1>5, GoesOnOK
<1> QED
  BY <1>6 DEF Prepare

LEMMA PreparedOK ==
  ASSUME NEW pushed, NEW c, Fit(c, pushed), c.kind = "deploy", Pushed(c.image, pushed)
  PROVE  CommandOK(Prepared(c), pushed)
<1>1. CASE c.todo \ {c.target} # {}
  <2> DEFINE d == [c EXCEPT !.todo = @ \ {c.target}]
  <2>1. Fit(d, pushed) /\ d.kind = "deploy" /\ d.todo = c.todo \ {c.target}
    BY DEF Fit, CommandOf
  <2>2. CommandOK(Prepare(d), pushed)
    BY <1>1, <2>1, PrepareOK
  <2> QED
    BY <1>1, <2>2 DEF Prepared
<1>2. CASE ~(c.todo \ {c.target} # {})
  <2>1. CommandOK(To(c, "apply"), pushed)
    BY GoesOnOK DEF Working
  <2> QED
    BY <1>2, <2>1 DEF Prepared
<1> QED
  BY <1>1, <1>2

LEMMA StripKeeps ==
  ASSUME NEW pushed, NEW t \in Tomls, TomlPushed(t, pushed)
  PROVE  stripTransientFields(t) \in Tomls /\ TomlPushed(stripTransientFields(t), pushed)
<1> DEFINE u == stripTransientFields(t)
<1>1. t \in [Container -> Sources \cup {None}]
  BY DEF Tomls
<1>2. ASSUME NEW c \in Container
      PROVE  /\ u[c] \in Sources \cup {None}
             /\ u[c] = None <=> t[c] = None
             /\ u[c] # None => Pushed(u[c].image, pushed)
  <2>1. CASE t[c] = None
    BY <2>1 DEF stripTransientFields
  <2>2. CASE t[c] # None
    <3>1. t[c] \in Sources /\ Pushed(t[c].image, pushed)
      BY <1>1, <2>2 DEF TomlPushed, AppsAssumption
    <3>2. u[c] = IF t[c].dockerfile THEN [t[c] EXCEPT !.image = NoImage] ELSE t[c]
      BY <2>2 DEF stripTransientFields
    <3>3. u[c] \in Sources /\ Pushed(u[c].image, pushed)
      BY <3>1, <3>2 DEF Sources, Pushed, AppsAssumption
    <3>4. u[c] # None
      BY <2>2, <3>1, <3>3 DEF Sources, Image, AppsAssumption
    <3> QED
      BY <2>2, <3>3, <3>4
  <2> QED
    BY <2>1, <2>2
<1>3. u \in [Container -> Sources \cup {None}]
  BY <1>2 DEF stripTransientFields
<1>4. Entries(u) = Entries(t)
  BY <1>2 DEF Entries
<1> HIDE DEF u
<1> QED
  BY <1>2, <1>3, <1>4 DEF Tomls, TomlPushed, u

-----------------------------------------------------------------------------
(* One step: nothing that was pushed goes away, and everything written names pushed images only. *)

AppOK(x, pushed) ==
  /\ x \in [is : {"new", "there", "gone"}, template : [Container -> Image \cup {NoImage, None}],
             running : [Container -> Image \cup {NoImage, None}]]
  /\ x.is = "there" => \E c \in Container : x.template[c] # None
  /\ AppPushed(x, pushed)

FilesOK ==
  /\ config' \in Tomls \cup {None} /\ TomlPushed(config', registry')
  /\ manifest' \in App \cup {None}
CountsOK == orderly' \in BOOLEAN /\ commands' \in Nat /\ faults' \in Nat
RegistryOK == registry \subseteq registry' /\ registry' \subseteq Built
AppOKNow == app' = app \/ \E a \in App : \E x : AppOK(x, registry') /\ app' = [app EXCEPT ![a] = x]
CmdOKNow == cmd' = cmd \/ \E p \in Proc : \E c : CommandOK(c, registry') /\ cmd' = [cmd EXCEPT ![p] = c]

StepOK == FilesOK /\ CountsOK /\ RegistryOK /\ AppOKNow /\ CmdOKNow

LEMMA AppsAre ==
  ASSUME AppsTypeOK, \A a \in App : AppPushed(app[a], registry)
  PROVE  \A a \in App : AppOK(app[a], registry)
BY DEF AppsTypeOK, AppOK, There, TemplatesOf, AppsAssumption

LEMMA StepKeeps ==
  ASSUME IInv, StepOK
  PROVE  IInv'
<1> USE DEF StepOK
<1>1. TomlPushed(config, registry)' /\ (config \in Tomls \cup {None})' /\ (manifest \in App \cup {None})'
  BY DEF FilesOK
<1>2. /\ \A c : CommandOK(c, registry) => CommandOK(c, registry')
      /\ \A x : AppPushed(x, registry) => AppPushed(x, registry')
  BY PushedGrows DEF RegistryOK, IInv, AppsTypeOK
<1>3. /\ (cmd \in [Proc -> CommandOf])'
      /\ \A p \in Proc : CommandOK(cmd'[p], registry')
  <2>1. cmd \in [Proc -> CommandOf] /\ \A p \in Proc : CommandOK(cmd[p], registry')
    BY <1>2 DEF IInv, AppsTypeOK
  <2>2. CASE cmd' = cmd
    BY <2>1, <2>2
  <2>3. ASSUME NEW p \in Proc, NEW c, CommandOK(c, registry'), cmd' = [cmd EXCEPT ![p] = c]
        PROVE  cmd' \in [Proc -> CommandOf] /\ \A q \in Proc : CommandOK(cmd'[q], registry')
    <3>1. c \in CommandOf
      BY <2>3 DEF CommandOK
    <3> QED
      BY <2>1, <2>3, <3>1
  <2> QED
    BY <2>2, <2>3 DEF CmdOKNow
<1>4. /\ \A a \in App : AppOK(app'[a], registry')
      /\ DOMAIN app' = App /\ app' = [a \in App |-> app'[a]]
  <2>1. \A a \in App : AppOK(app[a], registry')
    BY <1>2, AppsAre DEF IInv, AppOK
  <2>2. DOMAIN app = App /\ app = [a \in App |-> app[a]]
    BY DEF IInv, AppsTypeOK
  <2>3. CASE app' = app
    BY <2>1, <2>2, <2>3
  <2>4. ASSUME NEW a \in App, NEW x, AppOK(x, registry'), app' = [app EXCEPT ![a] = x]
        PROVE  /\ \A b \in App : AppOK(app'[b], registry')
               /\ DOMAIN app' = App /\ app' = [b \in App |-> app'[b]]
    BY <2>1, <2>2, <2>4
  <2> QED
    BY <2>3, <2>4 DEF AppOKNow
<1>5. /\ (app \in [App -> [is : {"new", "there", "gone"}, template : [Container -> Image \cup {NoImage, None}],
                           running : [Container -> Image \cup {NoImage, None}]]])'
      /\ \A a \in App : AppPushed(app'[a], registry')
  BY <1>4 DEF AppOK
<1>6. (\A a \in App : There(a) => TemplatesOf(a) # {})'
  BY <1>4 DEF There, TemplatesOf, AppOK
<1>7. AppsTypeOK'
  BY <1>1, <1>3, <1>5, <1>6 DEF AppsTypeOK, CountsOK, RegistryOK
<1> QED
  BY <1>1, <1>3, <1>5, <1>7 DEF IInv

(* What the steps of one command find. *)
LEMMA CommandAt ==
  ASSUME IInv, NEW p \in Proc
  PROVE  /\ CommandOK(cmd[p], registry)
         /\ cmd[p] \in CommandOf
         /\ cmd[p].pc \in Working => Fit(cmd[p], registry) /\ cmd[p].kind \in {"deploy", "push"}
BY DEF IInv, AppsTypeOK, CommandOK

(* Where only the command changes. *)
LEMMA Quiet ==
  ASSUME IInv, NEW p \in Proc, NEW c, CommandOK(c, registry), cmd' = [cmd EXCEPT ![p] = c],
         UNCHANGED <<files, remote>>, CountsOK
  PROVE  StepOK
BY DEF IInv, AppsTypeOK, StepOK, FilesOK, RegistryOK, AppOKNow, CmdOKNow, files, remote

LEMMA IdleCommand ==
  ASSUME NEW c
  PROVE  To(c, "idle") = NoCommand
BY DEF To

LEMMA FilesStay ==
  ASSUME IInv, RegistryOK, UNCHANGED <<config, manifest>>
  PROVE  FilesOK
BY PushedGrows DEF IInv, AppsTypeOK, RegistryOK, FilesOK

LEMMA RegistryStays ==
  ASSUME IInv, UNCHANGED registry
  PROVE  RegistryOK
BY DEF IInv, AppsTypeOK, RegistryOK

LEMMA DraftTyped ==
  ASSUME IInv, NEW p \in Proc
  PROVE  Draft(cmd[p]) \in App \cup {None}
BY CommandAt DEF Draft, CommandOf, IInv, AppsTypeOK

LEMMA CountsStay ==
  ASSUME IInv, UNCHANGED <<orderly, commands>>, Sound \/ Faulty
  PROVE  CountsOK
BY DEF IInv, AppsTypeOK, CountsOK, Sound, Faulty

(* A step of p that ends it. *)
LEMMA Ends ==
  ASSUME IInv, NEW p \in Proc, Goes(p, "idle")
  PROVE  CmdOKNow
<1>1. cmd' = [cmd EXCEPT ![p] = NoCommand]
  BY IdleCommand DEF Goes, Keeps
<1>2. CommandOK(NoCommand, registry')
  BY NoCommandOK
<1> QED
  BY <1>1, <1>2 DEF CmdOKNow

(* A step of p that goes on, with what it needs there. *)
LEMMA GoesOn ==
  ASSUME IInv, NEW p \in Proc, NEW pc \in {"patch", "fetch", "deploy", "idle"}, Goes(p, pc), registry' = registry,
         cmd[p].pc \in Working \ {"push"},
         pc = "fetch" => cmd[p].image # None \/ cmd[p].todo # {}
  PROVE  CmdOKNow
<1>1. CommandOK(To(cmd[p], pc), registry)
  <2>1. Fit(cmd[p], registry) /\ cmd[p].kind \in {"deploy", "push"} /\ Pushed(cmd[p].image, registry)
    BY CommandAt DEF CommandOK
  <2> QED
    BY <2>1, GoesOnOK DEF Working
<1> QED
  BY <1>1 DEF Goes, Keeps, CmdOKNow

-----------------------------------------------------------------------------
(* The actions. *)

LEMMA ConfigsAre ==
  ASSUME NEW t \in Configs, NEW pushed
  PROVE  t \in Tomls /\ TomlPushed(t, pushed)
<1>1. t \in [Container -> Sources \cup {None}]
  <2> DEFINE given == {Source(TRUE, NoImage), None} \cup {Source(FALSE, i) : i \in Pinned}
  <2>1. t \in [Container -> given]
    BY DEF Configs
  <2>2. given \subseteq Sources \cup {None}
    <3>1. Source(TRUE, NoImage) \in Sources
      BY DEF Sources, Source
    <3>2. \A i \in Pinned : Source(FALSE, i) \in Sources
      BY DEF Sources, Source, Image
    <3> QED
      BY <3>1, <3>2
  <2> HIDE DEF given
  <2> QED
    BY <2>1, <2>2
<1>2. \A c \in Container : t[c] # None => t[c].image \notin Built
  BY DEF Configs, Source, AppsAssumption
<1>3. Entries(t) # {}
  BY DEF Configs, Entries
<1> QED
  BY <1>1, <1>2, <1>3 DEF Tomls, TomlPushed, Pushed

LEMMA EditStep ==
  ASSUME IInv, NEW t \in Configs, Edit(t)
  PROVE  StepOK
<1>1. FilesOK
  BY ConfigsAre DEF Edit, FilesOK, IInv, AppsTypeOK
<1> QED
  BY <1>1, RegistryStays DEF Edit, StepOK, CountsOK, AppOKNow, CmdOKNow, IInv, AppsTypeOK, remote

LEMMA UnlinkStep ==
  ASSUME IInv, Unlink
  PROVE  StepOK
<1>1. FilesOK
  BY DEF Unlink, FilesOK, IInv, AppsTypeOK, remote
<1>2. CountsOK
  <2>1. orderly' \in BOOLEAN
    BY Zenon DEF Unlink
  <2>2. commands' \in Nat /\ faults' \in Nat
    BY DEF Unlink, IInv, AppsTypeOK
  <2> QED
    BY <2>1, <2>2 DEF CountsOK
<1>3. RegistryOK
  BY RegistryStays DEF Unlink, remote
<1>4. AppOKNow /\ CmdOKNow
  BY DEF Unlink, AppOKNow, CmdOKNow, remote
<1> QED
  BY <1>1, <1>2, <1>3, <1>4 DEF StepOK

LEMMA DiesStep ==
  ASSUME IInv, NEW p \in Proc, Dies(p)
  PROVE  StepOK
<1>1. CmdOKNow
  BY Ends DEF Dies
<1>2. RegistryOK /\ FilesOK /\ CountsOK
  BY RegistryStays, FilesStay, CountsStay DEF Dies, files, remote
<1> QED
  BY <1>1, <1>2 DEF Dies, StepOK, AppOKNow, remote

LEMMA WalkedAre ==
  ASSUME NEW r \in Request, NEW t \in Walked(r), NEW pushed
  PROVE  t \in Tomls /\ TomlPushed(t, pushed)
<1> DEFINE f == Foremost(Container)
           only(s) == [c \in Container |-> IF c = f THEN s ELSE None]
<1>1. f \in Container
  BY ForemostIsIn DEF AppsAssumption
<1>2. ASSUME NEW s \in Sources, s.image \notin Built
      PROVE  only(s) \in Tomls /\ TomlPushed(only(s), pushed)
  <2>1. s # None
    BY <1>2 DEF Sources, Image, AppsAssumption
  <2>2. only(s) \in [Container -> Sources \cup {None}] /\ f \in Entries(only(s))
    BY <1>1, <2>1 DEF Entries
  <2>3. \A c \in Container : only(s)[c] # None => only(s)[c].image \notin Built
    BY <1>2
  <2> QED
    BY <2>2, <2>3 DEF Tomls, TomlPushed, Pushed
<1>3. CASE r.image # None
  <2>1. r.image \in Pinned
    BY <1>3 DEF Request
  <2>2. t = only(Source(FALSE, r.image))
    BY <1>3 DEF Walked
  <2> QED
    BY <1>2, <2>1, <2>2 DEF Source, Sources, Image, AppsAssumption
<1>4. CASE r.image = None /\ r.dockerfile
  <2>1. t = only(Source(TRUE, NoImage))
    BY <1>4 DEF Walked
  <2> QED
    BY <1>2, <2>1 DEF Source, Sources, Image, AppsAssumption
<1>5. CASE r.image = None /\ ~r.dockerfile
  BY <1>5, ConfigsAre DEF Walked
<1> QED
  BY <1>3, <1>4, <1>5

(* What the target of a deploy, and then its mode, can be. *)
LEMMA TargetIs ==
  ASSUME NEW t \in Tomls, NEW r \in Request
  PROVE  Target(t, r) \in Entries(t) \cup {None}
<1>1. Foremost(Entries(t)) \in Entries(t)
  BY ForemostIsIn DEF Tomls, Entries
<1>2. CASE r.container # None
  BY <1>2 DEF Target, Entries, Request
<1>3. CASE r.container = None
  BY <1>1, <1>3 DEF Target
<1> QED
  BY <1>2, <1>3

LEMMA ModeIs ==
  ASSUME NEW t, NEW target, NEW r
  PROVE  /\ Mode(t, target, r) \in {"idle", "image", "build", "apply"}
         /\ target = None => Mode(t, target, r) = "idle"
         /\ Mode(t, target, r) = "image" => r.image # None
<1>1. CASE target = None
  BY <1>1 DEF Mode
<1>2. CASE target # None /\ r.image # None
  BY <1>2 DEF Mode
<1>3. CASE target # None /\ r.image = None
  BY <1>3 DEF Mode
<1> QED
  BY <1>1, <1>2, <1>3

LEMMA DeployingOK ==
  ASSUME IInv, NEW t \in Tomls, TomlPushed(t, registry), NEW r \in Request
  PROVE  CommandOK(Deploying(t, r), registry)
<1> DEFINE c == [NoCommand EXCEPT !.toml = t, !.id = manifest]
           target == Target(t, r)
           d == [c EXCEPT !.target = target, !.image = r.image, !.noPush = r.noPush]
           e == [c EXCEPT !.todo = Entries(t)]
<1>1. CASE manifest = None /\ Several(t) /\ Plain(r)
  <2>1. Fit(e, registry) /\ e.kind = "deploy" /\ e.todo = Entries(t)
    BY DEF Fit, NoCommand, CommandOf, IInv, AppsTypeOK, Entries
  <2>2. Entries(t) # {}
    BY DEF Tomls
  <2>3. CommandOK(Prepare(e), registry)
    <3> HIDE DEF e
    <3> QED
      BY <2>1, <2>2, PrepareOK
  <2> QED
    BY <1>1, <2>3 DEF Deploying
<1>2. CASE ~(manifest = None /\ Several(t) /\ Plain(r))
  <2> DEFINE pc == Mode(t, target, r)
  <2>1. target \in Entries(t) \cup {None} /\ pc \in {"idle", "image", "build", "apply"} /\ (target = None => pc = "idle")
       /\ (pc = "image" => r.image # None)
    BY TargetIs, ModeIs
  <2>2. r.image \in Pinned \cup {None} /\ r.noPush \in BOOLEAN
    BY DEF Request
  <2>3. target \in Container \cup {None}
    BY <2>1 DEF Entries
  <2>4. Fit(d, registry) /\ d.kind = "deploy" /\ d.image = r.image /\ d.target = target /\ d.toml = t
    <3> HIDE DEF target, pc
    <3> QED
      BY <2>2, <2>3 DEF Fit, NoCommand, CommandOf, IInv, AppsTypeOK, Image
  <2>5. Pushed(d.image, registry)
    BY <2>2, <2>4 DEF Pushed, AppsAssumption
  <2>6. CommandOK(To(d, pc), registry)
    <3> HIDE DEF d, target, pc
    <3>1. pc \in Working \cup {"idle"} /\ pc \notin {"fetch", "swap", "push"} /\ (pc = "image" => d.image # None)
      BY <2>1, <2>4 DEF Working
    <3>2. pc \in {"build", "push", "image"} => d.target \in Entries(d.toml)
      BY <2>1, <2>4
    <3> QED
      BY <2>4, <2>5, <3>1, <3>2, GoesOnOK
  <2> QED
    BY <1>2, <2>6 DEF Deploying
<1> QED
  BY <1>1, <1>2

LEMMA DeployStep ==
  ASSUME IInv, NEW p \in Proc, NEW r \in Request, Deploy(p, r)
  PROVE  StepOK
<1>1. PICK t \in IF config = None THEN Walked(r) ELSE {config} : config' = t /\ cmd' = [cmd EXCEPT ![p] = Deploying(t, r)]
  BY DEF Deploy, Keeps
<1>2. registry' = registry /\ manifest' = manifest /\ app' = app
  BY DEF Deploy, Begins, remote
<1>3. t \in Tomls /\ TomlPushed(t, registry)
  BY <1>1, WalkedAre DEF IInv, AppsTypeOK
<1>4. CommandOK(Deploying(t, r), registry)
  BY <1>3, DeployingOK
<1>5. CmdOKNow
  BY <1>1, <1>2, <1>4 DEF CmdOKNow
<1>6. FilesOK
  BY <1>1, <1>2, <1>3 DEF FilesOK, IInv, AppsTypeOK
<1>7. CountsOK
  <2>1. orderly' \in BOOLEAN
    BY Zenon DEF Deploy, IInv, AppsTypeOK
  <2>2. commands' \in Nat /\ faults' \in Nat
    BY DEF Deploy, Begins, IInv, AppsTypeOK
  <2> QED
    BY <2>1, <2>2 DEF CountsOK
<1> QED
  BY <1>2, <1>5, <1>6, <1>7, RegistryStays DEF StepOK, AppOKNow

(* A command that begins with what is on disk, or with an app to act on. *)
LEMMA BeginsStep ==
  ASSUME IInv, NEW p \in Proc, NEW c, CommandOK(c, registry), Begins(p), Keeps(p, c), UNCHANGED files,
         orderly' \in BOOLEAN
  PROVE  StepOK
<1>1. registry' = registry /\ app' = app /\ config' = config /\ manifest' = manifest
  BY DEF Begins, remote, files
<1>2. CountsOK
  BY DEF Begins, IInv, AppsTypeOK, CountsOK
<1>3. CmdOKNow
  BY <1>1 DEF Keeps, CmdOKNow
<1> QED
  BY <1>1, <1>2, <1>3, FilesStay, RegistryStays DEF StepOK, AppOKNow

LEMMA PushConfigStep ==
  ASSUME IInv, NEW p \in Proc, PushConfig(p)
  PROVE  StepOK
<1> DEFINE c == [NoCommand EXCEPT !.pc = "apply", !.kind = "push", !.toml = config, !.id = manifest]
<1>1. config \in Tomls /\ manifest \in App /\ TomlPushed(config, registry)
  BY DEF PushConfig, IInv, AppsTypeOK
<1>2. CommandOK(c, registry)
  BY <1>1 DEF CommandOK, Fit, CommandOf, NoCommand, Working, Pushed, Entries, AppsAssumption
<1>3. orderly' \in BOOLEAN
  BY Zenon DEF PushConfig, IInv, AppsTypeOK
<1> QED
  <2> HIDE DEF c
  <2>1. Begins(p) /\ Keeps(p, c) /\ UNCHANGED files
    BY DEF PushConfig, c
  <2> QED
    BY <1>2, <1>3, <2>1, BeginsStep

LEMMA OnStep ==
  ASSUME IInv, NEW p \in Proc, NEW kind \in {"pull", "link", "delete", "undeploy"}, NEW a \in App, On(p, kind, a)
  PROVE  StepOK
<1> DEFINE c == [NoCommand EXCEPT !.pc = kind, !.kind = kind, !.id = a]
<1>1. CommandOK(c, registry)
  BY DEF CommandOK, Fit, CommandOf, NoCommand, Working, Pushed, AppsAssumption
<1>2. orderly' \in BOOLEAN
  BY Zenon DEF On, IInv, AppsTypeOK
<1> QED
  <2> HIDE DEF c
  <2>1. Begins(p) /\ Keeps(p, c) /\ UNCHANGED files
    BY DEF On, c
  <2> QED
    BY <1>1, <1>2, <2>1, BeginsStep

LEMMA BuildImageStep ==
  ASSUME IInv, NEW p \in Proc, BuildImage(p)
  PROVE  StepOK
<1>1. registry' = registry /\ app' = app /\ config' = config
  BY DEF BuildImage, remote
<1>2. manifest' \in App \cup {None}
  BY DraftTyped DEF BuildImage, IInv, AppsTypeOK
<1>3. CountsOK
  BY CountsStay DEF BuildImage
<1>4. /\ Fit(cmd[p], registry) /\ cmd[p].kind = "deploy" /\ cmd[p].target \in Entries(cmd[p].toml)
  BY CommandAt DEF BuildImage, At, CommandOK, Working
<1>5. ASSUME NEW i \in Built, NEW pc \in {"idle", "push"}
      PROVE  CommandOK(To([cmd[p] EXCEPT !.image = i], pc), registry)
  <2> DEFINE d == [cmd[p] EXCEPT !.image = i]
  <2>1. Fit(d, registry) /\ d.image = i /\ d.kind = cmd[p].kind /\ d.target = cmd[p].target /\ d.toml = cmd[p].toml
    BY <1>4 DEF Fit, CommandOf, Image
  <2> HIDE DEF d
  <2> QED
    BY <1>4, <2>1, GoesOnOK DEF Working, d
<1>6. CmdOKNow
  <2>1. CASE Goes(p, "idle")
    BY <2>1, Ends
  <2>2. ASSUME NEW i \in Built, Keeps(p, To([cmd[p] EXCEPT !.image = i], IF cmd[p].noPush THEN "idle" ELSE "push"))
        PROVE  CmdOKNow
    BY <1>1, <1>5, <2>2 DEF Keeps, CmdOKNow
  <2> QED
    BY <2>1, <2>2 DEF BuildImage
<1>7. FilesOK
  BY <1>1, <1>2 DEF FilesOK, IInv, AppsTypeOK
<1> QED
  BY <1>1, <1>3, <1>6, <1>7, RegistryStays DEF StepOK, AppOKNow

(* What the run knows of the target, once it is there. *)
LEMMA Targeted ==
  ASSUME NEW pushed, NEW c, Fit(c, pushed), c.target \in Entries(c.toml), NEW s \in Sources, Pushed(s.image, pushed)
  PROVE  LET t == [c.toml EXCEPT ![c.target] = s] IN
         /\ t \in Tomls /\ TomlPushed(t, pushed)
         /\ Fit([c EXCEPT !.toml = t], pushed)
<1> DEFINE t == [c.toml EXCEPT ![c.target] = s]
<1>1. s # None
  BY DEF Sources, Image, AppsAssumption
<1>2. c.toml \in [Container -> Sources \cup {None}] /\ c.target \in Container
  BY DEF Fit, Tomls, Entries
<1>3. t \in [Container -> Sources \cup {None}] /\ Entries(t) = Entries(c.toml)
  BY <1>1, <1>2 DEF Entries
<1>4. t \in Tomls
  BY <1>3 DEF Tomls, Fit
<1>5. TomlPushed(t, pushed)
  BY <1>2 DEF TomlPushed, Fit
<1>6. Fit([c EXCEPT !.toml = t], pushed)
  <2> HIDE DEF t
  <2> QED
    BY <1>3, <1>4, <1>5 DEF Fit, CommandOf
<1> QED
  BY <1>4, <1>5, <1>6

LEMMA PushImageStep ==
  ASSUME IInv, NEW p \in Proc, PushImage(p)
  PROVE  StepOK
<1> DEFINE c == cmd[p]
           t == [c.toml EXCEPT ![c.target] = Source(TRUE, c.image)]
           d == [c EXCEPT !.toml = t]
<1>1. Fit(c, registry) /\ c.kind = "deploy" /\ c.target \in Entries(c.toml) /\ c.image \in Image \cup {NoImage, None}
  BY CommandAt DEF PushImage, At, CommandOK, Working, CommandOf
<1>2. app' = app /\ manifest' = manifest /\ CountsOK
  BY CountsStay DEF PushImage
<1>3. CASE /\ registry' = registry \cup {c.image}
           /\ config' = stripTransientFields(t)
           /\ Keeps(p, Prepared(d))
           /\ c.image \in Built
  <2>1. RegistryOK
    BY <1>3 DEF RegistryOK, IInv, AppsTypeOK
  <2>2. Fit(c, registry')
    BY <1>1, <2>1, PushedGrows DEF Fit, RegistryOK, IInv, AppsTypeOK
  <2>3. Source(TRUE, c.image) \in Sources /\ Pushed(Source(TRUE, c.image).image, registry')
    BY <1>3 DEF Source, Sources, Image, Pushed
  <2>4. t \in Tomls /\ TomlPushed(t, registry') /\ Fit(d, registry')
    <3> HIDE DEF c
    <3> QED
      BY <1>1, <2>2, <2>3, Targeted
  <2>5. d.kind = "deploy" /\ Pushed(d.image, registry')
    BY <1>1, <1>3 DEF Pushed, Fit, CommandOf
  <2>6. CommandOK(Prepared(d), registry')
    <3> HIDE DEF d
    <3> QED
      BY <2>4, <2>5, PreparedOK
  <2>7. FilesOK
    <3> HIDE DEF t
    <3> QED
      BY <1>2, <1>3, <2>4, StripKeeps DEF FilesOK, IInv, AppsTypeOK
  <2> QED
    BY <1>2, <1>3, <2>1, <2>6, <2>7 DEF StepOK, AppOKNow, CmdOKNow, Keeps
<1>4. CASE /\ registry' \in {registry, registry \cup {c.image}}
           /\ Goes(p, "idle") /\ UNCHANGED config
           /\ c.image \in Built
  <2>1. RegistryOK
    BY <1>4 DEF RegistryOK, IInv, AppsTypeOK
  <2>2. CmdOKNow
    BY <1>4, Ends
  <2>3. FilesOK
    BY <1>2, <1>4, <2>1, FilesStay
  <2> QED
    BY <1>2, <2>1, <2>2, <2>3 DEF StepOK, AppOKNow
<1>5. c.image \in Built
  BY CommandAt DEF PushImage, At, CommandOK
<1> QED
  BY <1>3, <1>4, <1>5 DEF PushImage

LEMMA ResolveImageStep ==
  ASSUME IInv, NEW p \in Proc, ResolveImage(p)
  PROVE  StepOK
<1> DEFINE c == cmd[p]
           s == [c.toml[c.target] EXCEPT !.image = c.image]
           t == [c.toml EXCEPT ![c.target].image = c.image]
           d == [c EXCEPT !.toml = t]
<1>1. /\ Fit(c, registry) /\ c.kind = "deploy" /\ c.target \in Entries(c.toml)
      /\ c.image \in Image \cup {NoImage} /\ Pushed(c.image, registry)
  BY CommandAt DEF ResolveImage, At, CommandOK, Working, CommandOf
<1>2. registry' = registry /\ app' = app /\ CountsOK
  BY CountsStay DEF ResolveImage, remote
<1>3. CASE Persist(c) /\ config' = stripTransientFields(t) /\ Keeps(p, Prepared(d))
  <2>1. s \in Sources /\ s.image = c.image
    BY <1>1 DEF Fit, Tomls, Entries, Sources
  <2>2. t = [c.toml EXCEPT ![c.target] = s]
    BY <1>1 DEF Fit, Tomls, Entries
  <2>3. t \in Tomls /\ TomlPushed(t, registry) /\ Fit(d, registry)
    <3> HIDE DEF c, s, t
    <3> QED
      BY <1>1, <2>1, <2>2, Targeted
  <2>4. d.kind = "deploy" /\ Pushed(d.image, registry)
    BY <1>1 DEF Fit, CommandOf
  <2>5. CommandOK(Prepared(d), registry)
    <3> HIDE DEF d
    <3> QED
      BY <2>3, <2>4, PreparedOK
  <2>6. FilesOK
    <3>1. manifest' \in App \cup {None}
      BY <1>3, DraftTyped DEF Persist
    <3>2. config' \in Tomls /\ TomlPushed(config', registry)
      <4> HIDE DEF t
      <4> QED
        BY <1>3, <2>3, StripKeeps
    <3> QED
      BY <1>2, <3>1, <3>2 DEF FilesOK
  <2> QED
    BY <1>2, <1>3, <2>5, <2>6, RegistryStays DEF StepOK, AppOKNow, CmdOKNow, Keeps
<1>4. CASE Goes(p, "idle") /\ UNCHANGED files
  BY <1>2, <1>4, Ends, FilesStay, RegistryStays DEF StepOK, AppOKNow, files
<1> QED
  BY <1>3, <1>4 DEF ResolveImage

(* The templates of an app from bunny.jsonc as the run knows it. *)
LEMMA TemplatesPushed ==
  ASSUME NEW pushed, NEW t \in Tomls, TomlPushed(t, pushed)
  PROVE  /\ Templates(t) \in [Container -> Image \cup {NoImage, None}]
         /\ \A c \in Container : Pushed(Templates(t)[c], pushed)
         /\ \E c \in Container : Templates(t)[c] # None
<1>1. ASSUME NEW c \in Container
      PROVE  /\ Templates(t)[c] \in Image \cup {NoImage, None}
             /\ Pushed(Templates(t)[c], pushed)
             /\ t[c] # None => Templates(t)[c] # None
  BY DEF Templates, Tomls, Sources, TomlPushed, Pushed, Image, AppsAssumption
<1>2. \E c \in Container : t[c] # None
  BY DEF Tomls, Entries
<1>3. Templates(t) = [c \in Container |-> Templates(t)[c]]
  BY DEF Templates
<1> QED
  BY <1>1, <1>2, <1>3

(* A step that leaves files and registry, and does to at most one app what is all right. *)
LEMMA AppStep ==
  ASSUME IInv, UNCHANGED <<files, registry>>, CountsOK, AppOKNow, CmdOKNow
  PROVE  StepOK
BY FilesStay, RegistryStays DEF StepOK, files

LEMMA CreateStep ==
  ASSUME IInv, NEW p \in Proc, Create(p)
  PROVE  StepOK
<1> DEFINE c == cmd[p]
<1>1. Fit(c, registry) /\ c.kind \in {"deploy", "push"} /\ Pushed(c.image, registry)
  BY CommandAt DEF Create, At, CommandOK, Working
<1>2. PICK a \in App :
        \/ Creates(a, c.toml) /\ manifest' = a /\ Keeps(p, To([c EXCEPT !.id = a], Applied(c))) /\ Sound /\ UNCHANGED orderly
        \/ Creates(a, c.toml) /\ Goes(p, "idle") /\ Faulty /\ orderly' = FALSE /\ UNCHANGED manifest
  BY DEF Create
<1>3. config' = config /\ registry' = registry /\ commands' = commands
  BY DEF Create
<1>4. AppOKNow
  <2> DEFINE x == [is |-> "there", template |-> Templates(c.toml), running |-> Nowhere]
  <2>1. AppOK(x, registry)
    BY <1>1, TemplatesPushed DEF Fit, AppOK, AppPushed, Nowhere, Pushed, AppsAssumption
  <2>2. app' = [app EXCEPT ![a] = x]
    BY <1>2 DEF Creates
  <2> HIDE DEF x
  <2> QED
    BY <1>3, <2>1, <2>2 DEF AppOKNow
<1>5. CmdOKNow
  <2>1. CASE Keeps(p, To([c EXCEPT !.id = a], Applied(c)))
    <3> DEFINE d == [c EXCEPT !.id = a]
    <3>1. Fit(d, registry) /\ d.kind = c.kind /\ d.image = c.image /\ d.todo = c.todo
      BY <1>1 DEF Fit, CommandOf
    <3>2. Applied(c) \in {"idle", "deploy", "fetch"} /\ (Applied(c) = "fetch" => d.image # None \/ d.todo # {})
      BY <3>1 DEF Applied
    <3>3. CommandOK(To(d, Applied(c)), registry)
      <4> HIDE DEF d, c
      <4> QED
        BY <1>1, <3>1, <3>2, GoesOnOK DEF Working
    <3> QED
      BY <1>3, <2>1, <3>3 DEF Keeps, CmdOKNow
  <2> QED
    BY <1>2, <2>1, Ends
<1>6. CountsOK
  <2>1. orderly' \in BOOLEAN
    BY <1>2, Zenon DEF IInv, AppsTypeOK
  <2>2. commands' \in Nat /\ faults' \in Nat
    BY <1>2, <1>3 DEF IInv, AppsTypeOK, Sound, Faulty
  <2> QED
    BY <2>1, <2>2 DEF CountsOK
<1>7. FilesOK
  BY <1>2, <1>3 DEF FilesOK, IInv, AppsTypeOK
<1> QED
  BY <1>3, <1>4, <1>5, <1>6, <1>7, RegistryStays DEF StepOK

LEMMA ReadAppStep ==
  ASSUME IInv, NEW p \in Proc, ReadApp(p)
  PROVE  StepOK
<1>1. cmd[p].pc \in Working \ {"push"}
  BY DEF ReadApp, At, Working
<1>2. UNCHANGED <<files, registry>> /\ app' = app /\ CountsOK
  BY CountsStay DEF ReadApp, remote
<1>3. Goes(p, "patch") \/ Goes(p, "idle")
  BY DEF ReadApp
<1>4. CmdOKNow
  BY <1>1, <1>2, <1>3, GoesOn
<1> QED
  BY <1>2, <1>4, AppStep DEF AppOKNow

LEMMA PatchAppStep ==
  ASSUME IInv, NEW p \in Proc, PatchApp(p)
  PROVE  StepOK
<1> DEFINE c == cmd[p]
           a == c.id
           x == [app[a] EXCEPT !.template = Templates(c.toml)]
<1>1. c.pc \in Working \ {"push"} /\ Fit(c, registry)
  BY CommandAt DEF PatchApp, At, Working
<1>2. UNCHANGED <<files, registry>> /\ CountsOK
  BY CountsStay DEF PatchApp
<1>3. Goes(p, Applied(c)) \/ Goes(p, "idle")
  BY DEF PatchApp
<1>4. Applied(c) \in {"idle", "deploy", "fetch"} /\ (Applied(c) = "fetch" => c.image # None \/ c.todo # {})
  BY DEF Applied
<1>5. CmdOKNow
  <2> HIDE DEF c
  <2>1. c = cmd[p]
    BY DEF c
  <2> QED
    BY <1>1, <1>2, <1>3, <1>4, <2>1, GoesOn
<1>6. app' = app \/ (There(a) /\ app' = [app EXCEPT ![a].template = Templates(c.toml)])
  BY DEF PatchApp
<1>7. ASSUME There(a), app' = [app EXCEPT ![a].template = Templates(c.toml)]
      PROVE  AppOKNow
  <2>1. a \in App
    BY <1>1, <1>7 DEF There, Fit, CommandOf
  <2>2. AppOK(app[a], registry)
    BY <2>1, AppsAre DEF IInv
  <2>3. AppOK(x, registry)
    BY <1>1, <2>2, TemplatesPushed DEF Fit, AppOK, AppPushed
  <2>4. app' = [app EXCEPT ![a] = x]
    BY <1>7, <2>1 DEF IInv, AppsTypeOK
  <2> HIDE DEF x, a
  <2> QED
    BY <1>2, <2>1, <2>3, <2>4 DEF AppOKNow
<1> QED
  BY <1>2, <1>5, <1>6, <1>7, AppStep DEF AppOKNow

LEMMA FetchAppStep ==
  ASSUME IInv, NEW p \in Proc, FetchApp(p)
  PROVE  StepOK
<1> DEFINE c == cmd[p]
           d(m) == [c EXCEPT !.target = m]
<1>1. /\ c.pc \in Working \ {"push"} /\ Fit(c, registry) /\ c.kind \in {"deploy", "push"}
      /\ Pushed(c.image, registry) /\ (c.todo = {} => c.image # None)
  BY CommandAt DEF FetchApp, At, Working, CommandOK
<1>2. config' = config /\ app' = app /\ registry' = registry /\ CountsOK
  BY CountsStay DEF FetchApp, remote
<1>3. manifest' \in App \cup {None}
  BY DraftTyped DEF FetchApp, Persist, IInv, AppsTypeOK
<1>4. \/ Goes(p, "deploy")
      \/ Goes(p, "idle")
      \/ c.todo = {} /\ \E m \in Container : Keeps(p, To(d(m), "swap"))
  BY DEF FetchApp, TemplatesOf
<1>5. ASSUME c.todo = {}, NEW m \in Container, Keeps(p, To(d(m), "swap"))
      PROVE  CmdOKNow
  <2> DEFINE e == d(m)
  <2>1. Fit(e, registry) /\ e.kind = c.kind /\ e.image = c.image /\ e.target = m
    BY <1>1 DEF Fit, CommandOf
  <2>2. CommandOK(To(e, "swap"), registry)
    <3> HIDE DEF e, c
    <3> QED
      BY <1>1, <1>5, <2>1, GoesOnOK DEF Working
  <2> QED
    BY <1>2, <1>5, <2>2 DEF Keeps, CmdOKNow
<1>6. CmdOKNow
  BY <1>1, <1>2, <1>4, <1>5, GoesOn
<1>7. FilesOK
  BY <1>2, <1>3 DEF FilesOK, IInv, AppsTypeOK
<1> QED
  BY <1>2, <1>6, <1>7, RegistryStays DEF StepOK, AppOKNow

LEMMA SwapImageStep ==
  ASSUME IInv, NEW p \in Proc, SwapImage(p)
  PROVE  StepOK
<1> DEFINE c == cmd[p]
           a == c.id
           x == [app[a] EXCEPT !.template = [app[a].template EXCEPT ![c.target] = c.image]]
<1>1. /\ c.pc \in Working \ {"push"} /\ c \in CommandOf
      /\ Pushed(c.image, registry) /\ c.image # None /\ c.target \in Container
  BY CommandAt DEF SwapImage, At, Working, CommandOK
<1>2. UNCHANGED <<files, registry>> /\ CountsOK
  BY CountsStay DEF SwapImage
<1>3. CmdOKNow
  <2>1. Goes(p, "deploy") \/ Goes(p, "idle")
    BY DEF SwapImage
  <2> QED
    BY <1>1, <1>2, <2>1, GoesOn
<1>4. app' = app \/ (There(a) /\ app' = [app EXCEPT ![a].template[c.target] = c.image])
  BY DEF SwapImage
<1>5. ASSUME There(a), app' = [app EXCEPT ![a].template[c.target] = c.image]
      PROVE  AppOKNow
  <2>1. a \in App
    BY <1>1, <1>5 DEF There, CommandOf
  <2>2. AppOK(app[a], registry)
    BY <2>1, AppsAre DEF IInv
  <2>3. AppOK(x, registry)
    <3>1. /\ x.template \in [Container -> Image \cup {NoImage, None}] /\ x.running = app[a].running /\ x.is = app[a].is
          /\ x \in [is : {"new", "there", "gone"}, template : [Container -> Image \cup {NoImage, None}],
                    running : [Container -> Image \cup {NoImage, None}]]
          /\ x.template = [app[a].template EXCEPT ![c.target] = c.image]
      BY <1>1, <2>2 DEF AppOK, CommandOf
    <3>2. x.template[c.target] # None
      BY <1>1, <2>2, <3>1 DEF AppOK
    <3>3. AppPushed(x, registry)
      BY <1>1, <2>2, <3>1 DEF AppOK, AppPushed
    <3> HIDE DEF x
    <3> QED
      BY <1>1, <3>1, <3>2, <3>3 DEF AppOK
  <2>4. app' = [app EXCEPT ![a] = x]
    BY <1>5, <2>1 DEF IInv, AppsTypeOK
  <2> HIDE DEF x, a
  <2> QED
    BY <1>2, <2>1, <2>3, <2>4 DEF AppOKNow
<1> QED
  BY <1>2, <1>3, <1>4, <1>5, AppStep DEF AppOKNow

LEMMA DeployAppStep ==
  ASSUME IInv, NEW p \in Proc, DeployApp(p)
  PROVE  StepOK
<1> DEFINE a == cmd[p].id
           x == [app[a] EXCEPT !.running = app[a].template]
<1>1. UNCHANGED <<files, registry>> /\ CountsOK
  BY CountsStay DEF DeployApp
<1>2. CmdOKNow
  BY Ends DEF DeployApp
<1>3. app' = app \/ (There(a) /\ app' = [app EXCEPT ![a].running = app[a].template])
  BY DEF DeployApp
<1>4. ASSUME There(a), app' = [app EXCEPT ![a].running = app[a].template]
      PROVE  AppOKNow
  <2>1. a \in App
    BY <1>4, CommandAt DEF There, CommandOf
  <2>2. AppOK(app[a], registry)
    BY <2>1, AppsAre DEF IInv
  <2>3. AppOK(x, registry)
    BY <2>2 DEF AppOK, AppPushed
  <2>4. app' = [app EXCEPT ![a] = x]
    BY <1>4, <2>1 DEF IInv, AppsTypeOK
  <2> HIDE DEF x, a
  <2> QED
    BY <1>1, <2>1, <2>3, <2>4 DEF AppOKNow
<1> QED
  BY <1>1, <1>2, <1>3, <1>4, AppStep DEF AppOKNow

LEMMA PullStep ==
  ASSUME IInv, NEW p \in Proc, Pull(p)
  PROVE  StepOK
<1> DEFINE a == cmd[p].id
           t == [c \in Container |-> IF c \in TemplatesOf(a) THEN Source(FALSE, app[a].template[c]) ELSE None]
<1>1. registry' = registry /\ app' = app /\ commands' = commands /\ CmdOKNow
  BY Ends DEF Pull, remote
<1>2. FilesOK
  <2>1. CASE UNCHANGED files
    BY <1>1, <2>1, FilesStay, RegistryStays DEF files
  <2>2. CASE There(a) /\ config' = t /\ manifest' = a
    <3>1. a \in App
      BY <2>2, CommandAt DEF There, CommandOf
    <3>2. AppOK(app[a], registry) /\ TemplatesOf(a) # {}
      BY <2>2, <3>1, AppsAre DEF IInv, AppsTypeOK
    <3>3. ASSUME NEW c \in TemplatesOf(a)
          PROVE  /\ c \in Container /\ t[c] = Source(FALSE, app[a].template[c])
                 /\ t[c] \in Sources /\ t[c] # None /\ Pushed(t[c].image, registry)
      <4>1. c \in Container /\ app[a].template[c] \in Image \cup {NoImage} /\ Pushed(app[a].template[c], registry)
        BY <3>2 DEF TemplatesOf, AppOK, AppPushed
      <4>2. t[c] = Source(FALSE, app[a].template[c])
        BY <4>1
      <4>3. t[c] \in Sources /\ t[c].image = app[a].template[c]
        BY <4>1, <4>2 DEF Source, Sources
      <4> QED
        BY <4>1, <4>2, <4>3 DEF Sources, Image, AppsAssumption
    <3>4. \A c \in Container : c \notin TemplatesOf(a) => t[c] = None
      OBVIOUS
    <3>5. t \in [Container -> Sources \cup {None}]
      BY <3>3, <3>4
    <3>6. Entries(t) # {} /\ TomlPushed(t, registry)
      BY <3>2, <3>3, <3>4 DEF Entries, TomlPushed
    <3>7. t \in Tomls
      <4> HIDE DEF t
      <4> QED
        BY <3>5, <3>6 DEF Tomls
    <3> QED
      BY <1>1, <2>2, <3>1, <3>6, <3>7 DEF FilesOK
  <2> QED
    BY <2>1, <2>2 DEF Pull
<1>3. CountsOK
  <2>1. orderly' \in BOOLEAN
    BY Zenon DEF Pull, LetsGo, IInv, AppsTypeOK
  <2>2. faults' \in Nat
    <3>1. Sound \/ Faulty
      BY DEF Pull
    <3> QED
      BY <3>1 DEF IInv, AppsTypeOK, Sound, Faulty
  <2> QED
    BY <1>1, <2>1, <2>2 DEF CountsOK, IInv, AppsTypeOK
<1> QED
  BY <1>1, <1>2, <1>3, RegistryStays DEF StepOK, AppOKNow

LEMMA LinkStep ==
  ASSUME IInv, NEW p \in Proc, Link(p)
  PROVE  StepOK
<1>1. registry' = registry /\ app' = app /\ config' = config /\ commands' = commands /\ CmdOKNow
  BY Ends DEF Link, remote
<1>2. manifest' \in App \cup {None}
  BY CommandAt DEF Link, There, CommandOf, IInv, AppsTypeOK
<1>3. FilesOK
  BY <1>1, <1>2 DEF FilesOK, IInv, AppsTypeOK
<1>4. CountsOK
  <2>1. orderly' \in BOOLEAN
    BY Zenon DEF Link, LetsGo, IInv, AppsTypeOK
  <2>2. faults' \in Nat
    BY DEF Link, IInv, AppsTypeOK, Sound, Faulty
  <2> QED
    BY <1>1, <2>1, <2>2 DEF CountsOK, IInv, AppsTypeOK
<1> QED
  BY <1>1, <1>3, <1>4, RegistryStays DEF StepOK, AppOKNow

(* An app that is gone or stopped runs nothing. *)
LEMMA NothingRuns ==
  ASSUME NEW pushed
  PROVE  /\ AppOK([NoApp EXCEPT !.is = "gone"], pushed)
         /\ \A x : AppOK(x, pushed) => AppOK([x EXCEPT !.running = Nowhere], pushed)
<1>1. Nowhere \in [Container -> Image \cup {NoImage, None}] /\ \A c \in Container : Pushed(Nowhere[c], pushed)
  BY DEF Nowhere, Pushed, AppsAssumption
<1> QED
  BY <1>1 DEF AppOK, AppPushed, NoApp

LEMMA DeleteStep ==
  ASSUME IInv, NEW p \in Proc, Delete(p)
  PROVE  StepOK
<1> DEFINE a == cmd[p].id
<1>1. registry' = registry /\ config' = config /\ CountsOK /\ CmdOKNow
  BY Ends, CountsStay DEF Delete
<1>2. AppOKNow
  <2>1. app' = app \/ (There(a) /\ app' = [app EXCEPT ![a] = [NoApp EXCEPT !.is = "gone"]])
    BY DEF Delete
  <2>2. There(a) => a \in App
    BY CommandAt DEF There, CommandOf
  <2> QED
    BY <2>1, <2>2, NothingRuns DEF AppOKNow
<1>3. FilesOK
  BY <1>1 DEF Delete, FilesOK, IInv, AppsTypeOK
<1> QED
  BY <1>1, <1>2, <1>3, RegistryStays DEF StepOK

LEMMA UndeployStep ==
  ASSUME IInv, NEW p \in Proc, Undeploy(p)
  PROVE  StepOK
<1> DEFINE a == cmd[p].id
           x == [app[a] EXCEPT !.running = Nowhere]
<1>1. UNCHANGED <<files, registry>> /\ CountsOK /\ CmdOKNow
  BY Ends, CountsStay DEF Undeploy
<1>2. app' = app \/ (There(a) /\ app' = [app EXCEPT ![a].running = Nowhere])
  BY DEF Undeploy
<1>3. ASSUME There(a), app' = [app EXCEPT ![a].running = Nowhere]
      PROVE  AppOKNow
  <2>1. a \in App
    BY <1>3, CommandAt DEF There, CommandOf
  <2>2. AppOK(x, registry)
    BY <2>1, AppsAre, NothingRuns DEF IInv
  <2>3. app' = [app EXCEPT ![a] = x]
    BY <1>3, <2>1 DEF IInv, AppsTypeOK
  <2> HIDE DEF x, a
  <2> QED
    BY <1>1, <2>1, <2>2, <2>3 DEF AppOKNow
<1> QED
  BY <1>1, <1>2, <1>3, AppStep DEF AppOKNow

-----------------------------------------------------------------------------
(* The theorems. *)

LEMMA InitOK ==
  AppsInit => IInv
<1> SUFFICES ASSUME AppsInit
             PROVE  IInv
  OBVIOUS
<1>1. Nowhere \in [Container -> Image \cup {NoImage, None}] /\ \A c \in Container : Pushed(Nowhere[c], registry)
  BY DEF Nowhere, Pushed, AppsAssumption
<1>2. /\ \A a \in App : AppPushed(app[a], registry) /\ ~There(a)
      /\ app \in [App -> [is : {"new", "there", "gone"}, template : [Container -> Image \cup {NoImage, None}],
                         running : [Container -> Image \cup {NoImage, None}]]]
  BY <1>1 DEF AppsInit, NoApp, AppPushed, There
<1>3. /\ \A p \in Proc : CommandOK(cmd[p], registry)
      /\ cmd \in [Proc -> CommandOf]
  <2>1. CommandOK(NoCommand, registry)
    BY NoCommandOK
  <2> QED
    BY <2>1 DEF AppsInit, CommandOK
<1>4. TomlPushed(config, registry)
  BY DEF AppsInit, TomlPushed, Tomls, Sources, Image, AppsAssumption
<1>5. orderly \in BOOLEAN
  BY Zenon DEF AppsInit
<1>6. AppsTypeOK
  BY <1>2, <1>3, <1>5 DEF AppsInit, AppsTypeOK
<1> QED
  BY <1>2, <1>3, <1>4, <1>6 DEF IInv

LEMMA NextKeeps ==
  IInv /\ [AppsNext]_apps => IInv'
<1> SUFFICES ASSUME IInv, [AppsNext]_apps
             PROVE  IInv'
  OBVIOUS
<1>1. CASE UNCHANGED apps
  BY <1>1 DEF apps, IInv, AppsTypeOK, There, TemplatesOf
<1>2. ASSUME NEW t \in Configs, Edit(t)
      PROVE  StepOK
  BY <1>2, EditStep
<1>3. CASE Unlink
  BY <1>3, UnlinkStep, StepKeeps
<1>4. ASSUME NEW p \in Proc, Starts(p)
      PROVE  StepOK
  BY <1>4, DeployStep, PushConfigStep, OnStep DEF Starts
<1>5. ASSUME NEW p \in Proc, Steps(p)
      PROVE  StepOK
  BY <1>5, BuildImageStep, PushImageStep, ResolveImageStep, CreateStep, ReadAppStep, PatchAppStep, FetchAppStep,
     SwapImageStep, DeployAppStep, PullStep, LinkStep, DeleteStep, UndeployStep DEF Steps
<1>6. ASSUME NEW p \in Proc, Dies(p)
      PROVE  StepOK
  BY <1>6, DiesStep
<1> QED
  BY <1>1, <1>2, <1>3, <1>4, <1>5, <1>6, StepKeeps DEF AppsNext

LEMMA Invariant ==
  AppsSpec => []IInv
BY InitOK, NextKeeps, PTL DEF AppsSpec

(* For any number of commands, containers and apps, every variable has its type and an app that is there has a container, whatever overlaps or fails (commands/apps). *)
THEOREM AppsTypeCorrect ==
  AppsSpec => []AppsTypeOK
<1>1. IInv => AppsTypeOK
  BY DEF IInv
<1> QED
  BY <1>1, Invariant, PTL

(* Whatever overlaps or fails, no app is told to run, and none runs, an image built here that docker did not push (deploy.ts:587). *)
THEOREM OnlyPushedRuns ==
  AppsSpec => []RunsPushed
<1>1. IInv => RunsPushed
  BY DEF IInv, RunsPushed, AppPushed, Pushed
<1> QED
  BY <1>1, Invariant, PTL

-----------------------------------------------------------------------------
(* One app: in turn, the command at work and the directory always mean the same app. *)

OneInv ==
  orderly =>
    /\ \A p, q \in Proc : ~Idle(p) /\ ~Idle(q) => p = q
    /\ \A p \in Proc : cmd[p].pc \in Working => cmd[p].id = manifest
    /\ \A a \in App : There(a) => manifest = a

(* c goes on to d with the app it has, or ends. *)
Carries(c, d) == d.pc = "idle" \/ d.id = c.id

LEMMA ToCarries ==
  ASSUME NEW c \in CommandOf, NEW pc
  PROVE  Carries(c, To(c, pc))
BY DEF Carries, To, NoCommand, CommandOf

LEMMA PrepareCarries ==
  ASSUME NEW c \in CommandOf
  PROVE  Carries(c, Prepare(c))
<1> DEFINE d == [c EXCEPT !.target = Foremost(c.todo), !.image = c.toml[Foremost(c.todo)].image]
<1>1. \E pc : Prepare(c) = To(d, pc)
  BY DEF Prepare
<1>2. \A pc : To(d, pc).pc = "idle" \/ To(d, pc).id = c.id
  BY DEF To, NoCommand, CommandOf
<1> QED
  BY <1>1, <1>2 DEF Carries

LEMMA PreparedCarries ==
  ASSUME NEW c \in CommandOf
  PROVE  Carries(c, Prepared(c))
<1> DEFINE d == [c EXCEPT !.todo = @ \ {c.target}]
<1>1. d \in CommandOf /\ d.id = c.id
  BY DEF CommandOf
<1>2. Prepared(c) \in {Prepare(d), To(c, "apply")}
  BY DEF Prepared
<1> HIDE DEF d
<1> QED
  BY <1>1, <1>2, PrepareCarries, ToCarries DEF Carries

(* A step of a deploy or push that is under way. *)
LEMMA Continues ==
  ASSUME IInv, OneInv, NEW p \in Proc, cmd[p].pc \in Working, NEW c, Carries(cmd[p], c), cmd' = [cmd EXCEPT ![p] = c],
         manifest' = manifest \/ manifest' = Draft(cmd[p]), orderly' = orderly,
         \A a \in App : app'[a].is = "there" => app[a].is = "there"
  PROVE  OneInv'
<1> SUFFICES ASSUME orderly
             PROVE  /\ \A q, r \in Proc : ~Idle(q)' /\ ~Idle(r)' => q = r
                    /\ \A q \in Proc : cmd'[q].pc \in Working => cmd'[q].id = manifest'
                    /\ \A a \in App : There(a)' => manifest' = a
  BY DEF OneInv
<1>1. cmd[p].pc # "idle" /\ cmd[p].id = manifest
  BY DEF OneInv, Working
<1>2. \A q \in Proc : q # p => cmd[q].pc = "idle" /\ cmd'[q] = cmd[q]
  BY <1>1 DEF OneInv, Idle, At
<1>3. manifest' = manifest
  BY <1>1 DEF Draft
<1>4. cmd'[p] = c
  BY DEF IInv, AppsTypeOK
<1>5. "idle" \notin Working
  BY DEF Working
<1>6. \A q, r \in Proc : ~Idle(q)' /\ ~Idle(r)' => q = r
  BY <1>2 DEF Idle, At
<1>7. \A q \in Proc : cmd'[q].pc \in Working => cmd'[q].id = manifest'
  BY <1>1, <1>2, <1>3, <1>4, <1>5 DEF Carries
<1>8. \A a \in App : There(a)' => manifest' = a
  BY <1>3 DEF OneInv, There
<1> QED
  BY <1>6, <1>7, <1>8

(* A step that ends p, with whatever it does to the app it is about. *)
LEMMA Finishes ==
  ASSUME IInv, OneInv, NEW p \in Proc, ~Idle(p), Goes(p, "idle"), orderly' => orderly,
         orderly' => \A a \in App : app'[a].is = "there" => manifest' = a
  PROVE  OneInv'
<1> SUFFICES ASSUME orderly'
             PROVE  /\ \A q, r \in Proc : ~Idle(q)' /\ ~Idle(r)' => q = r
                    /\ \A q \in Proc : cmd'[q].pc \in Working => cmd'[q].id = manifest'
                    /\ \A a \in App : There(a)' => manifest' = a
  BY DEF OneInv
<1>1. cmd' = [cmd EXCEPT ![p] = NoCommand]
  BY IdleCommand DEF Goes, Keeps
<1>2. NoCommand.pc = "idle" /\ "idle" \notin Working
  BY DEF NoCommand, Working
<1>3. \A q \in Proc : cmd'[q].pc = "idle"
  BY <1>1, <1>2 DEF IInv, AppsTypeOK, OneInv, Idle, At
<1>4. \A a \in App : There(a)' => manifest' = a
  BY DEF There
<1> QED
  BY <1>2, <1>3, <1>4 DEF Idle, At

LEMMA BeginsInTurn ==
  ASSUME IInv, OneInv, NEW p \in Proc, NEW c, Begins(p), Keeps(p, c), manifest' = manifest,
         orderly' = (orderly /\ Alone), c.pc \in Working => c.id = manifest
  PROVE  OneInv'
<1> SUFFICES ASSUME orderly'
             PROVE  /\ \A q, r \in Proc : ~Idle(q)' /\ ~Idle(r)' => q = r
                    /\ \A q \in Proc : cmd'[q].pc \in Working => cmd'[q].id = manifest'
                    /\ \A a \in App : There(a)' => manifest' = a
  BY DEF OneInv
<1>1. orderly /\ Alone
  BY Zenon
<1>2. cmd' = [cmd EXCEPT ![p] = c] /\ app' = app
  BY DEF Keeps, Begins, remote
<1>3. \A q \in Proc : q # p => cmd'[q].pc = "idle"
  BY <1>1, <1>2 DEF Alone, Idle, At, IInv, AppsTypeOK
<1>4. cmd'[p] = c
  BY <1>2 DEF IInv, AppsTypeOK
<1>5. "idle" \notin Working
  BY DEF Working
<1>6. \A a \in App : There(a)' => manifest' = a
  BY <1>1, <1>2 DEF OneInv, There
<1> QED
  BY <1>3, <1>4, <1>5, <1>6 DEF Idle, At

LEMMA DeployingCarries ==
  ASSUME NEW t, NEW r
  PROVE  Deploying(t, r).pc \in Working => Deploying(t, r).id = manifest
<1> DEFINE c == [NoCommand EXCEPT !.toml = t, !.id = manifest]
           d(target) == [c EXCEPT !.target = target, !.image = r.image, !.noPush = r.noPush]
           e == [c EXCEPT !.todo = Entries(t)]
           f == [e EXCEPT !.target = Foremost(e.todo), !.image = e.toml[Foremost(e.todo)].image]
<1>1. (\E pc, target : Deploying(t, r) = To(d(target), pc)) \/ \E pc : Deploying(t, r) = To(f, pc)
  BY DEF Deploying, Prepare
<1>2. ASSUME NEW pc, NEW target
      PROVE  To(d(target), pc).pc = "idle" \/ To(d(target), pc).id = manifest
  BY DEF To, NoCommand
<1>3. ASSUME NEW pc
      PROVE  To(f, pc).pc = "idle" \/ To(f, pc).id = manifest
  BY DEF To, NoCommand
<1> QED
  BY <1>1, <1>2, <1>3 DEF Working

LEMMA StartsInTurn ==
  ASSUME IInv, OneInv, NEW p \in Proc, Starts(p)
  PROVE  OneInv'
<1>1. ASSUME NEW r \in Request, Deploy(p, r)
      PROVE  OneInv'
  <2>1. PICK t : Keeps(p, Deploying(t, r))
    BY <1>1 DEF Deploy
  <2>2. Begins(p) /\ manifest' = manifest /\ orderly' = (orderly /\ Alone)
    BY <1>1 DEF Deploy
  <2> QED
    BY <2>1, <2>2, DeployingCarries, BeginsInTurn
<1>2. CASE PushConfig(p)
  <2> DEFINE c == [NoCommand EXCEPT !.pc = "apply", !.kind = "push", !.toml = config, !.id = manifest]
  <2>1. Begins(p) /\ Keeps(p, c) /\ manifest' = manifest /\ orderly' = (orderly /\ Alone)
    BY <1>2 DEF PushConfig, files
  <2>2. c.id = manifest
    BY DEF NoCommand
  <2> HIDE DEF c
  <2> QED
    BY <2>1, <2>2, BeginsInTurn
<1>3. ASSUME NEW kind \in {"pull", "link", "delete", "undeploy"}, NEW a, On(p, kind, a)
      PROVE  OneInv'
  <2> DEFINE c == [NoCommand EXCEPT !.pc = kind, !.kind = kind, !.id = a]
  <2>1. Begins(p) /\ Keeps(p, c) /\ manifest' = manifest /\ orderly' = (orderly /\ Alone)
    BY <1>3 DEF On, files
  <2>2. c.pc \notin Working
    BY DEF NoCommand, Working
  <2> HIDE DEF c
  <2> QED
    BY <2>1, <2>2, BeginsInTurn
<1> QED
  BY <1>1, <1>2, <1>3 DEF Starts

LEMMA GoesCarries ==
  ASSUME IInv, NEW p \in Proc, NEW pc, Goes(p, pc)
  PROVE  \E c : Carries(cmd[p], c) /\ cmd' = [cmd EXCEPT ![p] = c]
BY ToCarries, CommandAt DEF Goes, Keeps

LEMMA BuildInTurn ==
  ASSUME IInv, OneInv, NEW p \in Proc, BuildImage(p)
  PROVE  OneInv'
<1>1. cmd[p].pc \in Working /\ cmd[p] \in CommandOf
  BY CommandAt DEF BuildImage, At, Working
<1>2. app' = app /\ orderly' = orderly /\ (manifest' = manifest \/ manifest' = Draft(cmd[p]))
  BY DEF BuildImage, remote
<1>3. ASSUME NEW i \in Built, NEW pc
      PROVE  Carries(cmd[p], To([cmd[p] EXCEPT !.image = i], pc))
  BY <1>1 DEF Carries, To, NoCommand, CommandOf
<1>4. \E c : Carries(cmd[p], c) /\ cmd' = [cmd EXCEPT ![p] = c]
  BY <1>3, GoesCarries DEF BuildImage, Keeps
<1> QED
  BY <1>1, <1>2, <1>4, Continues

LEMMA PushInTurn ==
  ASSUME IInv, OneInv, NEW p \in Proc, PushImage(p) \/ ResolveImage(p)
  PROVE  OneInv'
<1>1. cmd[p].pc \in Working /\ cmd[p] \in CommandOf
  BY CommandAt DEF PushImage, ResolveImage, At, Working
<1>2. app' = app /\ orderly' = orderly /\ (manifest' = manifest \/ manifest' = Draft(cmd[p]))
  BY DEF PushImage, ResolveImage, Persist, remote, files
<1>3. \E c : Carries(cmd[p], c) /\ cmd' = [cmd EXCEPT ![p] = c]
  <2>1. ASSUME NEW t \in Tomls, Keeps(p, Prepared([cmd[p] EXCEPT !.toml = t]))
        PROVE  \E c : Carries(cmd[p], c) /\ cmd' = [cmd EXCEPT ![p] = c]
    <3> DEFINE d == [cmd[p] EXCEPT !.toml = t]
    <3>1. d \in CommandOf /\ d.id = cmd[p].id
      BY <1>1 DEF CommandOf
    <3> HIDE DEF d
    <3>2. Carries(cmd[p], Prepared(d))
      BY <3>1, PreparedCarries DEF Carries
    <3> QED
      BY <2>1, <3>2 DEF Keeps, d
  <2>2. CASE Goes(p, "idle")
    BY <2>2, GoesCarries
  <2>3. Fit(cmd[p], registry) /\ (~Goes(p, "idle") => cmd[p].target \in Entries(cmd[p].toml))
    BY CommandAt DEF PushImage, ResolveImage, At, Working, CommandOK
  <2>4. CASE PushImage(p)
    <3> DEFINE s == Source(TRUE, cmd[p].image)
    <3>1. cmd[p].image \in Built /\ cmd[p].target \in Entries(cmd[p].toml)
      BY <2>4, CommandAt DEF PushImage, At, CommandOK
    <3>2. s \in Sources
      BY <3>1 DEF Source, Sources, Image
    <3>3. [cmd[p].toml EXCEPT ![cmd[p].target] = s] \in Tomls
      BY <2>3, <3>1, <3>2 DEF Fit, Tomls, Entries, Sources, Image, AppsAssumption
    <3> QED
      BY <2>1, <2>2, <2>4, <3>3 DEF PushImage
  <2>5. CASE ResolveImage(p)
    <3> DEFINE s == [cmd[p].toml[cmd[p].target] EXCEPT !.image = cmd[p].image]
    <3>1. cmd[p].image \in Image \cup {NoImage} /\ cmd[p].target \in Entries(cmd[p].toml)
      BY <1>1, <2>5, CommandAt DEF ResolveImage, At, CommandOK, CommandOf
    <3>2. s \in Sources /\ [cmd[p].toml EXCEPT ![cmd[p].target].image = cmd[p].image] = [cmd[p].toml EXCEPT ![cmd[p].target] = s]
      BY <2>3, <3>1 DEF Fit, Tomls, Entries, Sources
    <3> HIDE DEF s
    <3>3. [cmd[p].toml EXCEPT ![cmd[p].target] = s] \in Tomls
      BY <2>3, <3>1, <3>2 DEF Fit, Tomls, Entries, Sources, Image, AppsAssumption
    <3> QED
      BY <2>1, <2>2, <2>5, <3>2, <3>3 DEF ResolveImage
  <2> QED
    BY <2>4, <2>5
<1> QED
  BY <1>1, <1>2, <1>3, Continues

(* The steps that talk to an app that is there. *)
LEMMA AskInTurn ==
  ASSUME IInv, OneInv, NEW p \in Proc,
         ReadApp(p) \/ PatchApp(p) \/ SwapImage(p) \/ DeployApp(p) \/ FetchApp(p)
  PROVE  OneInv'
<1>1. cmd[p].pc \in Working /\ cmd[p] \in CommandOf
  BY CommandAt DEF ReadApp, PatchApp, SwapImage, DeployApp, FetchApp, At, Working
<1>2. orderly' = orderly /\ (manifest' = manifest \/ manifest' = Draft(cmd[p]))
  BY DEF ReadApp, PatchApp, SwapImage, DeployApp, FetchApp, Persist, files
<1>3. \A a \in App : app'[a].is = "there" => app[a].is = "there"
  <2>1. CASE ReadApp(p) \/ FetchApp(p)
    BY <2>1 DEF ReadApp, FetchApp, remote
  <2>2. ASSUME NEW a, There(a), NEW x, x.is = app[a].is, app' = [app EXCEPT ![a] = x]
        PROVE  \A b \in App : app'[b].is = "there" => app[b].is = "there"
    BY <2>2 DEF IInv, AppsTypeOK
  <2>3. cmd[p].id # None => cmd[p].id \in App
    BY <1>1 DEF CommandOf
  <2>4. CASE PatchApp(p)
    BY <2>3, <2>4 DEF PatchApp, There, IInv, AppsTypeOK
  <2>5. CASE SwapImage(p)
    BY <2>3, <2>5 DEF SwapImage, There, IInv, AppsTypeOK
  <2>6. CASE DeployApp(p)
    BY <2>3, <2>6 DEF DeployApp, There, IInv, AppsTypeOK
  <2> QED
    BY <2>1, <2>4, <2>5, <2>6
<1>4. \E c : Carries(cmd[p], c) /\ cmd' = [cmd EXCEPT ![p] = c]
  <2>1. CASE \E pc : Goes(p, pc)
    BY <2>1, GoesCarries
  <2>2. ASSUME NEW m, Keeps(p, To([cmd[p] EXCEPT !.target = m], "swap"))
        PROVE  \E c : Carries(cmd[p], c) /\ cmd' = [cmd EXCEPT ![p] = c]
    <3>1. Carries(cmd[p], To([cmd[p] EXCEPT !.target = m], "swap"))
      BY <1>1 DEF Carries, To, CommandOf
    <3> QED
      BY <2>2, <3>1 DEF Keeps
  <2> QED
    BY <2>1, <2>2 DEF ReadApp, PatchApp, SwapImage, DeployApp, FetchApp
<1> QED
  BY <1>1, <1>2, <1>3, <1>4, Continues

(* The first deploy of an app: the directory knows it as soon as the answer is there. *)
LEMMA CreateInTurn ==
  ASSUME IInv, OneInv, NEW p \in Proc, Create(p)
  PROVE  OneInv'
<1> SUFFICES ASSUME orderly'
             PROVE  /\ \A q, r \in Proc : ~Idle(q)' /\ ~Idle(r)' => q = r
                    /\ \A q \in Proc : cmd'[q].pc \in Working => cmd'[q].id = manifest'
                    /\ \A a \in App : There(a)' => manifest' = a
  BY DEF OneInv
<1>1. PICK a \in App : /\ Creates(a, cmd[p].toml) /\ manifest' = a /\ orderly' = orderly
                       /\ Keeps(p, To([cmd[p] EXCEPT !.id = a], Applied(cmd[p])))
  BY Zenon DEF Create
<1> DEFINE c == To([cmd[p] EXCEPT !.id = a], Applied(cmd[p]))
<1>2. orderly /\ cmd[p].pc \in Working /\ cmd[p].pc # "idle" /\ cmd[p].id = None /\ cmd[p] \in CommandOf
  BY <1>1, CommandAt DEF Create, At, Working
<1>3. manifest = None /\ \A q \in Proc : q # p => cmd[q].pc = "idle"
  BY <1>2 DEF OneInv, Idle, At
<1>4. \A b \in App : ~There(b)
  BY <1>2, <1>3 DEF OneInv, AppsAssumption
<1>5. c.pc = "idle" \/ c.id = a
  BY <1>2 DEF To, NoCommand, CommandOf
<1>6. cmd' = [cmd EXCEPT ![p] = c]
  BY <1>1 DEF Keeps
<1>7. \A b \in App : There(b)' => b = a
  BY <1>1, <1>4 DEF Creates, There, IInv, AppsTypeOK
<1>8. "idle" \notin Working
  BY DEF Working
<1> HIDE DEF c
<1>9. /\ \A q \in Proc : q # p => cmd'[q].pc = "idle"
      /\ cmd'[p] = c
  BY <1>3, <1>6 DEF IInv, AppsTypeOK
<1> QED
  BY <1>1, <1>5, <1>7, <1>8, <1>9 DEF Idle, At

(* pull, link, delete and undeploy, and a command that dies. *)
LEMMA OthersInTurn ==
  ASSUME IInv, OneInv, NEW p \in Proc, Pull(p) \/ Link(p) \/ Delete(p) \/ Undeploy(p) \/ Dies(p)
  PROVE  OneInv'
<1> DEFINE a == cmd[p].id
<1>1. ~Idle(p) /\ Goes(p, "idle")
  BY DEF Pull, Link, Delete, Undeploy, Dies, At, Idle
<1>2. orderly' => orderly
  BY Zenon DEF Pull, Link, Delete, Undeploy, Dies, LetsGo
<1>3. There(a) => a \in App
  BY CommandAt DEF There, CommandOf
<1>4. orderly => \A b \in App : app[b].is = "there" => manifest = b /\ b # None
  BY DEF OneInv, There, AppsAssumption
<1>5. orderly' => \A b \in App : app'[b].is = "there" => manifest' = b
  <2>1. CASE UNCHANGED <<manifest, app>>
    BY <1>2, <1>4, <2>1
  <2>2. CASE Pull(p) \/ Link(p)
    <3>1. app' = app
      BY <2>2 DEF Pull, Link, remote
    <3>2. CASE manifest' = a /\ LetsGo(a)
      <4>1. orderly' => manifest \in {None, a}
        BY Zenon, <3>2 DEF LetsGo
      <4> QED
        BY <1>2, <1>4, <3>1, <3>2, <4>1
    <3> QED
      BY <2>1, <2>2, <3>1, <3>2 DEF Pull, Link, files
  <2>3. CASE Delete(p)
    <3>1. CASE UNCHANGED <<manifest, app>>
      BY <2>1, <3>1
    <3>2. CASE There(a) /\ app' = [app EXCEPT ![a] = [NoApp EXCEPT !.is = "gone"]] /\ manifest' \in {manifest, None}
      <4>1. \A b \in App : app'[b].is = "there" => app[b].is = "there" /\ b # a
        BY <3>2 DEF NoApp, IInv, AppsTypeOK
      <4>2. orderly => manifest = a
        BY <1>3, <1>4, <3>2 DEF There
      <4> QED
        BY <1>2, <1>4, <4>1, <4>2
    <3> QED
      BY <2>3, <3>1, <3>2 DEF Delete
  <2>4. CASE Undeploy(p)
    <3>1. manifest' = manifest
      BY <2>4 DEF Undeploy, files
    <3>2. \A b \in App : app'[b].is = "there" => app[b].is = "there"
      <4>1. app' = app \/ (There(a) /\ app' = [app EXCEPT ![a].running = Nowhere])
        BY <2>4 DEF Undeploy
      <4>2. app \in [App -> [is : {"new", "there", "gone"}, template : [Container -> Image \cup {NoImage, None}],
                            running : [Container -> Image \cup {NoImage, None}]]]
        BY DEF IInv, AppsTypeOK
      <4>3. ASSUME There(a), app' = [app EXCEPT ![a].running = Nowhere], NEW b \in App
            PROVE  app'[b].is = app[b].is
        <5>1. a \in App
          BY <1>3, <4>3
        <5> HIDE DEF a
        <5>2. app'[b] = IF b = a THEN [app[b] EXCEPT !.running = Nowhere] ELSE app[b]
          BY <4>2, <4>3, <5>1
        <5> QED
          BY <4>2, <5>2
      <4> QED
        BY <4>1, <4>3
    <3> QED
      BY <1>2, <1>4, <3>1, <3>2
  <2>5. CASE Dies(p)
    BY <2>1, <2>5 DEF Dies, files, remote
  <2> QED
    BY <2>2, <2>3, <2>4, <2>5
<1> QED
  BY <1>1, <1>2, <1>5, Finishes

LEMMA NextInTurn ==
  IInv /\ OneInv /\ [AppsNext]_apps => OneInv'
<1> SUFFICES ASSUME IInv, OneInv, [AppsNext]_apps
             PROVE  OneInv'
  OBVIOUS
<1>1. CASE UNCHANGED apps
  BY <1>1 DEF apps, OneInv, There, Idle, At
<1>2. ASSUME NEW t \in Configs, Edit(t)
      PROVE  OneInv'
  BY <1>2 DEF Edit, remote, OneInv, There, Idle, At
<1>3. CASE Unlink
  <2>1. ~orderly'
    BY Zenon, <1>3 DEF Unlink
  <2> QED
    BY <2>1 DEF OneInv
<1>4. ASSUME NEW p \in Proc, Starts(p)
      PROVE  OneInv'
  BY <1>4, StartsInTurn
<1>5. ASSUME NEW p \in Proc, Steps(p) \/ Dies(p)
      PROVE  OneInv'
  BY <1>5, BuildInTurn, PushInTurn, AskInTurn, CreateInTurn, OthersInTurn DEF Steps
<1> QED
  BY <1>1, <1>2, <1>3, <1>4, <1>5 DEF AppsNext

(* Commands run one after another, wherever each of them stops, leave the directory no app it does not know (deploy.ts:351). *)
THEOREM KnowsItsApp ==
  AppsSpec => []OneApp
<1>1. AppsInit => OneInv
  <2> SUFFICES ASSUME AppsInit
               PROVE  OneInv
    OBVIOUS
  <2>1. /\ \A p \in Proc : cmd[p].pc = "idle"
        /\ \A a \in App : ~There(a)
    BY DEF AppsInit, NoCommand, NoApp, There
  <2> QED
    BY <2>1 DEF OneInv, Idle, At, Working
<1>2. OneInv => OneApp
  BY DEF OneInv, OneApp
<1> QED
  BY <1>1, <1>2, Invariant, NextInTurn, PTL DEF AppsSpec
=============================================================================
