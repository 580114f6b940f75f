---------------------------- MODULE SiteProvision ----------------------------
(***************************************************************************)
(* How a site comes to be and goes (packages/cli/src/commands/sites):      *)
(* `sites create`, `create --from-zone`, `migrate` and `delete`, each a    *)
(* sequence of requests over a storage zone, its pull zone and the state   *)
(* file `_bunny/site.json` in the zone, the marker by which every other    *)
(* command finds the site.  There is no transaction over the three: any    *)
(* request may be the last, and the same command is run again.             *)
(***************************************************************************)
EXTENDS Naturals, Sequences, FiniteSets

CONSTANTS
  Proc,         \* commands that may run at one time, each from a directory of its own
  Zone,         \* storage zones there are or may be created
  PullZone,     \* pull zones there are or may be created
  None,
  Foreign,      \* a zone the user serves through OldPull, with no site on it
  OldPull,
  Legacy,       \* the zone of a router-era site, served through LegacyPull
  LegacyPull,
  LegacyName,   \* the name of that site
  Names,        \* names sites are created and imported under
  AtomicWrites, \* assumption: nobody writes the state file between migrate's check and its upload
  MaxCommands,  \* bound: commands started
  MaxFaults     \* bound: requests that fail, processes that die, reads that see nothing

ASSUME NoneIsNothing == None \notin Zone \cup PullZone \cup Names \cup {LegacyName}
ASSUME ZonesDiffer == Foreign \in Zone /\ Legacy \in Zone /\ Foreign # Legacy
ASSUME PullZonesDiffer == OldPull \in PullZone /\ LegacyPull \in PullZone /\ OldPull # LegacyPull
ASSUME ProvisionBounds == AtomicWrites \in BOOLEAN /\ MaxCommands \in Nat /\ MaxFaults \in Nat

VARIABLES
  zone,     \* the storage zones
  pull,     \* the pull zones
  router,   \* the router-era site's Edge Script still exists
  link,     \* link[p]: the zone `.bunny/site.json` of p's directory names
  cmd,      \* cmd[p]: the command p runs
  orderly,  \* history: commands ran one after another, none missed a site in a listing, and none renamed what a create left
  commands,
  faults

provisioned == <<zone, pull, router, link, cmd, orderly, commands, faults>>

NoState == [kind |-> "none"]
Current(n, q, deploys) == [kind |-> "current", name |-> n, pull |-> q, deploys |-> deploys]
LegacyState(deploys) == [kind |-> "legacy", name |-> LegacyName, pull |-> LegacyPull, deploys |-> deploys]

(* An ID is never given twice: what was deleted is not what was never created. *)
NoZone == [is |-> "new", name |-> None, state |-> NoState]
NoPull == [is |-> "new", name |-> None, origin |-> None, rules |-> {}, script |-> FALSE]

Waiting == [pc |-> "idle", name |-> None, zone |-> None, pull |-> None, todo |-> <<>>,
            then |-> "idle", read |-> NoState, detached |-> FALSE, keep |-> FALSE]

(* siteRules, in the order they are upserted; what only sets cache times is left out. *)
BlockRules == <<"gate", "state">>
SiteRules == <<"gate", "state", "rewrite">>

ProvisionInit ==
  /\ zone = [z \in Zone |->
       IF z = Foreign THEN [NoZone EXCEPT !.is = "there"]
       ELSE IF z = Legacy THEN [is |-> "there", name |-> LegacyName, state |-> LegacyState(0)]
       ELSE NoZone]
  /\ \E attached \in BOOLEAN : pull = [q \in PullZone |->
       IF q = OldPull THEN [NoPull EXCEPT !.is = "there", !.origin = Foreign, !.script = attached]
       ELSE IF q = LegacyPull
         THEN [NoPull EXCEPT !.is = "there", !.origin = Legacy, !.name = LegacyName, !.script = TRUE]
       ELSE NoPull]
  /\ router = TRUE
  /\ link = [p \in Proc |-> None]
  /\ cmd = [p \in Proc |-> Waiting]
  /\ orderly = TRUE
  /\ commands = 0
  /\ faults = 0

-----------------------------------------------------------------------------
(* What a command sees. *)

ZoneThere(z) == zone[z].is = "there"
PullThere(q) == pull[q].is = "there"
IsSite(z) == ZoneThere(z) /\ zone[z].state.kind = "current"

(* fetchSites: a zone counts when its state names the pull zone it was found through. *)
Listed(z) ==
  /\ IsSite(z)
  /\ LET q == zone[z].state.pull IN PullThere(q) /\ pull[q].origin = z
NameTaken(n) == \E z \in Zone : Listed(z) /\ zone[z].state.name = n

(* findSiteStorageZones: zones whose name has the pattern of n. *)
Named(n) == {z \in Zone : ZoneThere(z) /\ zone[z].name = n}
Origins(z) == {q \in PullZone : PullThere(q) /\ pull[q].origin = z}

(* A zone without state of the current format is a half-finished create. *)
Resumable(n) == {z \in Named(n) : ~IsSite(z)}

-----------------------------------------------------------------------------
(* Commands: starting, going on, failing. *)

Running == {p \in Proc : cmd[p].pc # "idle"}

Begins(p, c) ==
  /\ p \notin Running /\ commands < MaxCommands
  /\ cmd' = [cmd EXCEPT ![p] = c]
  /\ orderly' = (orderly /\ Running = {})
  /\ commands' = commands + 1
  /\ UNCHANGED <<zone, pull, router, link, faults>>

Goes(p, c) ==
  /\ cmd' = [cmd EXCEPT ![p] = c]
  /\ UNCHANGED <<orderly, commands>>

(* The same, where the command went on without knowing of a site, or hid one from the creates to come. *)
GoesBlind(p, c) ==
  /\ cmd' = [cmd EXCEPT ![p] = c]
  /\ orderly' = FALSE
  /\ UNCHANGED commands

Faulty == faults < MaxFaults /\ faults' = faults + 1

(* A request is refused, its answer lost, or the process killed: the command ends where it is. *)
Dies(p) ==
  /\ p \in Running /\ Faulty
  /\ Goes(p, Waiting)
  /\ UNCHANGED <<zone, pull, router, link>>

(* What the next request is about has been deleted. *)
TargetGone(p) ==
  /\ \/ cmd[p].pc \in {"newpull", "mark", "guard", "commit"} /\ ~ZoneThere(cmd[p].zone)
     \/ cmd[p].pc \in {"rules", "detach", "verify"} /\ ~PullThere(cmd[p].pull)
  /\ Goes(p, Waiting)
  /\ UNCHANGED <<zone, pull, router, link, faults>>

-----------------------------------------------------------------------------
(* createSite. *)

Create(p, n) == Begins(p, [Waiting EXCEPT !.pc = "scan", !.name = n])

(* The listing of sites; a zone that cannot be read is only warned about. *)
ScanSites(p) ==
  /\ cmd[p].pc = "scan"
  /\ \/ Goes(p, IF NameTaken(cmd[p].name) THEN Waiting ELSE [cmd[p] EXCEPT !.pc = "zone"]) /\ UNCHANGED faults
     \/ NameTaken(cmd[p].name) /\ Faulty /\ GoesBlind(p, [cmd[p] EXCEPT !.pc = "zone"])
  /\ UNCHANGED <<zone, pull, router, link>>

(* A zone of the name that is a site refuses; one that is not is taken up; otherwise a zone is created. *)
Finished(n) == \E z \in Named(n) : IsSite(z) /\ zone[z].state.name = n

RefuseZone(p) ==
  /\ cmd[p].pc = "zone"
  /\ Finished(cmd[p].name)
  /\ Goes(p, Waiting)
  /\ UNCHANGED <<zone, pull, router, link, faults>>

ResumeZone(p, z) ==
  /\ cmd[p].pc = "zone"
  /\ ~Finished(cmd[p].name)
  /\ z \in Resumable(cmd[p].name)
  /\ Goes(p, [cmd[p] EXCEPT !.pc = "pull", !.zone = z])
  /\ UNCHANGED <<zone, pull, router, link, faults>>

(* Mutant: the zone is created without a look for an earlier one. *)
CreateZoneAnyway(p, z) ==
  /\ cmd[p].pc = "zone"
  /\ zone[z].is = "new"
  /\ zone' = [zone EXCEPT ![z] = [NoZone EXCEPT !.is = "there", !.name = cmd[p].name]]
  /\ Goes(p, [cmd[p] EXCEPT !.pc = "pull", !.zone = z])
  /\ UNCHANGED <<pull, router, link, faults>>

CreateZone(p, z) ==
  /\ cmd[p].pc = "zone"
  /\ ~Finished(cmd[p].name) /\ Resumable(cmd[p].name) = {}
  /\ zone[z].is = "new"
  /\ zone' = [zone EXCEPT ![z] = [NoZone EXCEPT !.is = "there", !.name = cmd[p].name]]
  /\ Goes(p, [cmd[p] EXCEPT !.pc = "pull", !.zone = z])
  /\ UNCHANGED <<pull, router, link, faults>>

(* findSitePullZone, and the pull zone it did not find. *)
Configuring(p, q, rules, then) == [cmd[p] EXCEPT !.pc = "rules", !.pull = q, !.todo = rules, !.then = then]

FindPull(p) ==
  LET found == {q \in Origins(cmd[p].zone) : pull[q].name = cmd[p].name} IN
  /\ cmd[p].pc = "pull"
  /\ \/ \E q \in found : Goes(p, Configuring(p, q, SiteRules, "mark"))
     \/ found = {} /\ Goes(p, [cmd[p] EXCEPT !.pc = "newpull"])
  /\ UNCHANGED <<zone, pull, router, link, faults>>

CreatePull(p, q) ==
  /\ cmd[p].pc = "newpull"
  /\ pull[q].is = "new" /\ ZoneThere(cmd[p].zone)
  /\ pull' = [pull EXCEPT ![q] = [NoPull EXCEPT !.is = "there", !.name = cmd[p].name, !.origin = cmd[p].zone]]
  /\ Goes(p, Configuring(p, q, SiteRules, "mark"))
  /\ UNCHANGED <<zone, router, link, faults>>

(* upsertEdgeRule, one rule after the other; without the pull zone the request fails. *)
UpsertRule(p) ==
  LET q == cmd[p].pull IN
  /\ cmd[p].pc = "rules" /\ cmd[p].todo # <<>> /\ PullThere(q)
  /\ pull' = [pull EXCEPT ![q].rules = @ \cup {Head(cmd[p].todo)}]
  /\ Goes(p, [cmd[p] EXCEPT !.todo = Tail(@)])
  /\ UNCHANGED <<zone, router, link, faults>>

RulesDone(p) ==
  /\ cmd[p].pc = "rules" /\ cmd[p].todo = <<>>
  /\ Goes(p, [cmd[p] EXCEPT !.pc = cmd[p].then])
  /\ UNCHANGED <<zone, pull, router, link, faults>>

(* writeRemoteState without an etag: whatever is there is replaced.  The directory is linked unless --no-link. *)
Mark(p, linked) ==
  LET z == cmd[p].zone IN
  /\ cmd[p].pc = "mark" /\ ZoneThere(z)
  /\ zone' = [zone EXCEPT ![z].state = Current(cmd[p].name, cmd[p].pull, 0)]
  /\ link' = [link EXCEPT ![p] = IF linked THEN z ELSE @]
  /\ Goes(p, Waiting)
  /\ UNCHANGED <<pull, router, faults>>

-----------------------------------------------------------------------------
(* create --from-zone: planSiteImport, the confirmation, importSite. *)

Import(p, z, n) ==
  /\ ZoneThere(z) /\ zone[z].state.kind = "none"
  /\ Begins(p, [Waiting EXCEPT !.pc = "plan", !.name = n, !.zone = z])

(* What a create left half-finished becomes a site of another name, where no create of its own name finds it. *)
Renames(p) == zone[cmd[p].zone].name \in Names \ {cmd[p].name}

(* Exactly one pull zone, no script on it, a name not taken. *)
PlanImport(p) ==
  LET z == cmd[p].zone IN
  /\ cmd[p].pc = "plan"
  /\ \/ \E q \in PullZone :
          LET c == [cmd[p] EXCEPT !.pc = "recheck", !.pull = q] IN
          /\ Origins(z) = {q} /\ ~pull[q].script /\ ~NameTaken(cmd[p].name)
          /\ IF Renames(p) THEN GoesBlind(p, c) ELSE Goes(p, c)
          /\ UNCHANGED faults
     \/ \E q \in PullZone :
          /\ Origins(z) = {q} /\ ~pull[q].script /\ NameTaken(cmd[p].name) /\ Faulty
          /\ GoesBlind(p, [cmd[p] EXCEPT !.pc = "recheck", !.pull = q])
     \/ /\ Cardinality(Origins(z)) # 1 \/ (\E q \in Origins(z) : pull[q].script) \/ NameTaken(cmd[p].name)
        /\ Goes(p, Waiting)
        /\ UNCHANGED faults
  /\ UNCHANGED <<zone, pull, router, link>>

(* Mutant: the marker is written before the rules that keep it from being served. *)
RecheckUnguarded(p) ==
  LET z == cmd[p].zone IN
  /\ cmd[p].pc = "recheck"
  /\ Goes(p, IF ZoneThere(z) /\ zone[z].state = NoState THEN [cmd[p] EXCEPT !.pc = "mark"] ELSE Waiting)
  /\ UNCHANGED <<zone, pull, router, link, faults>>

Recheck(p) ==
  LET z == cmd[p].zone IN
  /\ cmd[p].pc = "recheck"
  /\ Goes(p, IF ZoneThere(z) /\ zone[z].state = NoState
             THEN Configuring(p, cmd[p].pull, BlockRules, "mark") ELSE Waiting)
  /\ UNCHANGED <<zone, pull, router, link, faults>>

-----------------------------------------------------------------------------
(* migrateSite. *)

Migrate(p, z) ==
  /\ ZoneThere(z) /\ zone[z].state.kind = "legacy"
  /\ Begins(p, [Waiting EXCEPT !.pc = "own", !.zone = z, !.name = zone[z].state.name,
                  !.pull = zone[z].state.pull, !.read = zone[z].state])

AssertOwned(p) ==
  LET q == cmd[p].pull IN
  /\ cmd[p].pc = "own"
  /\ Goes(p, IF PullThere(q) /\ pull[q].origin = cmd[p].zone THEN [cmd[p] EXCEPT !.pc = "detach"] ELSE Waiting)
  /\ UNCHANGED <<zone, pull, router, link, faults>>

(* The script is detached; the API may accept that and ignore it. *)
Detach(p, ignored) ==
  LET q == cmd[p].pull IN
  /\ cmd[p].pc = "detach" /\ PullThere(q)
  /\ ignored => pull[q].script
  /\ pull' = [pull EXCEPT ![q].script = @ /\ ignored]
  /\ Goes(p, [cmd[p] EXCEPT !.pc = "verify", !.detached = pull[q].script])
  /\ UNCHANGED <<zone, router, link, faults>>

(* Mutant: the detach is taken for done. *)
TrustDetach(p) ==
  /\ cmd[p].pc = "verify"
  /\ Goes(p, Configuring(p, cmd[p].pull, SiteRules, "guard"))
  /\ UNCHANGED <<zone, pull, router, link, faults>>

VerifyDetached(p) ==
  /\ cmd[p].pc = "verify" /\ PullThere(cmd[p].pull)
  /\ Goes(p, IF pull[cmd[p].pull].script THEN Waiting
             ELSE Configuring(p, cmd[p].pull, SiteRules, "guard"))
  /\ UNCHANGED <<zone, pull, router, link, faults>>

(* Mutant: the state read before the confirmation is written without another look. *)
GuardNothing(p) ==
  /\ cmd[p].pc = "guard"
  /\ Goes(p, [cmd[p] EXCEPT !.pc = "commit"])
  /\ UNCHANGED <<zone, pull, router, link, faults>>

(* guardLegacyState: the file must still be the one that was read. *)
Guard(p) ==
  /\ cmd[p].pc = "guard" /\ ZoneThere(cmd[p].zone)
  /\ AtomicWrites => \A q \in Proc : cmd[q].pc # "commit"
  /\ Goes(p, IF zone[cmd[p].zone].state = cmd[p].read THEN [cmd[p] EXCEPT !.pc = "commit"] ELSE Waiting)
  /\ UNCHANGED <<zone, pull, router, link, faults>>

Commit(p) ==
  LET z == cmd[p].zone IN
  /\ cmd[p].pc = "commit" /\ ZoneThere(z)
  /\ zone' = [zone EXCEPT ![z].state = Current(cmd[p].name, cmd[p].pull, cmd[p].read.deploys)]
  /\ Goes(p, IF cmd[p].detached THEN [cmd[p] EXCEPT !.pc = "script"] ELSE Waiting)
  /\ UNCHANGED <<pull, router, link, faults>>

(* The router is deleted last; when that fails, the command only says so. *)
DeleteRouter(p, deleted) ==
  /\ cmd[p].pc = "script"
  /\ deleted \/ faults < MaxFaults
  /\ faults' = IF deleted THEN faults ELSE faults + 1
  /\ router' = (router /\ ~(deleted /\ cmd[p].zone = Legacy))
  /\ Goes(p, Waiting)
  /\ UNCHANGED <<zone, pull, link>>

(* A deploy of an older CLI, which keeps its own records. *)
OldDeploy ==
  /\ ZoneThere(Legacy) /\ zone[Legacy].state.kind = "legacy" /\ zone[Legacy].state.deploys = 0
  /\ AtomicWrites => \A p \in Proc : cmd[p].pc # "commit"
  /\ zone' = [zone EXCEPT ![Legacy].state = LegacyState(1)]
  /\ UNCHANGED <<pull, router, link, cmd, orderly, commands, faults>>

-----------------------------------------------------------------------------
(* deleteSiteResources, and the link the command drops. *)

Delete(p, z, keep) ==
  /\ IsSite(z)
  /\ Begins(p, [Waiting EXCEPT !.pc = "delpull", !.zone = z, !.name = zone[z].state.name,
                  !.pull = zone[z].state.pull, !.keep = keep])

(* One that is gone already is as good. *)
DeletePull(p) ==
  LET q == cmd[p].pull IN
  /\ cmd[p].pc = "delpull"
  /\ pull' = [pull EXCEPT ![q] = [NoPull EXCEPT !.is = "gone"]]
  /\ Goes(p, [cmd[p] EXCEPT !.pc = IF cmd[p].keep THEN "unmark" ELSE "delzone"])
  /\ UNCHANGED <<zone, router, link, faults>>

(* Mutant: the storage zone goes although the pull zone is still there. *)
PullStaysGoOn(p) ==
  /\ cmd[p].pc = "delpull" /\ Faulty
  /\ Goes(p, [cmd[p] EXCEPT !.pc = IF cmd[p].keep THEN "unmark" ELSE "delzone"])
  /\ UNCHANGED <<zone, pull, router, link>>

(* The marker is the only way back to a pull zone that could not be deleted. *)
PullStays(p) ==
  /\ cmd[p].pc = "delpull" /\ Faulty
  /\ Goes(p, Waiting)
  /\ UNCHANGED <<zone, pull, router, link>>

Unlinked(p) == [link EXCEPT ![p] = IF @ = cmd[p].zone THEN None ELSE @]

(* --keep-storage: the marker goes; when it cannot be removed, the command only warns. *)
Unmark(p, removed) ==
  LET z == cmd[p].zone IN
  /\ cmd[p].pc = "unmark"
  /\ removed \/ faults < MaxFaults
  /\ faults' = IF removed THEN faults ELSE faults + 1
  /\ zone' = [zone EXCEPT ![z].state = IF removed THEN NoState ELSE @]
  /\ link' = Unlinked(p)
  /\ Goes(p, Waiting)
  /\ UNCHANGED <<pull, router>>

DeleteZone(p) ==
  /\ cmd[p].pc = "delzone"
  /\ zone' = [zone EXCEPT ![cmd[p].zone] = [NoZone EXCEPT !.is = "gone"]]
  /\ link' = Unlinked(p)
  /\ Goes(p, Waiting)
  /\ UNCHANGED <<pull, router, faults>>

-----------------------------------------------------------------------------
Starts(p) ==
  \/ \E n \in Names : Create(p, n)
  \/ \E z \in Zone, n \in Names : Import(p, z, n)
  \/ \E z \in Zone : Migrate(p, z)
  \/ \E z \in Zone, keep \in BOOLEAN : Delete(p, z, keep)

Steps(p) ==
  \/ ScanSites(p) \/ RefuseZone(p) \/ FindPull(p) \/ UpsertRule(p) \/ RulesDone(p)
  \/ \E z \in Zone : ResumeZone(p, z) \/ CreateZone(p, z)
  \/ \E q \in PullZone : CreatePull(p, q)
  \/ \E linked \in BOOLEAN : Mark(p, linked)
  \/ PlanImport(p) \/ Recheck(p)
  \/ AssertOwned(p) \/ VerifyDetached(p) \/ Guard(p) \/ Commit(p)
  \/ \E ignored \in BOOLEAN : Detach(p, ignored)
  \/ \E deleted \in BOOLEAN : DeleteRouter(p, deleted)
  \/ DeletePull(p) \/ PullStays(p) \/ DeleteZone(p)
  \/ \E removed \in BOOLEAN : Unmark(p, removed)

ProvisionNext ==
  \/ OldDeploy
  \/ \E p \in Proc : Starts(p) \/ Steps(p) \/ Dies(p) \/ TargetGone(p)

ProvisionSpec == ProvisionInit /\ [][ProvisionNext]_provisioned

-----------------------------------------------------------------------------
(* Properties. *)

States(kind, names) == [kind : {kind}, name : names, pull : PullZone, deploys : {0, 1}]
State == {NoState} \cup States("current", Names \cup {LegacyName}) \cup States("legacy", {LegacyName})

(* Every variable has its type: in particular a state file names a pull zone and a command knows the zone it works on. *)
ProvisionTypeOK ==
  /\ zone \in [Zone -> [is : {"new", "there", "gone"}, name : Names \cup {LegacyName, None}, state : State]]
  /\ pull \in [PullZone -> [is : {"new", "there", "gone"}, name : Names \cup {LegacyName, None},
                           origin : Zone \cup {None}, rules : SUBSET {"gate", "state", "rewrite"}, script : BOOLEAN]]
  /\ router \in BOOLEAN /\ orderly \in BOOLEAN
  /\ link \in [Proc -> Zone \cup {None}]
  /\ \A p \in Proc :
       /\ cmd[p].pc \in {"idle", "scan", "zone", "pull", "newpull", "rules", "mark", "plan", "recheck", "own", "detach",
                        "verify", "guard", "commit", "script", "delpull", "unmark", "delzone"}
       /\ cmd[p].pc \notin {"idle", "scan", "zone"} => cmd[p].zone \in Zone
       /\ cmd[p].pc \in {"rules", "mark", "commit", "delpull"} => cmd[p].pull \in PullZone
  /\ commands \in Nat /\ faults \in Nat

Own(z) == zone[z].state.pull
Serves(z) == IsSite(z) /\ PullThere(Own(z)) /\ pull[Own(z)].origin = z

(* A zone that identifies as a site is never served with its state file or its unpublished deploys readable: the block rules are on its pull zone before the marker is written, and stay (api.ts:643, api.ts:831). *)
SitesGuarded == \A z \in Zone : Serves(z) => {"gate", "state"} \subseteq pull[Own(z)].rules

(* No site has an Edge Script that rewrites into what the gate rule blocks, which would serve 403s, even when the API ignores the detach (api.ts:349). *)
RouterDetached == \A z \in Zone : Serves(z) => ~pull[Own(z)].script

(* The marker is the only way back to a site's pull zone, and outlives it: whatever fails in between, a pull zone no marker leads to any more is deleted (api.ts:1142). *)
WayBack ==
  [][orderly' => \A z \in Zone, q \in PullZone :
       Serves(z) /\ Own(z) = q /\ PullThere(q)' => IsSite(z)' /\ zone'[z].state.pull = q]_provisioned

(* The records of a router-era site survive its migration, whoever deploys meanwhile, and its router lives until they are safe (api.ts:991, api.ts:1072). *)
LegacyKept ==
  [][zone[Legacy].state.kind = "legacy" /\ ZoneThere(Legacy) =>
       /\ router
       /\ ZoneThere(Legacy)'
       /\ zone[Legacy].state'.kind # "none"
       /\ zone[Legacy].state'.name = zone[Legacy].state.name
       /\ zone[Legacy].state'.deploys >= zone[Legacy].state.deploys]_provisioned

(* Run one after another, creates, imports and deletes leave one of each, whatever failed before: no two listed sites of one name, imported sites with foreign zone names included (api.ts:554, api.ts:789), no two zones a create made for one name and no two pull zones of one zone, because a create that failed is taken up where it stopped (api.ts:540). *)
OneEach ==
  orderly =>
    /\ \A y, z \in Zone : Listed(y) /\ Listed(z) /\ zone[y].state.name = zone[z].state.name => y = z
    /\ \A n \in Names : Cardinality(Named(n)) <= 1
    /\ \A z \in Zone : Cardinality(Origins(z)) <= 1
=============================================================================
