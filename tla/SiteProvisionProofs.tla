------------------------- MODULE SiteProvisionProofs -------------------------
(***************************************************************************)
(* Proofs about SiteProvision, for every number of commands, zones and     *)
(* names and however many requests fail: what is served as a site has its  *)
(* block rules and no router script, a router-era site keeps its records   *)
(* and its router until it is migrated, a command that runs alone keeps    *)
(* the way back to every pull zone it leaves behind, and commands that run *)
(* one after another leave one of each.                                    *)
(***************************************************************************)
EXTENDS SiteProvision, FiniteSetTheorems, TLAPS

USE NoneIsNothing, ZonesDiffer, PullZonesDiffer, ProvisionBounds

-----------------------------------------------------------------------------
(* The invariant. *)

(* No site is created or imported under the name of the router-era site. *)
Apart == LegacyName \notin Names

Known == Names \cup {LegacyName, None}
Being == {"new", "there", "gone"}
Block == {"gate", "state"}
ZoneOf == [is : Being, name : Known, state : State]
PullOf == [is : Being, name : Known, origin : Zone \cup {None}, rules : SUBSET {"gate", "state", "rewrite"}, script : BOOLEAN]

Places == {"idle", "scan", "zone", "pull", "newpull", "rules", "mark", "plan", "recheck", "own", "detach",
           "verify", "guard", "commit", "script", "delpull", "unmark", "delzone"}
Todos == {<<>>, <<"rewrite">>, <<"state">>, <<"state", "rewrite">>, BlockRules, SiteRules}
CommandOf == [pc : Places, name : Known, zone : Zone \cup {None}, pull : PullZone \cup {None}, todo : Todos,
              then : {"idle", "mark", "guard"}, read : State, detached : BOOLEAN, keep : BOOLEAN]

(* The block rules that have been upserted when t is left. *)
Placed(t) ==
  IF t \in {BlockRules, SiteRules} THEN {}
  ELSE IF t \in {<<"state">>, <<"state", "rewrite">>} THEN {"gate"} ELSE Block

(* What a command at a place is for. *)
Ruling(c, then) == c.pc = "rules" /\ c.then = then
Making(c) == c.pc \in {"pull", "newpull", "plan", "recheck", "mark"} \/ Ruling(c, "mark")
Migrating(c) == c.pc \in {"own", "detach", "verify", "guard", "commit"} \/ Ruling(c, "guard")
Deleting(c) == c.pc \in {"delpull", "unmark", "delzone"}

CommandOK(c) ==
  /\ c \in CommandOf
  /\ c.pc = "rules" => c.then \in {"mark", "guard"}
  /\ c.pc \notin {"idle", "scan", "zone"} => c.zone \in Zone
  /\ c.pc \in {"rules", "mark", "recheck"} \/ Migrating(c) \/ Deleting(c) => c.pull \in PullZone
  /\ c.pc \in {"scan", "zone"} \/ Making(c) => c.name \in Names
  /\ Migrating(c) => c.read \in States("legacy", {LegacyName}) /\ c.name = LegacyName

(* What a command has made sure of, however others interfere: its pull zone was created, has the rules
   upserted so far and no script, and what it is about to write to a zone replaces no router-era state
   but the one it read. *)
Fit(c, zn, pl) ==
  /\ c.pull # None => pl[c.pull].is # "new"
  /\ c.pc = "rules" /\ pl[c.pull].is = "there" => Placed(c.todo) \subseteq pl[c.pull].rules
  /\ c.pc \in {"mark", "guard", "commit"} /\ pl[c.pull].is = "there" => Block \subseteq pl[c.pull].rules
  /\ Apart /\ c.pc \in {"recheck", "rules", "mark", "guard", "commit"} => ~pl[c.pull].script
  /\ Apart /\ (Making(c) \/ Deleting(c) \/ c.pc = "script") => zn[c.zone].state.kind # "legacy"
  /\ AtomicWrites /\ c.pc = "commit" /\ zn[c.zone].state.kind = "legacy" => zn[c.zone].state = c.read

(* What a command that runs alone knows besides. *)
Lone(c, zn, pl) ==
  /\ Making(c) \/ c.pc = "commit" => zn[c.zone].state.kind # "current"
  /\ Deleting(c) => zn[c.zone].state.kind = "current" /\ zn[c.zone].state.pull = c.pull
  /\ c.pc \in {"unmark", "delzone"} => pl[c.pull].is = "gone"

(* What a state file says is so, and a zone keeps its origin. *)
Vouched(z, r, pl) ==
  /\ r.state.kind # "none" => pl[r.state.pull].is # "new"
  /\ r.state.kind = "current" =>
       /\ pl[r.state.pull].is = "there" => Block \subseteq pl[r.state.pull].rules
       /\ Apart => ~pl[r.state.pull].script
  /\ r.state.kind = "legacy" => z = Legacy
  /\ z = Legacy => r.is # "new" /\ pl[LegacyPull].is # "new" /\ (Apart => r.name \notin Names)

(* A script is on no pull zone that was created for a site of ours. *)
Scripted(r) == Apart /\ r.script => r.name \notin Names

Typed ==
  /\ zone \in [Zone -> ZoneOf] /\ pull \in [PullZone -> PullOf]
  /\ router \in BOOLEAN /\ orderly \in BOOLEAN
  /\ link \in [Proc -> Zone \cup {None}]
  /\ cmd \in [Proc -> CommandOf]
  /\ commands \in Nat /\ faults \in Nat

Alone == \A p, q \in Proc : cmd[p].pc # "idle" /\ cmd[q].pc # "idle" => p = q

IInv ==
  /\ Typed
  /\ \A z \in Zone : Vouched(z, zone[z], pull)
  /\ \A q \in PullZone : Scripted(pull[q])
  /\ Apart /\ zone[Legacy].state.kind = "legacy" => router
  /\ \A p \in Proc : CommandOK(cmd[p]) /\ Fit(cmd[p], zone, pull)
  /\ orderly => Alone /\ \A p \in Proc : Lone(cmd[p], zone, pull)

-----------------------------------------------------------------------------
(* The operators. *)

LEMMA StateFacts ==
  /\ NoState \in State
  /\ \A s \in State : s.kind \in {"none", "current", "legacy"}
  /\ \A s \in State : s.kind = "none" => s = NoState
  /\ \A s \in State : s.kind # "none" => s.pull \in PullZone /\ s.deploys \in {0, 1} /\ s.name \in Names \cup {LegacyName}
  /\ \A s \in State : s.kind = "legacy" => s \in States("legacy", {LegacyName}) /\ s.name = LegacyName
BY DEF State, States, NoState

LEMMA NewStates ==
  ASSUME NEW n \in Names \cup {LegacyName}, NEW q \in PullZone, NEW d \in {0, 1}
  PROVE  /\ Current(n, q, d) \in State
         /\ Current(n, q, d).kind = "current" /\ Current(n, q, d).pull = q
         /\ Current(n, q, d).name = n /\ Current(n, q, d).deploys = d
<1>1. Current(n, q, d) \in States("current", Names \cup {LegacyName})
  BY DEF Current, States
<1> QED
  BY <1>1 DEF State, Current

LEMMA LegacyStates ==
  ASSUME NEW d \in {0, 1}
  PROVE  /\ LegacyState(d) \in State /\ LegacyState(d).kind = "legacy"
         /\ LegacyState(d).name = LegacyName /\ LegacyState(d).deploys = d /\ LegacyState(d).pull = LegacyPull
BY DEF LegacyState, State, States

(* One rule upserted, the rest is left. *)
LEMMA Upserts ==
  ASSUME NEW t \in Todos, t # <<>>
  PROVE  /\ Tail(t) \in Todos
         /\ Head(t) \in {"gate", "state", "rewrite"}
         /\ Placed(Tail(t)) \subseteq Placed(t) \cup {Head(t)}
<1>1. CASE t = <<"rewrite">>
  BY <1>1 DEF Todos, Placed, Block, BlockRules, SiteRules
<1>2. CASE t = <<"state">>
  BY <1>2 DEF Todos, Placed, Block, BlockRules, SiteRules
<1>3. CASE t = <<"state", "rewrite">>
  BY <1>3 DEF Todos, Placed, Block, BlockRules, SiteRules
<1>4. CASE t = BlockRules
  BY <1>4 DEF Todos, Placed, Block, BlockRules, SiteRules
<1>5. CASE t = SiteRules
  BY <1>5 DEF Todos, Placed, Block, BlockRules, SiteRules
<1> QED
  BY <1>1, <1>2, <1>3, <1>4, <1>5 DEF Todos

LEMMA TodoFacts ==
  /\ BlockRules \in Todos /\ SiteRules \in Todos /\ <<>> \in Todos
  /\ Placed(BlockRules) = {} /\ Placed(SiteRules) = {} /\ Placed(<<>>) = Block
BY DEF Todos, Placed, BlockRules, SiteRules

LEMMA WaitingOK ==
  ASSUME NEW zn, NEW pl
  PROVE  CommandOK(Waiting) /\ Fit(Waiting, zn, pl) /\ Lone(Waiting, zn, pl) /\ Waiting.pc = "idle"
BY StateFacts, TodoFacts DEF CommandOK, Fit, Lone, Waiting, CommandOf, Places, Making, Migrating, Deleting, Ruling, Known

-----------------------------------------------------------------------------
(* What a step does to the zones and pull zones that commands know of. *)

(* A pull zone is created once and deleted once; in between its rules only grow, and no script is attached. *)
Forward(r, s) ==
  /\ r.is # "new" => s.is # "new"
  /\ r.is # "new" /\ s.is = "there" => r.is = "there" /\ r.rules \subseteq s.rules
  /\ r.is = "gone" => s.is = "gone"
  /\ s.script => r.script /\ s.name = r.name

(* A router-era state is never written, but for the deploys of an older CLI. *)
Onward(r, s) == s.state.kind = "legacy" => s.state = r.state

LEMMA Same ==
  ASSUME NEW r
  PROVE  Forward(r, r) /\ Onward(r, r)
BY DEF Forward, Onward

(* What a command knows stays so. *)
LEMMA FitKeeps ==
  ASSUME NEW c, CommandOK(c), NEW zn, NEW pl, NEW zz, NEW pp,
         pl \in [PullZone -> PullOf], pp \in [PullZone -> PullOf],
         \A q \in PullZone : Forward(pl[q], pp[q]), \A z \in Zone : Onward(zn[z], zz[z]),
         Fit(c, zn, pl)
  PROVE  Fit(c, zz, pp)
<1>1. c.pull \in PullZone \cup {None} /\ (c.pc \in {"rules", "mark", "recheck", "guard", "commit"} => c.pull \in PullZone)
  BY DEF CommandOK, CommandOf, Migrating
<1>2. c.pull # None => Forward(pl[c.pull], pp[c.pull])
  BY <1>1
<1>3. c.pull # None => pp[c.pull].is # "new"
  BY <1>1, <1>2 DEF Fit, Forward
<1>4. c.pull # None /\ pp[c.pull].is = "there" => pl[c.pull].is = "there" /\ pl[c.pull].rules \subseteq pp[c.pull].rules
  BY <1>2 DEF Fit, Forward
<1>5. c.pc = "rules" /\ pp[c.pull].is = "there" => Placed(c.todo) \subseteq pp[c.pull].rules
  BY <1>1, <1>4 DEF Fit
<1>6. c.pc \in {"mark", "guard", "commit"} /\ pp[c.pull].is = "there" => Block \subseteq pp[c.pull].rules
  BY <1>1, <1>4 DEF Fit
<1>7. Apart /\ c.pc \in {"recheck", "rules", "mark", "guard", "commit"} => ~pp[c.pull].script
  BY <1>1, <1>2 DEF Fit, Forward
<1>8. Making(c) \/ Deleting(c) \/ c.pc \in {"script", "commit"} => Onward(zn[c.zone], zz[c.zone])
  BY DEF CommandOK, Making, Deleting, Ruling
<1>9. Apart /\ (Making(c) \/ Deleting(c) \/ c.pc = "script") => zz[c.zone].state.kind # "legacy"
  BY <1>8 DEF Fit, Onward
<1>10. AtomicWrites /\ c.pc = "commit" /\ zz[c.zone].state.kind = "legacy" => zz[c.zone].state = c.read
  BY <1>8 DEF Fit, Onward
<1> QED
  BY <1>3, <1>5, <1>6, <1>7, <1>9, <1>10 DEF Fit

(* So does what a state file says of a pull zone. *)
LEMMA VouchedKeeps ==
  ASSUME NEW z \in Zone, NEW r \in ZoneOf, NEW pl, NEW pp,
         pl \in [PullZone -> PullOf], pp \in [PullZone -> PullOf],
         \A q \in PullZone : Forward(pl[q], pp[q]), Vouched(z, r, pl)
  PROVE  Vouched(z, r, pp)
<1>1. r.state.kind # "none" => r.state.pull \in PullZone
  BY StateFacts DEF ZoneOf
<1>2. r.state.kind # "none" => Forward(pl[r.state.pull], pp[r.state.pull])
  BY <1>1
<1>3. Forward(pl[LegacyPull], pp[LegacyPull])
  OBVIOUS
<1> QED
  BY <1>1, <1>2, <1>3 DEF Vouched, Forward

-----------------------------------------------------------------------------
(* A step of command p. *)

Moves(p, c) ==
  /\ cmd' = [cmd EXCEPT ![p] = c]
  /\ orderly' \in BOOLEAN /\ commands' \in Nat /\ faults' \in Nat
  /\ link' \in [Proc -> Zone \cup {None}]
  /\ orderly' => \A q \in Proc \ {p} : cmd[q].pc = "idle"

Learns(c) == CommandOK(c) /\ Fit(c, zone', pull') /\ (orderly' => Lone(c, zone', pull'))

LEMMA IdleLone ==
  ASSUME NEW c, c.pc = "idle", NEW zn, NEW pl
  PROVE  Lone(c, zn, pl)
BY DEF Lone, Making, Deleting, Ruling

LEMMA StepKeeps ==
  ASSUME IInv, NEW p \in Proc, NEW c, Moves(p, c), Learns(c),
         zone' \in [Zone -> ZoneOf], pull' \in [PullZone -> PullOf], router' \in BOOLEAN,
         \A q \in PullZone : Forward(pull[q], pull'[q]) /\ Scripted(pull'[q]),
         \A z \in Zone : Onward(zone[z], zone'[z]) /\ Vouched(z, zone'[z], pull'),
         Apart /\ zone'[Legacy].state.kind = "legacy" => router'
  PROVE  IInv'
<1>1. c \in CommandOf
  BY DEF Learns, CommandOK
<1>2. cmd' \in [Proc -> CommandOf]
  BY <1>1 DEF Moves, IInv, Typed
<1>3. Typed'
  BY <1>2 DEF Typed, Moves
<1>4. \A q \in Proc : cmd'[q] = IF q = p THEN c ELSE cmd[q]
  BY DEF Moves, IInv, Typed
<1>5. ASSUME NEW q \in Proc PROVE (CommandOK(cmd[q]) /\ Fit(cmd[q], zone, pull))'
  <2>1. CASE q = p
    BY <1>4, <2>1 DEF Learns
  <2>2. CASE q # p
    <3>1. CommandOK(cmd[q]) /\ Fit(cmd[q], zone, pull) /\ pull \in [PullZone -> PullOf]
      BY DEF IInv, Typed
    <3>2. Fit(cmd[q], zone', pull')
      BY <3>1, FitKeeps
    <3>3. cmd'[q] = cmd[q]
      BY <1>4, <2>2
    <3>4. Fit(cmd'[q], zone', pull')
      BY <3>2, <3>3
    <3>5. CommandOK(cmd'[q])
      BY <3>1, <3>3
    <3> QED
      BY <3>4, <3>5
  <2> QED
    BY <2>1, <2>2
<1>6. ASSUME orderly' PROVE Alone' /\ \A q \in Proc : Lone(cmd[q], zone, pull)'
  <2>1. \A q \in Proc \ {p} : cmd'[q].pc = "idle"
    BY <1>4, <1>6 DEF Moves
  <2>2. Alone'
    BY <2>1 DEF Alone
  <2>3. ASSUME NEW q \in Proc PROVE Lone(cmd'[q], zone', pull')
    <3>1. CASE q = p
      BY <3>1, <1>4, <1>6 DEF Learns
    <3>2. CASE q # p
      BY <3>2, <2>1, IdleLone
    <3> QED
      BY <3>1, <3>2
  <2> QED
    BY <2>2, <2>3
<1>7. (\A z \in Zone : Vouched(z, zone[z], pull))' /\ (\A q \in PullZone : Scripted(pull[q]))'
  OBVIOUS
<1> QED
  BY <1>3, <1>5, <1>6, <1>7 DEF IInv

(* A step that leaves zones, pull zones and the router alone. *)
LEMMA QuietKeeps ==
  ASSUME IInv, NEW p \in Proc, NEW c, Moves(p, c), Learns(c), UNCHANGED <<zone, pull, router>>
  PROVE  IInv'
<1>1. /\ zone' \in [Zone -> ZoneOf] /\ pull' \in [PullZone -> PullOf]
      /\ Apart /\ zone'[Legacy].state.kind = "legacy" => router'
      /\ \A q \in PullZone : pull'[q] = pull[q] /\ Scripted(pull'[q])
      /\ \A z \in Zone : zone'[z] = zone[z] /\ Vouched(z, zone'[z], pull')
  BY DEF IInv, Typed
<1>2. router' \in BOOLEAN
  BY Zenon DEF IInv, Typed
<1>3. \A q \in PullZone : Forward(pull[q], pull'[q]) /\ Scripted(pull'[q])
  BY <1>1, Same
<1>4. \A z \in Zone : Onward(zone[z], zone'[z]) /\ Vouched(z, zone'[z], pull')
  BY <1>1, Same
<1> QED
  BY <1>1, <1>2, <1>3, <1>4, StepKeeps

(* One that changes one pull zone. *)
LEMMA PullKeeps ==
  ASSUME IInv, NEW p \in Proc, NEW c, Moves(p, c), Learns(c), UNCHANGED <<zone, router>>,
         NEW q \in PullZone, NEW r \in PullOf, pull' = [pull EXCEPT ![q] = r], Forward(pull[q], r), Scripted(r)
  PROVE  IInv'
<1>1. pull \in [PullZone -> PullOf] /\ zone \in [Zone -> ZoneOf]
  BY DEF IInv, Typed
<1>2. pull' \in [PullZone -> PullOf] /\ \A s \in PullZone : pull'[s] = IF s = q THEN r ELSE pull[s]
  BY <1>1
<1>3. \A s \in PullZone : Forward(pull[s], pull'[s]) /\ Scripted(pull'[s])
  BY <1>2, Same DEF IInv
<1>4. ASSUME NEW z \in Zone PROVE Onward(zone[z], zone'[z]) /\ Vouched(z, zone'[z], pull')
  <2>1. Vouched(z, zone[z], pull) /\ zone[z] \in ZoneOf
    BY <1>1 DEF IInv
  <2>2. Vouched(z, zone[z], pull')
    BY <1>1, <1>2, <1>3, <2>1, VouchedKeeps
  <2> QED
    BY <2>2, Same
<1>5. router' \in BOOLEAN
  BY Zenon DEF IInv, Typed
<1>6. Apart /\ zone'[Legacy].state.kind = "legacy" => router'
  BY DEF IInv
<1> QED
  BY <1>1, <1>2, <1>3, <1>4, <1>5, <1>6, StepKeeps

(* One that changes one zone. *)
LEMMA ZoneKeeps ==
  ASSUME IInv, NEW p \in Proc, NEW c, Moves(p, c), Learns(c), UNCHANGED <<pull, router>>,
         NEW z \in Zone, NEW r \in ZoneOf, zone' = [zone EXCEPT ![z] = r], r.state.kind # "legacy", Vouched(z, r, pull)
  PROVE  IInv'
<1>1. pull \in [PullZone -> PullOf] /\ zone \in [Zone -> ZoneOf]
  BY DEF IInv, Typed
<1>2. zone' \in [Zone -> ZoneOf] /\ \A y \in Zone : zone'[y] = IF y = z THEN r ELSE zone[y]
  BY <1>1
<1>3. \A y \in Zone : Vouched(y, zone'[y], pull')
  BY <1>2 DEF IInv
<1>4. \A y \in Zone : Onward(zone[y], zone'[y])
  BY <1>2 DEF Onward
<1>5. \A q \in PullZone : Forward(pull[q], pull'[q]) /\ Scripted(pull'[q])
  BY Same DEF IInv
<1>6. router' \in BOOLEAN
  BY Zenon DEF IInv, Typed
<1>7. Apart /\ zone'[Legacy].state.kind = "legacy" => router'
  BY <1>2 DEF IInv
<1> QED
  BY <1>1, <1>2, <1>3, <1>4, <1>5, <1>6, <1>7, StepKeeps

-----------------------------------------------------------------------------
(* The steps: what p goes on with. *)

LEMMA Types ==
  ASSUME IInv, NEW p \in Proc
  PROVE  /\ cmd[p] \in CommandOf /\ CommandOK(cmd[p]) /\ Fit(cmd[p], zone, pull)
         /\ orderly => Lone(cmd[p], zone, pull)
         /\ zone \in [Zone -> ZoneOf] /\ pull \in [PullZone -> PullOf] /\ link \in [Proc -> Zone \cup {None}]
         /\ commands \in Nat /\ faults \in Nat /\ faults + 1 \in Nat
BY DEF IInv, Typed

(* A running command goes on, or ends. *)
LEMMA GoesMoves ==
  ASSUME IInv, NEW p \in Proc, cmd[p].pc # "idle", NEW c, Goes(p, c) \/ GoesBlind(p, c),
         faults' \in Nat, link' \in [Proc -> Zone \cup {None}]
  PROVE  Moves(p, c) /\ (orderly' => orderly)
<1>1. orderly' \in BOOLEAN /\ (orderly' => orderly)
  <2>1. orderly \in BOOLEAN
    BY DEF IInv, Typed
  <2>2. CASE orderly' = orderly
    BY <2>1, <2>2, Zenon
  <2>3. CASE orderly' = FALSE
    BY <2>3, Zenon
  <2> QED
    BY <2>2, <2>3, Zenon DEF Goes, GoesBlind
<1>2. orderly => \A q \in Proc \ {p} : cmd[q].pc = "idle"
  BY DEF IInv, Alone
<1>3. commands' \in Nat
  BY Types DEF Goes, GoesBlind
<1> QED
  BY <1>1, <1>2, <1>3 DEF Moves, Goes, GoesBlind

LEMMA WaitingLearns ==
  ASSUME NEW p
  PROVE  Learns(Waiting)
BY WaitingOK DEF Learns

(* What the command goes on with when it does not end. *)
LEMMA Quietly ==
  ASSUME IInv, NEW p \in Proc, cmd[p].pc # "idle", NEW c, Goes(p, c) \/ GoesBlind(p, c), faults' \in Nat,
         UNCHANGED <<zone, pull, router, link>>,
         c = Waiting \/ (CommandOK(c) /\ Fit(c, zone, pull) /\ (orderly => Lone(c, zone, pull)))
  PROVE  IInv'
<1>1. Moves(p, c) /\ (orderly' => orderly)
  BY Types, GoesMoves
<1>2. Learns(c)
  <2>1. CASE c = Waiting
    BY <2>1, WaitingLearns
  <2>2. CASE c # Waiting
    BY <2>2, <1>1 DEF Learns
  <2> QED
    BY <2>1, <2>2
<1> QED
  BY <1>1, <1>2, QuietKeeps

LEMMA BeginsKeep ==
  ASSUME IInv, NEW p \in Proc, NEW c, Begins(p, c), CommandOK(c), Fit(c, zone, pull), Lone(c, zone, pull)
  PROVE  IInv'
<1>1. Moves(p, c)
  <2>1. orderly' \in BOOLEAN
    BY Zenon DEF Begins
  <2>2. orderly' => \A q \in Proc \ {p} : cmd[q].pc = "idle"
    BY DEF Begins, Running
  <2> QED
    BY <2>1, <2>2, Types DEF Begins, Moves
<1>2. Learns(c)
  BY DEF Begins, Learns
<1> QED
  BY <1>1, <1>2, QuietKeeps DEF Begins

LEMMA WaitingFacts ==
  /\ Waiting \in CommandOf
  /\ Waiting.pull = None /\ Waiting.todo = <<>> /\ Waiting.then = "idle" /\ Waiting.read = NoState
BY WaitingOK DEF CommandOK, Waiting

LEMMA CreateKeeps ==
  ASSUME IInv, NEW p \in Proc, NEW n \in Names, Create(p, n)
  PROVE  IInv'
<1> DEFINE c == [Waiting EXCEPT !.pc = "scan", !.name = n]
<1>1. CommandOK(c)
  BY WaitingFacts DEF CommandOK, CommandOf, Known, Places, Making, Migrating, Deleting, Ruling
<1>2. Fit(c, zone, pull) /\ Lone(c, zone, pull)
  BY WaitingFacts DEF CommandOf, Fit, Lone, Making, Deleting, Ruling
<1> QED
  BY <1>1, <1>2, BeginsKeep DEF Create

LEMMA ImportKeeps ==
  ASSUME IInv, NEW p \in Proc, NEW z \in Zone, NEW n \in Names, Import(p, z, n)
  PROVE  IInv'
<1> DEFINE c == [Waiting EXCEPT !.pc = "plan", !.name = n, !.zone = z]
<1>1. CommandOK(c)
  BY WaitingFacts DEF CommandOK, CommandOf, Known, Places, Making, Migrating, Deleting, Ruling
<1>2. c.pull = None /\ c.pc = "plan" /\ c.zone = z
  BY WaitingFacts DEF CommandOf
<1>3. Fit(c, zone, pull) /\ Lone(c, zone, pull)
  BY <1>2 DEF Fit, Lone, Making, Deleting, Ruling, Import
<1> QED
  BY <1>1, <1>3, BeginsKeep DEF Import

LEMMA MigrateKeeps ==
  ASSUME IInv, NEW p \in Proc, NEW z \in Zone, Migrate(p, z)
  PROVE  IInv'
<1> DEFINE s == zone[z].state
<1> DEFINE c == [Waiting EXCEPT !.pc = "own", !.zone = z, !.name = s.name, !.pull = s.pull, !.read = s]
<1>1. s \in State /\ s.kind = "legacy" /\ Vouched(z, zone[z], pull)
  BY DEF IInv, Typed, ZoneOf, Migrate
<1>2. s \in States("legacy", {LegacyName}) /\ s.name = LegacyName /\ s.pull \in PullZone
  BY <1>1, StateFacts
<1>3. pull[s.pull].is # "new"
  BY <1>1 DEF Vouched
<1> HIDE DEF s
<1>4. CommandOK(c)
  BY <1>1, <1>2, WaitingFacts DEF CommandOK, CommandOf, Known, Places, Making, Migrating, Deleting, Ruling
<1>5. c.pull = s.pull /\ c.pc = "own"
  BY WaitingFacts DEF CommandOf
<1>6. Fit(c, zone, pull) /\ Lone(c, zone, pull)
  BY <1>3, <1>5 DEF Fit, Lone, Making, Deleting, Ruling
<1> QED
  BY <1>4, <1>6, BeginsKeep DEF Migrate, s

LEMMA DeleteKeeps ==
  ASSUME IInv, NEW p \in Proc, NEW z \in Zone, NEW keep \in BOOLEAN, Delete(p, z, keep)
  PROVE  IInv'
<1> DEFINE s == zone[z].state
<1> DEFINE c == [Waiting EXCEPT !.pc = "delpull", !.zone = z, !.name = s.name, !.pull = s.pull, !.keep = keep]
<1>1. s \in State /\ s.kind = "current" /\ Vouched(z, zone[z], pull)
  BY DEF IInv, Typed, ZoneOf, Delete, IsSite
<1>2. s.name \in Names \cup {LegacyName} /\ s.pull \in PullZone
  BY <1>1, StateFacts
<1>3. pull[s.pull].is # "new"
  BY <1>1 DEF Vouched
<1> HIDE DEF s
<1>4. CommandOK(c)
  BY <1>1, <1>2, WaitingFacts DEF CommandOK, CommandOf, Known, Places, Making, Migrating, Deleting, Ruling
<1>5. c.pull = s.pull /\ c.pc = "delpull" /\ c.zone = z
  BY WaitingFacts DEF CommandOf
<1>6. zone[c.zone].state = s
  BY <1>5 DEF s
<1>7. Fit(c, zone, pull) /\ Lone(c, zone, pull)
  BY <1>1, <1>3, <1>5, <1>6 DEF Fit, Lone, Making, Deleting, Ruling
<1> QED
  BY <1>4, <1>7, BeginsKeep DEF Delete, s

-----------------------------------------------------------------------------
(* Steps that only read. *)

LEMMA ScanKeeps ==
  ASSUME IInv, NEW p \in Proc, ScanSites(p)
  PROVE  IInv'
<1> DEFINE c == [cmd[p] EXCEPT !.pc = "zone"]
<1>1. CommandOK(c) /\ c.pc = "zone" /\ c.pull = cmd[p].pull
  BY Types DEF ScanSites, CommandOK, CommandOf, Known, Places, Making, Migrating, Deleting, Ruling
<1>2. Fit(c, zone, pull) /\ Lone(c, zone, pull)
  BY <1>1, Types DEF Fit, Lone, Making, Deleting, Ruling
<1>3. faults' \in Nat
  BY Types DEF ScanSites, Faulty
<1>4. PICK d : d \in {c, Waiting} /\ (Goes(p, d) \/ GoesBlind(p, d))
  BY DEF ScanSites
<1> QED
  BY <1>1, <1>2, <1>3, <1>4, Quietly DEF ScanSites

LEMMA RefuseKeeps ==
  ASSUME IInv, NEW p \in Proc, RefuseZone(p)
  PROVE  IInv'
BY Types, Quietly DEF RefuseZone

LEMMA ResumeKeeps ==
  ASSUME IInv, NEW p \in Proc, NEW z \in Zone, ResumeZone(p, z)
  PROVE  IInv'
<1> DEFINE c == [cmd[p] EXCEPT !.pc = "pull", !.zone = z]
<1>0. cmd[p].name \in Names /\ cmd[p] \in CommandOf
  BY Types DEF ResumeZone, CommandOK
<1>1. CommandOK(c) /\ c.pc = "pull" /\ c.pull = cmd[p].pull /\ c.zone = z /\ cmd[p].name \in Names
  BY <1>0 DEF CommandOK, CommandOf, Places, Making, Migrating, Deleting, Ruling
<1>2. zone[z].name \in Names /\ zone[z].state.kind # "current"
  BY <1>1 DEF ResumeZone, Resumable, Named, IsSite
<1>3. Apart => zone[z].state.kind # "legacy"
  BY <1>2 DEF IInv, Vouched
<1>4. Fit(c, zone, pull) /\ Lone(c, zone, pull)
  BY <1>1, <1>2, <1>3, Types DEF Fit, Lone, Making, Deleting, Ruling
<1> QED
  BY <1>1, <1>4, Types, Quietly DEF ResumeZone

LEMMA FindKeeps ==
  ASSUME IInv, NEW p \in Proc, FindPull(p)
  PROVE  IInv'
<1>1. CASE \E q \in Origins(cmd[p].zone) :
             pull[q].name = cmd[p].name /\ Goes(p, Configuring(p, q, SiteRules, "mark"))
  <2>1. PICK q \in Origins(cmd[p].zone) : pull[q].name = cmd[p].name /\ Goes(p, Configuring(p, q, SiteRules, "mark"))
    BY <1>1
  <2> DEFINE c == Configuring(p, q, SiteRules, "mark")
  <2>2. q \in PullZone /\ pull[q].is = "there"
    BY DEF Origins, PullThere
  <2>3. CommandOK(c) /\ c.pc = "rules" /\ c.then = "mark" /\ c.pull = q /\ c.todo = SiteRules /\ c.zone = cmd[p].zone /\ cmd[p].name \in Names
    BY <2>2, Types, TodoFacts DEF FindPull, Configuring, CommandOK, CommandOf, Known, Places, Making, Migrating, Deleting, Ruling
  <2>4. Apart => ~pull[q].script
    BY <2>1, <2>2, <2>3 DEF IInv, Scripted
  <2>5. Apart => zone[cmd[p].zone].state.kind # "legacy"
    BY Types DEF FindPull, Fit, Making
  <2>6. Fit(c, zone, pull)
    BY <2>2, <2>3, <2>4, <2>5, TodoFacts DEF Fit, Making, Deleting, Ruling
  <2>7. orderly => Lone(c, zone, pull)
    BY <2>3, Types DEF FindPull, Lone, Making, Deleting, Ruling
  <2> QED
    BY <2>1, <2>3, <2>6, <2>7, Types, Quietly DEF FindPull
<1>2. CASE Goes(p, [cmd[p] EXCEPT !.pc = "newpull"])
  <2> DEFINE c == [cmd[p] EXCEPT !.pc = "newpull"]
  <2>1. CommandOK(c) /\ c.pc = "newpull" /\ c.pull = cmd[p].pull /\ c.zone = cmd[p].zone
    BY Types DEF FindPull, CommandOK, CommandOf, Known, Places, Making, Migrating, Deleting, Ruling
  <2>2. Fit(c, zone, pull)
    BY <2>1, Types DEF FindPull, Fit, Making, Deleting, Ruling
  <2>3. orderly => Lone(c, zone, pull)
    BY <2>1, Types DEF FindPull, Lone, Making, Deleting, Ruling
  <2> QED
    BY <1>2, <2>1, <2>2, <2>3, Types, Quietly DEF FindPull
<1> QED
  BY <1>1, <1>2 DEF FindPull

LEMMA RulesDoneKeeps ==
  ASSUME IInv, NEW p \in Proc, RulesDone(p)
  PROVE  IInv'
<1> DEFINE c == [cmd[p] EXCEPT !.pc = cmd[p].then]
<1>0. cmd[p] \in CommandOf /\ cmd[p].pc = "rules" /\ cmd[p].todo = <<>> /\ cmd[p].then \in {"mark", "guard"} /\ CommandOK(cmd[p])
  BY Types DEF RulesDone, CommandOK
<1>1. /\ c \in CommandOf /\ c.pc = cmd[p].then /\ c.pull = cmd[p].pull /\ c.zone = cmd[p].zone
      /\ c.name = cmd[p].name /\ c.read = cmd[p].read /\ c.then = cmd[p].then
  BY <1>0 DEF CommandOf, Places
<1> HIDE DEF c
<1>2. CommandOK(c)
  BY <1>0, <1>1 DEF CommandOK, Making, Migrating, Deleting, Ruling
<1>3. Fit(cmd[p], zone, pull)
  BY Types
<1>4. Fit(c, zone, pull)
  BY <1>0, <1>1, <1>3, TodoFacts DEF Fit, Making, Deleting, Ruling
<1>5. orderly => Lone(c, zone, pull)
  BY <1>0, <1>1, Types DEF Lone, Making, Deleting, Ruling
<1> QED
  BY <1>2, <1>4, <1>5, Types, Quietly DEF RulesDone, c

LEMMA PlanKeeps ==
  ASSUME IInv, NEW p \in Proc, PlanImport(p)
  PROVE  IInv'
<1>0. cmd[p] \in CommandOf /\ cmd[p].pc = "plan" /\ CommandOK(cmd[p]) /\ Fit(cmd[p], zone, pull) /\ faults' \in Nat
  BY Types DEF PlanImport, Faulty
<1>1. PICK d : /\ Goes(p, d) \/ GoesBlind(p, d)
               /\ \/ d = Waiting
                  \/ \E q \in PullZone : Origins(cmd[p].zone) = {q} /\ ~pull[q].script /\ d = [cmd[p] EXCEPT !.pc = "recheck", !.pull = q]
  BY DEF PlanImport
<1>2. CASE d = Waiting
  BY <1>0, <1>1, <1>2, Quietly DEF PlanImport
<1>3. ASSUME NEW q \in PullZone, Origins(cmd[p].zone) = {q}, ~pull[q].script, d = [cmd[p] EXCEPT !.pc = "recheck", !.pull = q]
      PROVE  IInv'
  <2>1. pull[q].is = "there"
    BY <1>3 DEF Origins, PullThere
  <2>2. /\ d \in CommandOf /\ d.pc = "recheck" /\ d.pull = q /\ d.zone = cmd[p].zone /\ d.name = cmd[p].name
    BY <1>0, <1>3 DEF CommandOf, Places
  <2>3. CommandOK(d)
    BY <1>0, <2>2 DEF CommandOK, Making, Migrating, Deleting, Ruling
  <2>4. Fit(d, zone, pull)
    BY <1>0, <1>3, <2>1, <2>2 DEF Fit, Making, Deleting, Ruling
  <2>5. orderly => Lone(d, zone, pull)
    BY <1>0, <2>2, Types DEF Lone, Making, Deleting, Ruling
  <2> QED
    BY <1>0, <1>1, <2>3, <2>4, <2>5, Quietly DEF PlanImport
<1> QED
  BY <1>1, <1>2, <1>3

LEMMA RecheckKeeps ==
  ASSUME IInv, NEW p \in Proc, Recheck(p)
  PROVE  IInv'
<1> DEFINE c == Configuring(p, cmd[p].pull, BlockRules, "mark")
<1>0. cmd[p] \in CommandOf /\ cmd[p].pc = "recheck" /\ CommandOK(cmd[p]) /\ Fit(cmd[p], zone, pull)
  BY Types DEF Recheck
<1>1. /\ c \in CommandOf /\ c.pc = "rules" /\ c.then = "mark" /\ c.todo = BlockRules
      /\ c.pull = cmd[p].pull /\ c.zone = cmd[p].zone /\ c.name = cmd[p].name
  BY <1>0, TodoFacts DEF CommandOf, Places, Configuring
<1>2. (Goes(p, c) \/ Goes(p, Waiting)) /\ UNCHANGED <<zone, pull, router, link, faults>>
  BY DEF Recheck
<1> HIDE DEF c
<1>3. CommandOK(c)
  BY <1>0, <1>1 DEF CommandOK, Making, Migrating, Deleting, Ruling
<1>4. Fit(c, zone, pull)
  BY <1>0, <1>1, TodoFacts DEF Fit, Making, Deleting, Ruling
<1>5. orderly => Lone(c, zone, pull)
  BY <1>0, <1>1, Types DEF Lone, Making, Deleting, Ruling
<1> QED
  BY <1>0, <1>2, <1>3, <1>4, <1>5, Types, Quietly

LEMMA AssertKeeps ==
  ASSUME IInv, NEW p \in Proc, AssertOwned(p)
  PROVE  IInv'
<1> DEFINE c == [cmd[p] EXCEPT !.pc = "detach"]
<1>0. cmd[p] \in CommandOf /\ cmd[p].pc = "own" /\ CommandOK(cmd[p]) /\ Fit(cmd[p], zone, pull)
  BY Types DEF AssertOwned
<1>1. /\ c \in CommandOf /\ c.pc = "detach" /\ c.pull = cmd[p].pull /\ c.zone = cmd[p].zone
      /\ c.name = cmd[p].name /\ c.read = cmd[p].read
  BY <1>0 DEF CommandOf, Places
<1>2. (Goes(p, c) \/ Goes(p, Waiting)) /\ UNCHANGED <<zone, pull, router, link, faults>>
  BY DEF AssertOwned
<1> HIDE DEF c
<1>3. CommandOK(c)
  BY <1>0, <1>1 DEF CommandOK, Making, Migrating, Deleting, Ruling
<1>4. Fit(c, zone, pull) /\ Lone(c, zone, pull)
  BY <1>0, <1>1 DEF Fit, Lone, Making, Deleting, Ruling
<1> QED
  BY <1>0, <1>2, <1>3, <1>4, Types, Quietly

LEMMA VerifyKeeps ==
  ASSUME IInv, NEW p \in Proc, VerifyDetached(p)
  PROVE  IInv'
<1> DEFINE c == Configuring(p, cmd[p].pull, SiteRules, "guard")
<1>0. cmd[p] \in CommandOf /\ cmd[p].pc = "verify" /\ CommandOK(cmd[p]) /\ Fit(cmd[p], zone, pull)
  BY Types DEF VerifyDetached
<1>1. /\ c \in CommandOf /\ c.pc = "rules" /\ c.then = "guard" /\ c.todo = SiteRules
      /\ c.pull = cmd[p].pull /\ c.zone = cmd[p].zone /\ c.name = cmd[p].name /\ c.read = cmd[p].read
  BY <1>0, TodoFacts DEF CommandOf, Places, Configuring
<1>2. /\ Goes(p, Waiting) \/ (Goes(p, c) /\ ~pull[cmd[p].pull].script)
      /\ UNCHANGED <<zone, pull, router, link, faults>>
  BY DEF VerifyDetached
<1> HIDE DEF c
<1>3. CommandOK(c)
  BY <1>0, <1>1 DEF CommandOK, Making, Migrating, Deleting, Ruling
<1>4. Lone(c, zone, pull)
  BY <1>1 DEF Lone, Making, Deleting, Ruling
<1>5. ~pull[cmd[p].pull].script => Fit(c, zone, pull)
  BY <1>0, <1>1, TodoFacts DEF Fit, Making, Deleting, Ruling
<1> QED
  BY <1>0, <1>2, <1>3, <1>4, <1>5, Types, Quietly

LEMMA GuardKeeps ==
  ASSUME IInv, NEW p \in Proc, Guard(p)
  PROVE  IInv'
<1> DEFINE c == [cmd[p] EXCEPT !.pc = "commit"]
<1>0. cmd[p] \in CommandOf /\ cmd[p].pc = "guard" /\ CommandOK(cmd[p]) /\ Fit(cmd[p], zone, pull)
  BY Types DEF Guard
<1>1. /\ c \in CommandOf /\ c.pc = "commit" /\ c.pull = cmd[p].pull /\ c.zone = cmd[p].zone
      /\ c.name = cmd[p].name /\ c.read = cmd[p].read
  BY <1>0 DEF CommandOf, Places
<1>2. /\ Goes(p, Waiting) \/ (Goes(p, c) /\ zone[c.zone].state = c.read)
      /\ UNCHANGED <<zone, pull, router, link, faults>>
  BY <1>1 DEF Guard
<1> HIDE DEF c
<1>3. CommandOK(c)
  BY <1>0, <1>1 DEF CommandOK, Making, Migrating, Deleting, Ruling
<1>4. c.read.kind = "legacy"
  BY <1>1, <1>3 DEF CommandOK, Migrating, States
<1>5. zone[c.zone].state = c.read => Fit(c, zone, pull) /\ Lone(c, zone, pull)
  BY <1>0, <1>1, <1>4 DEF Fit, Lone, Making, Deleting, Ruling
<1> QED
  BY <1>0, <1>2, <1>3, <1>5, Types, Quietly

LEMMA EndKeeps ==
  ASSUME IInv, NEW p \in Proc, Dies(p) \/ TargetGone(p) \/ PullStays(p)
  PROVE  IInv'
<1>1. cmd[p].pc # "idle" /\ Goes(p, Waiting) /\ faults' \in Nat /\ UNCHANGED <<zone, pull, router, link>>
  BY Types DEF Dies, TargetGone, PullStays, Running, Faulty
<1> QED
  BY <1>1, Quietly

LEMMA RouterKeeps ==
  ASSUME IInv, NEW p \in Proc, NEW deleted \in BOOLEAN, DeleteRouter(p, deleted)
  PROVE  IInv'
<1>0. cmd[p].pc = "script" /\ Fit(cmd[p], zone, pull) /\ faults' \in Nat
  BY Types DEF DeleteRouter
<1>1. Moves(p, Waiting)
  BY <1>0, Types, GoesMoves DEF DeleteRouter
<1>2. /\ zone' \in [Zone -> ZoneOf] /\ pull' \in [PullZone -> PullOf]
      /\ \A q \in PullZone : pull'[q] = pull[q] /\ Scripted(pull'[q])
      /\ \A z \in Zone : zone'[z] = zone[z] /\ Vouched(z, zone'[z], pull')
  BY DEF IInv, Typed, DeleteRouter
<1>3. router' \in BOOLEAN
  BY Zenon DEF IInv, Typed, DeleteRouter
<1>4. Apart /\ zone[Legacy].state.kind = "legacy" => router /\ cmd[p].zone # Legacy
  BY <1>0 DEF IInv, Fit
<1>5. cmd[p].zone # Legacy => router' = router
  <2>1. router \in BOOLEAN
    BY DEF IInv, Typed
  <2> QED
    BY <2>1, Zenon DEF DeleteRouter
<1>6. Apart /\ zone'[Legacy].state.kind = "legacy" => router'
  <2>1. zone' = zone
    BY DEF DeleteRouter
  <2> QED
    BY <1>4, <1>5, <2>1, Zenon
<1>7. \A q \in PullZone : Forward(pull[q], pull'[q]) /\ Scripted(pull'[q])
  BY <1>2, Same
<1>8. \A z \in Zone : Onward(zone[z], zone'[z]) /\ Vouched(z, zone'[z], pull')
  BY <1>2, Same
<1> QED
  BY <1>1, <1>2, <1>3, <1>6, <1>7, <1>8, WaitingLearns, StepKeeps

-----------------------------------------------------------------------------
(* Steps that change a pull zone. *)

LEMMA CreatePullKeeps ==
  ASSUME IInv, NEW p \in Proc, NEW q \in PullZone, CreatePull(p, q)
  PROVE  IInv'
<1> DEFINE c == Configuring(p, q, SiteRules, "mark")
<1> DEFINE r == [NoPull EXCEPT !.is = "there", !.name = cmd[p].name, !.origin = cmd[p].zone]
<1>0. cmd[p] \in CommandOf /\ cmd[p].pc = "newpull" /\ CommandOK(cmd[p]) /\ Fit(cmd[p], zone, pull)
  BY Types DEF CreatePull
<1>1. /\ c \in CommandOf /\ c.pc = "rules" /\ c.then = "mark" /\ c.todo = SiteRules
      /\ c.pull = q /\ c.zone = cmd[p].zone /\ c.name = cmd[p].name
  BY <1>0, TodoFacts DEF CommandOf, Places, Configuring
<1>2. r \in PullOf /\ r.is = "there" /\ r.script = FALSE
  BY <1>0 DEF PullOf, NoPull, CommandOf, Known, Being
<1>3. /\ pull[q].is = "new" /\ pull' = [pull EXCEPT ![q] = r] /\ Goes(p, c)
      /\ UNCHANGED <<zone, router, link, faults>>
  BY DEF CreatePull
<1> HIDE DEF c, r
<1>4. Moves(p, c) /\ (orderly' => orderly)
  BY <1>0, <1>3, Types, GoesMoves
<1>5. Forward(pull[q], r) /\ Scripted(r)
  BY <1>2, <1>3 DEF Forward, Scripted
<1>6. pull'[q] = r
  BY <1>3, Types
<1>7. CommandOK(c)
  BY <1>0, <1>1 DEF CommandOK, Making, Migrating, Deleting, Ruling
<1>8. Fit(c, zone', pull')
  BY <1>0, <1>1, <1>2, <1>3, <1>6, TodoFacts DEF Fit, Making, Deleting, Ruling
<1>9. orderly' => Lone(c, zone', pull')
  BY <1>0, <1>1, <1>3, <1>4, Types DEF Lone, Making, Deleting, Ruling
<1>10. Learns(c)
  BY <1>7, <1>8, <1>9 DEF Learns
<1> QED
  BY <1>2, <1>3, <1>4, <1>5, <1>10, PullKeeps

LEMMA UpsertKeeps ==
  ASSUME IInv, NEW p \in Proc, UpsertRule(p)
  PROVE  IInv'
<1> DEFINE q == cmd[p].pull
<1> DEFINE t == cmd[p].todo
<1> DEFINE c == [cmd[p] EXCEPT !.todo = Tail(t)]
<1> DEFINE r == [pull[q] EXCEPT !.rules = @ \cup {Head(t)}]
<1>0. cmd[p] \in CommandOf /\ cmd[p].pc = "rules" /\ CommandOK(cmd[p]) /\ Fit(cmd[p], zone, pull) /\ q \in PullZone
  BY Types DEF UpsertRule, CommandOK
<1>1. t \in Todos /\ t # <<>> /\ pull[q].is = "there" /\ pull[q] \in PullOf
  BY <1>0, Types DEF UpsertRule, PullThere, CommandOf
<1>2. Tail(t) \in Todos /\ Head(t) \in {"gate", "state", "rewrite"} /\ Placed(Tail(t)) \subseteq Placed(t) \cup {Head(t)}
  BY <1>1, Upserts
<1>3. /\ c \in CommandOf /\ c.pc = "rules" /\ c.then = cmd[p].then /\ c.todo = Tail(t)
      /\ c.pull = q /\ c.zone = cmd[p].zone /\ c.name = cmd[p].name /\ c.read = cmd[p].read
  BY <1>0, <1>2 DEF CommandOf
<1>4. /\ r \in PullOf /\ r.is = "there" /\ r.script = pull[q].script /\ r.name = pull[q].name
      /\ r.rules = pull[q].rules \cup {Head(t)}
  BY <1>1, <1>2 DEF PullOf
<1>5. pull' = [pull EXCEPT ![q] = r] /\ Goes(p, c) /\ UNCHANGED <<zone, router, link, faults>>
  BY DEF UpsertRule
<1>6. Placed(t) \subseteq pull[q].rules
  BY <1>0, <1>1 DEF Fit
<1> HIDE DEF c, r
<1>7. Moves(p, c) /\ (orderly' => orderly)
  BY <1>0, <1>5, Types, GoesMoves
<1>8. Forward(pull[q], r) /\ Scripted(r)
  BY <1>0, <1>1, <1>4 DEF Forward, Scripted, IInv
<1>9. pull'[q] = r
  BY <1>0, <1>5, Types
<1>10. CommandOK(c)
  BY <1>0, <1>3 DEF CommandOK, Making, Migrating, Deleting, Ruling
<1>11. Placed(c.todo) \subseteq r.rules
  BY <1>2, <1>3, <1>4, <1>6
<1>12. Fit(c, zone', pull')
  BY <1>0, <1>3, <1>4, <1>5, <1>9, <1>11 DEF Fit, Making, Deleting, Ruling
<1>13. orderly' => Lone(c, zone', pull')
  BY <1>0, <1>3, <1>5, <1>7, Types DEF Lone, Making, Deleting, Ruling
<1>14. Learns(c)
  BY <1>10, <1>12, <1>13 DEF Learns
<1> QED
  BY <1>0, <1>4, <1>5, <1>7, <1>8, <1>14, PullKeeps

LEMMA DetachKeeps ==
  ASSUME IInv, NEW p \in Proc, NEW ignored \in BOOLEAN, Detach(p, ignored)
  PROVE  IInv'
<1> DEFINE q == cmd[p].pull
<1> DEFINE c == [cmd[p] EXCEPT !.pc = "verify", !.detached = pull[q].script]
<1> DEFINE r == [pull[q] EXCEPT !.script = @ /\ ignored]
<1>0. cmd[p] \in CommandOf /\ cmd[p].pc = "detach" /\ CommandOK(cmd[p]) /\ Fit(cmd[p], zone, pull) /\ q \in PullZone
  BY Types DEF Detach, CommandOK, Migrating
<1>1. pull[q].is = "there" /\ pull[q] \in PullOf
  BY <1>0, Types DEF Detach, PullThere
<1>2. pull[q].script \in BOOLEAN
  BY <1>1 DEF PullOf
<1>3. /\ c \in CommandOf /\ c.pc = "verify" /\ c.pull = q /\ c.zone = cmd[p].zone
      /\ c.name = cmd[p].name /\ c.read = cmd[p].read
  BY <1>0, <1>2 DEF CommandOf, Places
<1>4. /\ r \in PullOf /\ r.is = "there" /\ r.rules = pull[q].rules /\ r.name = pull[q].name
      /\ (r.script => pull[q].script)
  BY <1>1, <1>2 DEF PullOf
<1>5. pull' = [pull EXCEPT ![q] = r] /\ Goes(p, c) /\ UNCHANGED <<zone, router, link, faults>>
  BY DEF Detach
<1> HIDE DEF c, r
<1>6. Moves(p, c)
  BY <1>0, <1>5, Types, GoesMoves
<1>7. Forward(pull[q], r) /\ Scripted(r)
  BY <1>0, <1>1, <1>4 DEF Forward, Scripted, IInv
<1>8. pull'[q] = r
  BY <1>0, <1>5, Types
<1>9. CommandOK(c)
  BY <1>0, <1>3 DEF CommandOK, Making, Migrating, Deleting, Ruling
<1>10. Fit(c, zone', pull') /\ Lone(c, zone', pull')
  BY <1>0, <1>3, <1>4, <1>8 DEF Fit, Lone, Making, Deleting, Ruling
<1>11. Learns(c)
  BY <1>9, <1>10 DEF Learns
<1> QED
  BY <1>0, <1>4, <1>5, <1>6, <1>7, <1>11, PullKeeps

LEMMA DeletePullKeeps ==
  ASSUME IInv, NEW p \in Proc, DeletePull(p)
  PROVE  IInv'
<1> DEFINE q == cmd[p].pull
<1> DEFINE c == [cmd[p] EXCEPT !.pc = IF cmd[p].keep THEN "unmark" ELSE "delzone"]
<1> DEFINE r == [NoPull EXCEPT !.is = "gone"]
<1>0. cmd[p] \in CommandOf /\ cmd[p].pc = "delpull" /\ CommandOK(cmd[p]) /\ Fit(cmd[p], zone, pull) /\ q \in PullZone
  BY Types DEF DeletePull, CommandOK, Deleting
<1>1. /\ c \in CommandOf /\ c.pc \in {"unmark", "delzone"} /\ c.pull = q /\ c.zone = cmd[p].zone /\ c.name = cmd[p].name
  BY <1>0 DEF CommandOf, Places
<1>2. r \in PullOf /\ r.is = "gone" /\ r.script = FALSE
  BY DEF PullOf, NoPull, Known, Being
<1>3. pull' = [pull EXCEPT ![q] = r] /\ Goes(p, c) /\ UNCHANGED <<zone, router, link, faults>>
  BY DEF DeletePull
<1> HIDE DEF c, r
<1>4. Moves(p, c) /\ (orderly' => orderly)
  BY <1>0, <1>3, Types, GoesMoves
<1>5. Forward(pull[q], r) /\ Scripted(r)
  BY <1>2 DEF Forward, Scripted
<1>6. pull'[q] = r
  BY <1>0, <1>3, Types
<1>7. CommandOK(c)
  BY <1>0, <1>1 DEF CommandOK, Making, Migrating, Deleting, Ruling
<1>8. Fit(c, zone', pull')
  BY <1>0, <1>1, <1>2, <1>3, <1>6 DEF Fit, Making, Deleting, Ruling
<1>9. orderly' => Lone(c, zone', pull')
  BY <1>0, <1>1, <1>2, <1>3, <1>4, <1>6, Types DEF Lone, Making, Deleting, Ruling
<1>10. Learns(c)
  BY <1>7, <1>8, <1>9 DEF Learns
<1> QED
  BY <1>0, <1>2, <1>3, <1>4, <1>5, <1>10, PullKeeps

-----------------------------------------------------------------------------
(* Steps that change a zone. *)

LEMMA CreateZoneKeeps ==
  ASSUME IInv, NEW p \in Proc, NEW z \in Zone, CreateZone(p, z)
  PROVE  IInv'
<1> DEFINE c == [cmd[p] EXCEPT !.pc = "pull", !.zone = z]
<1> DEFINE r == [NoZone EXCEPT !.is = "there", !.name = cmd[p].name]
<1>0. cmd[p] \in CommandOf /\ cmd[p].pc = "zone" /\ CommandOK(cmd[p]) /\ Fit(cmd[p], zone, pull) /\ cmd[p].name \in Names
  BY Types DEF CreateZone, CommandOK
<1>1. c \in CommandOf /\ c.pc = "pull" /\ c.pull = cmd[p].pull /\ c.zone = z /\ c.name = cmd[p].name
  BY <1>0 DEF CommandOf, Places
<1>2. r \in ZoneOf /\ r.is = "there" /\ r.state = NoState /\ NoState.kind = "none"
  BY <1>0, StateFacts DEF ZoneOf, NoZone, Known, Being, NoState
<1>3. zone[z].is = "new" /\ zone' = [zone EXCEPT ![z] = r] /\ Goes(p, c) /\ UNCHANGED <<pull, router, link, faults>>
  BY DEF CreateZone
<1> HIDE DEF c, r
<1>4. z # Legacy
  BY <1>3 DEF IInv, Vouched
<1>5. Vouched(z, r, pull)
  BY <1>2, <1>4 DEF Vouched
<1>6. Moves(p, c)
  BY <1>0, <1>3, Types, GoesMoves
<1>7. zone'[z] = r
  BY <1>3, Types
<1>8. CommandOK(c)
  BY <1>0, <1>1 DEF CommandOK, Making, Migrating, Deleting, Ruling
<1>9. Fit(c, zone', pull') /\ Lone(c, zone', pull')
  BY <1>0, <1>1, <1>2, <1>3, <1>7 DEF Fit, Lone, Making, Deleting, Ruling
<1>10. Learns(c)
  BY <1>8, <1>9 DEF Learns
<1> QED
  BY <1>2, <1>3, <1>5, <1>6, <1>10, ZoneKeeps

(* A command ends with a new state in its zone. *)
LEMMA WritesKeep ==
  ASSUME IInv, NEW p \in Proc, cmd[p].pc # "idle", cmd[p].zone \in Zone, NEW c, Goes(p, c), Learns(c),
         NEW s \in State, zone' = [zone EXCEPT ![cmd[p].zone].state = s],
         UNCHANGED <<pull, router>>, faults' \in Nat, link' \in [Proc -> Zone \cup {None}],
         s.kind = "none" \/ (s.kind = "current" /\ Vouched(cmd[p].zone, [zone[cmd[p].zone] EXCEPT !.state = s], pull))
  PROVE  IInv'
<1> DEFINE z == cmd[p].zone
<1> DEFINE r == [zone[z] EXCEPT !.state = s]
<1>1. zone[z] \in ZoneOf /\ Vouched(z, zone[z], pull)
  BY Types DEF IInv
<1>2. r \in ZoneOf /\ r.state = s /\ r.name = zone[z].name /\ r.is = zone[z].is
  BY <1>1 DEF ZoneOf
<1>3. zone' = [zone EXCEPT ![z] = r]
  OBVIOUS
<1>4. Vouched(z, r, pull)
  BY <1>1, <1>2 DEF Vouched
<1>5. Moves(p, c)
  BY GoesMoves
<1> HIDE DEF r
<1> QED
  BY <1>2, <1>3, <1>4, <1>5, ZoneKeeps

LEMMA CurrentVouched ==
  ASSUME IInv, NEW p \in Proc, cmd[p].pc \in {"mark", "commit"}, NEW d \in {0, 1}
  PROVE  /\ Current(cmd[p].name, cmd[p].pull, d) \in State
         /\ Current(cmd[p].name, cmd[p].pull, d).kind = "current"
         /\ Vouched(cmd[p].zone, [zone[cmd[p].zone] EXCEPT !.state = Current(cmd[p].name, cmd[p].pull, d)], pull)
<1> DEFINE z == cmd[p].zone
<1> DEFINE s == Current(cmd[p].name, cmd[p].pull, d)
<1> DEFINE r == [zone[z] EXCEPT !.state = s]
<1>1. CommandOK(cmd[p]) /\ Fit(cmd[p], zone, pull)
  BY Types
<1>2. cmd[p].name \in Names \cup {LegacyName} /\ cmd[p].pull \in PullZone /\ z \in Zone /\ cmd[p].pull # None
  BY <1>1 DEF CommandOK, Making, Migrating
<1>3. s \in State /\ s.kind = "current" /\ s.pull = cmd[p].pull
  BY <1>2, NewStates
<1>4. zone[z] \in ZoneOf /\ Vouched(z, zone[z], pull)
  BY <1>2, Types DEF IInv
<1> HIDE DEF s
<1>5. r.state = s /\ r.name = zone[z].name /\ r.is = zone[z].is
  BY <1>4 DEF ZoneOf
<1> HIDE DEF r
<1>6. pull[cmd[p].pull].is # "new" /\ (pull[cmd[p].pull].is = "there" => Block \subseteq pull[cmd[p].pull].rules)
      /\ (Apart => ~pull[cmd[p].pull].script)
  BY <1>1, <1>2 DEF Fit
<1>7. Vouched(z, r, pull)
  BY <1>3, <1>4, <1>5, <1>6 DEF Vouched
<1> QED
  BY <1>3, <1>7 DEF s, r

LEMMA MarkKeeps ==
  ASSUME IInv, NEW p \in Proc, NEW linked \in BOOLEAN, Mark(p, linked)
  PROVE  IInv'
<1> DEFINE s == Current(cmd[p].name, cmd[p].pull, 0)
<1>1. cmd[p].pc = "mark" /\ cmd[p].zone \in Zone
  BY Types DEF Mark, CommandOK
<1>2. s \in State /\ s.kind = "current" /\ Vouched(cmd[p].zone, [zone[cmd[p].zone] EXCEPT !.state = s], pull)
  BY <1>1, CurrentVouched
<1>3. /\ zone' = [zone EXCEPT ![cmd[p].zone].state = s] /\ Goes(p, Waiting)
      /\ UNCHANGED <<pull, router>> /\ faults' \in Nat
  BY Types DEF Mark
<1>4. link' \in [Proc -> Zone \cup {None}]
  BY <1>1, Types DEF Mark
<1> HIDE DEF s
<1> QED
  BY <1>1, <1>2, <1>3, <1>4, WaitingLearns, WritesKeep

LEMMA CommitKeeps ==
  ASSUME IInv, NEW p \in Proc, Commit(p)
  PROVE  IInv'
<1> DEFINE z == cmd[p].zone
<1> DEFINE s == Current(cmd[p].name, cmd[p].pull, cmd[p].read.deploys)
<1> DEFINE c == IF cmd[p].detached THEN [cmd[p] EXCEPT !.pc = "script"] ELSE Waiting
<1>1. cmd[p].pc = "commit" /\ z \in Zone /\ cmd[p] \in CommandOf /\ CommandOK(cmd[p]) /\ Fit(cmd[p], zone, pull)
  BY Types DEF Commit, CommandOK
<1>2. cmd[p].read.deploys \in {0, 1}
  BY <1>1 DEF CommandOK, Migrating, States
<1>3. s \in State /\ s.kind = "current" /\ Vouched(z, [zone[z] EXCEPT !.state = s], pull)
  BY <1>1, <1>2, CurrentVouched
<1>4. zone' = [zone EXCEPT ![z].state = s] /\ Goes(p, c) /\ UNCHANGED <<pull, router, link, faults>>
  BY DEF Commit
<1> HIDE DEF s
<1>5. zone[z] \in ZoneOf /\ zone'[z].state = s
  <2>1. zone[z] \in ZoneOf
    BY <1>1, Types
  <2>2. zone'[z] = [zone[z] EXCEPT !.state = s]
    BY <1>1, <1>4, Types
  <2> QED
    BY <2>1, <2>2 DEF ZoneOf
<1>6. Learns(c)
  <2>1. CASE ~cmd[p].detached
    BY <2>1, WaitingLearns
  <2>2. CASE cmd[p].detached
    <3> DEFINE d == [cmd[p] EXCEPT !.pc = "script"]
    <3>1. d \in CommandOf /\ d.pc = "script" /\ d.zone = z /\ d.pull = cmd[p].pull
      BY <1>1 DEF CommandOf, Places
    <3>2. c = d
      BY <2>2
    <3> HIDE DEF c, d
    <3>3. CommandOK(d)
      BY <1>1, <3>1 DEF CommandOK, Making, Migrating, Deleting, Ruling
    <3>4. Fit(d, zone', pull') /\ Lone(d, zone', pull')
      BY <1>1, <1>3, <1>4, <1>5, <3>1 DEF Fit, Lone, Making, Deleting, Ruling
    <3> QED
      BY <3>2, <3>3, <3>4 DEF Learns
  <2> QED
    BY <2>1, <2>2
<1> HIDE DEF c
<1>7. faults' \in Nat /\ link' \in [Proc -> Zone \cup {None}]
  BY <1>4, Types
<1> QED
  BY <1>1, <1>3, <1>4, <1>6, <1>7, WritesKeep

LEMMA UnlinkedOK ==
  ASSUME IInv, NEW p \in Proc, link' = Unlinked(p)
  PROVE  link' \in [Proc -> Zone \cup {None}]
BY Types DEF Unlinked

LEMMA UnmarkKeeps ==
  ASSUME IInv, NEW p \in Proc, NEW removed \in BOOLEAN, Unmark(p, removed)
  PROVE  IInv'
<1> DEFINE z == cmd[p].zone
<1>1. cmd[p].pc = "unmark" /\ z \in Zone
  BY Types DEF Unmark, CommandOK
<1>2. faults' \in Nat /\ link' \in [Proc -> Zone \cup {None}] /\ Goes(p, Waiting) /\ UNCHANGED <<pull, router>>
  BY Types, UnlinkedOK DEF Unmark
<1>3. CASE removed
  <2>1. zone' = [zone EXCEPT ![z].state = NoState]
    BY <1>3 DEF Unmark
  <2>2. NoState \in State /\ NoState.kind = "none"
    BY StateFacts DEF NoState
  <2> QED
    BY <1>1, <1>2, <2>1, <2>2, WaitingLearns, WritesKeep
<1>4. CASE ~removed
  <2>1. zone' = zone
    <3>1. zone' = [zone EXCEPT ![z].state = @]
      BY <1>4 DEF Unmark
    <3>2. zone[z] \in ZoneOf /\ zone \in [Zone -> ZoneOf]
      BY <1>1, Types
    <3>3. [zone[z] EXCEPT !.state = @] = zone[z]
      BY <3>2 DEF ZoneOf
    <3> QED
      BY <3>1, <3>2, <3>3
  <2>2. Moves(p, Waiting)
    BY <1>1, <1>2, GoesMoves
  <2> QED
    BY <1>2, <2>1, <2>2, WaitingLearns, QuietKeeps
<1> QED
  BY <1>3, <1>4

LEMMA DeleteZoneKeeps ==
  ASSUME IInv, NEW p \in Proc, DeleteZone(p)
  PROVE  IInv'
<1> DEFINE z == cmd[p].zone
<1> DEFINE r == [NoZone EXCEPT !.is = "gone"]
<1>1. cmd[p].pc = "delzone" /\ z \in Zone
  BY Types DEF DeleteZone, CommandOK
<1>2. /\ faults' \in Nat /\ link' \in [Proc -> Zone \cup {None}] /\ Goes(p, Waiting) /\ UNCHANGED <<pull, router>>
      /\ zone' = [zone EXCEPT ![z] = r]
  BY Types, UnlinkedOK DEF DeleteZone
<1>3. r \in ZoneOf /\ r.is = "gone" /\ r.name = None /\ r.state = NoState /\ NoState.kind = "none"
  BY StateFacts DEF ZoneOf, NoZone, Known, Being, NoState
<1>4. Moves(p, Waiting)
  BY <1>1, <1>2, GoesMoves
<1> HIDE DEF r
<1>5. Vouched(z, r, pull)
  BY <1>1, <1>3 DEF Vouched, IInv
<1> QED
  BY <1>1, <1>2, <1>3, <1>4, <1>5, WaitingLearns, ZoneKeeps

LEMMA OldDeployKeeps ==
  ASSUME IInv, OldDeploy
  PROVE  IInv'
<1> DEFINE r == [zone[Legacy] EXCEPT !.state = LegacyState(1)]
<1>1. zone[Legacy] \in ZoneOf /\ Vouched(Legacy, zone[Legacy], pull) /\ zone[Legacy].state.kind = "legacy"
  BY DEF IInv, Typed, OldDeploy
<1>2. LegacyState(1) \in State /\ LegacyState(1).kind = "legacy" /\ LegacyState(1).pull = LegacyPull
  BY LegacyStates
<1>3. r \in ZoneOf /\ r.state = LegacyState(1) /\ r.name = zone[Legacy].name /\ r.is = zone[Legacy].is
  BY <1>1, <1>2 DEF ZoneOf
<1>4. pull[LegacyPull].is # "new"
  BY <1>1 DEF Vouched
<1>5. zone' = [zone EXCEPT ![Legacy] = r] /\ UNCHANGED <<pull, router, link, cmd, orderly, commands, faults>>
  BY DEF OldDeploy
<1> HIDE DEF r
<1>6. zone \in [Zone -> ZoneOf] /\ \A z \in Zone : zone'[z] = IF z = Legacy THEN r ELSE zone[z]
  BY <1>5 DEF IInv, Typed
<1>7. Typed'
  <2>1. (router' \in BOOLEAN) /\ (orderly' \in BOOLEAN)
    BY <1>5, Zenon DEF IInv, Typed
  <2> QED
    BY <1>3, <1>5, <2>1 DEF IInv, Typed
<1>8. ASSUME NEW z \in Zone PROVE Vouched(z, zone'[z], pull')
  <2>1. Vouched(z, zone[z], pull)
    BY DEF IInv
  <2>2. Vouched(Legacy, r, pull)
    BY <1>1, <1>2, <1>3, <1>4 DEF Vouched
  <2> QED
    BY <1>5, <1>6, <2>1, <2>2
<1>9. ASSUME NEW p \in Proc PROVE CommandOK(cmd[p]) /\ Fit(cmd[p], zone', pull)
  <2>1. CommandOK(cmd[p]) /\ Fit(cmd[p], zone, pull)
    BY Types
  <2>2. AtomicWrites => cmd[p].pc # "commit"
    BY DEF OldDeploy
  <2>3. cmd[p].zone \in Zone => (zone'[cmd[p].zone].state.kind = "legacy" => zone[cmd[p].zone].state.kind = "legacy")
    BY <1>1, <1>6
  <2>4. Making(cmd[p]) \/ Deleting(cmd[p]) \/ cmd[p].pc = "script" => cmd[p].zone \in Zone
    BY <2>1 DEF CommandOK, Making, Deleting, Ruling
  <2> QED
    BY <2>1, <2>2, <2>3, <2>4 DEF Fit
<1>10. ASSUME NEW p \in Proc, Lone(cmd[p], zone, pull) PROVE Lone(cmd[p], zone', pull)
  <2>1. CommandOK(cmd[p])
    BY Types
  <2>2. cmd[p].zone = Legacy => ~Deleting(cmd[p])
    BY <1>1, <1>10 DEF Lone
  <2>3. Making(cmd[p]) \/ Deleting(cmd[p]) \/ cmd[p].pc = "commit" => cmd[p].zone \in Zone
    BY <2>1 DEF CommandOK, Making, Deleting, Ruling
  <2> QED
    BY <1>2, <1>3, <1>6, <1>10, <2>2, <2>3 DEF Lone
<1>11. orderly' => Alone' /\ \A p \in Proc : Lone(cmd'[p], zone', pull')
  <2>1. orderly => Alone /\ \A p \in Proc : Lone(cmd[p], zone', pull)
    BY <1>10 DEF IInv
  <2>2. Alone' = Alone
    BY <1>5 DEF Alone
  <2>3. orderly' = orderly /\ cmd' = cmd /\ pull' = pull
    BY <1>5
  <2> QED
    BY <2>1, <2>2, <2>3, Zenon
<1>12. Apart => router'
  <2>1. Apart => router
    BY <1>1 DEF IInv
  <2> QED
    BY <1>5, <2>1, Zenon
<1>13. \A p \in Proc : CommandOK(cmd'[p]) /\ Fit(cmd'[p], zone', pull')
  BY <1>5, <1>9
<1>14. \A q \in PullZone : Scripted(pull'[q])
  BY <1>5 DEF IInv
<1> QED
  BY <1>7, <1>8, <1>11, <1>12, <1>13, <1>14 DEF IInv

-----------------------------------------------------------------------------
(* The theorems. *)

LEMMA InitIInv ==
  ProvisionInit => IInv
<1> SUFFICES ASSUME ProvisionInit PROVE IInv
  OBVIOUS
<1>1. PICK attached \in BOOLEAN : pull = [q \in PullZone |->
       IF q = OldPull THEN [NoPull EXCEPT !.is = "there", !.origin = Foreign, !.script = attached]
       ELSE IF q = LegacyPull
         THEN [NoPull EXCEPT !.is = "there", !.origin = Legacy, !.name = LegacyName, !.script = TRUE]
       ELSE NoPull]
  BY DEF ProvisionInit
<1>2. ASSUME NEW q \in PullZone PROVE pull[q] \in PullOf /\ Scripted(pull[q]) /\ pull[LegacyPull].is = "there"
  BY <1>1 DEF NoPull, PullOf, Known, Being, Scripted, Apart
<1>3. pull \in [PullZone -> PullOf]
  BY <1>1, <1>2
<1>4. ASSUME NEW z \in Zone PROVE zone[z] \in ZoneOf
  BY StateFacts, LegacyStates DEF ProvisionInit, NoZone, ZoneOf, Known, Being
<1>5. zone \in [Zone -> ZoneOf]
  BY <1>4 DEF ProvisionInit
<1>6. ASSUME NEW z \in Zone PROVE Vouched(z, zone[z], pull)
  <2>1. CASE z = Legacy
    <3>1. zone[z] = [is |-> "there", name |-> LegacyName, state |-> LegacyState(0)]
      BY <2>1 DEF ProvisionInit
    <3> QED
      BY <1>2, <2>1, <3>1, LegacyStates DEF Vouched, Apart
  <2>2. CASE z # Legacy
    <3>1. zone[z].state = NoState /\ NoState.kind = "none"
      BY <2>2 DEF ProvisionInit, NoZone, NoState
    <3> QED
      BY <2>2, <3>1 DEF Vouched
  <2> QED
    BY <2>1, <2>2
<1>7. \A p \in Proc : cmd[p] = Waiting
  BY DEF ProvisionInit
<1>8. Typed
  <2>1. (router \in BOOLEAN) /\ (orderly \in BOOLEAN) /\ router
    BY Zenon DEF ProvisionInit
  <2>2. cmd \in [Proc -> CommandOf] /\ link \in [Proc -> Zone \cup {None}] /\ commands \in Nat /\ faults \in Nat
    BY WaitingFacts DEF ProvisionInit
  <2> QED
    BY <1>3, <1>5, <2>1, <2>2 DEF Typed
<1>9. router
  BY Zenon DEF ProvisionInit
<1>10. Alone /\ \A p \in Proc : CommandOK(cmd[p]) /\ Fit(cmd[p], zone, pull) /\ Lone(cmd[p], zone, pull)
  BY <1>7, WaitingOK DEF Alone
<1> QED
  BY <1>2, <1>6, <1>8, <1>9, <1>10 DEF IInv

LEMMA NextIInv ==
  ASSUME IInv, ProvisionNext
  PROVE  IInv'
<1>1. CASE OldDeploy
  BY <1>1, OldDeployKeeps
<1>2. ASSUME NEW p \in Proc, Starts(p) PROVE IInv'
  BY <1>2, CreateKeeps, ImportKeeps, MigrateKeeps, DeleteKeeps DEF Starts
<1>3. ASSUME NEW p \in Proc, Steps(p) PROVE IInv'
  <2>1. CASE ScanSites(p) \/ RefuseZone(p) \/ FindPull(p) \/ UpsertRule(p) \/ RulesDone(p)
    BY <2>1, ScanKeeps, RefuseKeeps, FindKeeps, UpsertKeeps, RulesDoneKeeps
  <2>2. CASE \E z \in Zone : ResumeZone(p, z) \/ CreateZone(p, z)
    BY <2>2, ResumeKeeps, CreateZoneKeeps
  <2>3. CASE \E q \in PullZone : CreatePull(p, q)
    BY <2>3, CreatePullKeeps
  <2>4. CASE \E linked \in BOOLEAN : Mark(p, linked)
    BY <2>4, MarkKeeps
  <2>5. CASE PlanImport(p) \/ Recheck(p) \/ AssertOwned(p) \/ VerifyDetached(p) \/ Guard(p) \/ Commit(p)
    BY <2>5, PlanKeeps, RecheckKeeps, AssertKeeps, VerifyKeeps, GuardKeeps, CommitKeeps
  <2>6. CASE \E ignored \in BOOLEAN : Detach(p, ignored)
    BY <2>6, DetachKeeps
  <2>7. CASE \E deleted \in BOOLEAN : DeleteRouter(p, deleted)
    BY <2>7, RouterKeeps
  <2>8. CASE DeletePull(p) \/ PullStays(p) \/ DeleteZone(p)
    BY <2>8, DeletePullKeeps, EndKeeps, DeleteZoneKeeps
  <2>9. CASE \E removed \in BOOLEAN : Unmark(p, removed)
    BY <2>9, UnmarkKeeps
  <2> QED
    BY <1>3, <2>1, <2>2, <2>3, <2>4, <2>5, <2>6, <2>7, <2>8, <2>9 DEF Steps
<1>4. ASSUME NEW p \in Proc, Dies(p) \/ TargetGone(p) PROVE IInv'
  BY <1>4, EndKeeps
<1> QED
  BY <1>1, <1>2, <1>3, <1>4 DEF ProvisionNext

LEMMA StutterIInv ==
  ASSUME IInv, UNCHANGED provisioned
  PROVE  IInv'
<1>1. zone' = zone /\ pull' = pull /\ router' = router /\ link' = link /\ cmd' = cmd
      /\ orderly' = orderly /\ commands' = commands /\ faults' = faults
  BY Zenon DEF provisioned
<1>2. Typed' = Typed /\ Alone' = Alone
  BY <1>1 DEF Typed, Alone
<1> QED
  BY <1>1, <1>2, Zenon DEF IInv

THEOREM ProvisionInvariant == ProvisionSpec => []IInv
<1>1. IInv /\ [ProvisionNext]_provisioned => IInv'
  BY NextIInv, StutterIInv
<1> QED
  BY InitIInv, <1>1, PTL DEF ProvisionSpec

(* Every reachable state of the provisioning commands is well formed: in particular a state file names a pull zone, and every command past its listing works on a zone (createSite, importSite, migrateSite, deleteSiteResources). *)
THEOREM ProvisionTypeCorrect == ProvisionSpec => []ProvisionTypeOK
<1>1. IInv => ProvisionTypeOK
  <2> SUFFICES ASSUME IInv PROVE ProvisionTypeOK
    OBVIOUS
  <2>1. /\ zone \in [Zone -> ZoneOf] /\ pull \in [PullZone -> PullOf]
        /\ link \in [Proc -> Zone \cup {None}] /\ commands \in Nat /\ faults \in Nat
    BY DEF IInv, Typed
  <2>2. (router \in BOOLEAN) /\ (orderly \in BOOLEAN)
    BY Zenon DEF IInv, Typed
  <2>3. ASSUME NEW p \in Proc
        PROVE  /\ cmd[p].pc \in Places
               /\ cmd[p].pc \notin {"idle", "scan", "zone"} => cmd[p].zone \in Zone
               /\ cmd[p].pc \in {"rules", "mark", "commit", "delpull"} => cmd[p].pull \in PullZone
    <3>1. cmd[p] \in CommandOf /\ CommandOK(cmd[p])
      BY Types
    <3> QED
      BY <3>1 DEF CommandOK, CommandOf, Migrating, Deleting
  <2> QED
    BY <2>1, <2>2, <2>3 DEF ProvisionTypeOK, ZoneOf, PullOf, Known, Being, Places
<1> QED
  BY <1>1, ProvisionInvariant, PTL

(* A zone that identifies as a site is never served without the rules that block its state file and its unpublished deploys, however commands overlap and fail (api.ts:643, api.ts:831). *)
THEOREM GuardedAlways == ProvisionSpec => []SitesGuarded
<1>1. IInv => SitesGuarded
  BY DEF IInv, Vouched, SitesGuarded, Serves, IsSite, PullThere, Own, Block
<1> QED
  BY <1>1, ProvisionInvariant, PTL

(* When no site is created under a router-era site's name, no site is served with a router script on its pull zone, even when the API ignores the detach (api.ts:349). *)
THEOREM DetachedAlways ==
  ASSUME LegacyName \notin Names
  PROVE  ProvisionSpec => []RouterDetached
<1>1. IInv => RouterDetached
  BY DEF IInv, Vouched, RouterDetached, Serves, IsSite, PullThere, Own, Apart
<1> QED
  BY <1>1, ProvisionInvariant, PTL

-----------------------------------------------------------------------------
(* The action properties. *)

(* The steps that write a zone. *)
LEMMA ZoneWrites ==
  ASSUME ProvisionNext, zone' # zone
  PROVE  \/ OldDeploy
         \/ \E p \in Proc :
              \/ \E z \in Zone : CreateZone(p, z)
              \/ \E linked \in BOOLEAN : Mark(p, linked)
              \/ Commit(p)
              \/ \E removed \in BOOLEAN : Unmark(p, removed)
              \/ DeleteZone(p)
<1>1. ASSUME NEW p \in Proc, Starts(p) PROVE zone' = zone
  BY <1>1 DEF Starts, Create, Import, Migrate, Delete, Begins
<1>2. ASSUME NEW p \in Proc, Dies(p) \/ TargetGone(p) PROVE zone' = zone
  BY <1>2 DEF Dies, TargetGone
<1>3. ASSUME NEW p \in Proc, ScanSites(p) \/ RefuseZone(p) \/ FindPull(p) \/ UpsertRule(p) \/ RulesDone(p) PROVE zone' = zone
  BY <1>3 DEF ScanSites, RefuseZone, FindPull, UpsertRule, RulesDone
<1>4. ASSUME NEW p \in Proc, PlanImport(p) \/ Recheck(p) \/ AssertOwned(p) \/ VerifyDetached(p) \/ Guard(p) \/ DeletePull(p) \/ PullStays(p)
      PROVE  zone' = zone
  BY <1>4 DEF PlanImport, Recheck, AssertOwned, VerifyDetached, Guard, DeletePull, PullStays
<1>5. ASSUME NEW p \in Proc,
             \/ \E z \in Zone : ResumeZone(p, z)
             \/ \E q \in PullZone : CreatePull(p, q)
             \/ \E ignored \in BOOLEAN : Detach(p, ignored)
             \/ \E deleted \in BOOLEAN : DeleteRouter(p, deleted)
      PROVE  zone' = zone
  BY <1>5 DEF ResumeZone, CreatePull, Detach, DeleteRouter
<1> QED
  BY <1>1, <1>2, <1>3, <1>4, <1>5, Zenon DEF ProvisionNext, Steps

(* What a step of one command makes of the zones. *)
LEMMA ZoneEffects ==
  ASSUME IInv, ProvisionNext, zone' # zone, NEW y \in Zone, zone'[y] # zone[y]
  PROVE  \/ OldDeploy /\ y = Legacy
         \/ \E p \in Proc :
              \/ CreateZone(p, y) /\ zone[y].is = "new"
              \/ /\ cmd[p].pc \in {"mark", "commit"} /\ cmd[p].zone = y /\ CommandOK(cmd[p])
                 /\ zone'[y] = [zone[y] EXCEPT !.state = Current(cmd[p].name, cmd[p].pull,
                                  IF cmd[p].pc = "mark" THEN 0 ELSE cmd[p].read.deploys)]
              \/ cmd[p].pc \in {"unmark", "delzone"} /\ cmd[p].zone = y
<1>1. zone \in [Zone -> ZoneOf]
  BY DEF IInv, Typed
<1>2. CASE OldDeploy
  BY <1>1, <1>2 DEF OldDeploy
<1>3. ASSUME NEW p \in Proc, NEW z \in Zone, CreateZone(p, z) PROVE z = y /\ zone[y].is = "new"
  BY <1>1, <1>3 DEF CreateZone
<1>4. ASSUME NEW p \in Proc, (\E linked \in BOOLEAN : Mark(p, linked)) \/ Commit(p)
      PROVE  /\ cmd[p].pc \in {"mark", "commit"} /\ cmd[p].zone = y /\ CommandOK(cmd[p])
             /\ zone'[y] = [zone[y] EXCEPT !.state = Current(cmd[p].name, cmd[p].pull,
                              IF cmd[p].pc = "mark" THEN 0 ELSE cmd[p].read.deploys)]
  BY <1>1, <1>4, Types DEF Mark, Commit
<1>5. ASSUME NEW p \in Proc, (\E removed \in BOOLEAN : Unmark(p, removed)) \/ DeleteZone(p)
      PROVE  cmd[p].pc \in {"unmark", "delzone"} /\ cmd[p].zone = y
  BY <1>1, <1>5 DEF Unmark, DeleteZone
<1> QED
  BY <1>2, <1>3, <1>4, <1>5, ZoneWrites

LEMMA LegacyStep ==
  ASSUME IInv, ProvisionNext, Apart, AtomicWrites, zone[Legacy].state.kind = "legacy", ZoneThere(Legacy)
  PROVE  /\ router
         /\ ZoneThere(Legacy)'
         /\ (zone[Legacy].state)'.kind # "none"
         /\ (zone[Legacy].state)'.name = zone[Legacy].state.name
         /\ (zone[Legacy].state)'.deploys >= zone[Legacy].state.deploys
<1>0. /\ zone[Legacy] \in ZoneOf /\ zone \in [Zone -> ZoneOf] /\ router
      /\ zone[Legacy].state.name = LegacyName /\ zone[Legacy].state.deploys \in {0, 1}
  BY StateFacts DEF IInv, Typed, ZoneOf
<1>1. CASE zone'[Legacy] = zone[Legacy]
  BY <1>0, <1>1 DEF ZoneThere
<1>2. CASE OldDeploy
  <2>1. zone'[Legacy] = [zone[Legacy] EXCEPT !.state = LegacyState(1)]
    BY <1>0, <1>2 DEF OldDeploy
  <2>2. zone'[Legacy].is = "there" /\ zone'[Legacy].state = LegacyState(1)
    BY <1>0, <2>1 DEF ZoneOf, ZoneThere
  <2>3. zone'[Legacy].state.kind = "legacy" /\ zone'[Legacy].state.name = LegacyName /\ zone'[Legacy].state.deploys = 1
    BY <2>2, LegacyStates
  <2> QED
    BY <1>0, <2>2, <2>3 DEF ZoneThere
<1>3. ASSUME NEW p \in Proc, cmd[p].zone = Legacy
      PROVE  /\ cmd[p].pc \notin {"mark", "unmark", "delzone"}
             /\ cmd[p].pc = "commit" => zone[Legacy].state = cmd[p].read
  BY <1>3, Types DEF Fit, Making, Deleting
<1>4. ASSUME NEW p \in Proc, cmd[p].pc = "commit", cmd[p].zone = Legacy, CommandOK(cmd[p]),
             zone'[Legacy] = [zone[Legacy] EXCEPT !.state = Current(cmd[p].name, cmd[p].pull, cmd[p].read.deploys)]
      PROVE  /\ ZoneThere(Legacy)'
             /\ (zone[Legacy].state)'.kind # "none"
             /\ (zone[Legacy].state)'.name = zone[Legacy].state.name
             /\ (zone[Legacy].state)'.deploys >= zone[Legacy].state.deploys
  <2>1. cmd[p].name = LegacyName /\ cmd[p].read.deploys = zone[Legacy].state.deploys
    BY <1>3, <1>4 DEF CommandOK, Migrating
  <2>2. zone'[Legacy].is = "there" /\ zone'[Legacy].state = Current(LegacyName, cmd[p].pull, zone[Legacy].state.deploys)
    BY <1>0, <1>4, <2>1 DEF ZoneOf, ZoneThere
  <2>3. zone'[Legacy].state.kind = "current" /\ zone'[Legacy].state.name = LegacyName
        /\ zone'[Legacy].state.deploys = zone[Legacy].state.deploys
    BY <2>2 DEF Current
  <2> QED
    BY <1>0, <2>2, <2>3 DEF ZoneThere
<1>5. CASE zone'[Legacy] # zone[Legacy] /\ ~OldDeploy
  <2>1. zone[Legacy].is # "new" /\ zone' # zone
    BY <1>5 DEF ZoneThere
  <2>2. PICK p \in Proc :
          \/ CreateZone(p, Legacy) /\ zone[Legacy].is = "new"
          \/ /\ cmd[p].pc \in {"mark", "commit"} /\ cmd[p].zone = Legacy /\ CommandOK(cmd[p])
             /\ zone'[Legacy] = [zone[Legacy] EXCEPT !.state = Current(cmd[p].name, cmd[p].pull,
                                   IF cmd[p].pc = "mark" THEN 0 ELSE cmd[p].read.deploys)]
          \/ cmd[p].pc \in {"unmark", "delzone"} /\ cmd[p].zone = Legacy
    BY <1>5, <2>1, ZoneEffects
  <2> QED
    BY <1>0, <1>3, <1>4, <2>1, <2>2
<1> QED
  BY <1>1, <1>2, <1>5

(* When no site is created under its name and nobody writes its state between the check and the upload, a router-era site keeps its zone, its name and its records through its migration, and its router until then (api.ts:991, api.ts:1072). *)
THEOREM LegacyAlwaysKept ==
  ASSUME LegacyName \notin Names, AtomicWrites
  PROVE  ProvisionSpec => LegacyKept
<1>0. Apart
  BY DEF Apart
<1>1. IInv /\ [ProvisionNext]_provisioned =>
        [zone[Legacy].state.kind = "legacy" /\ ZoneThere(Legacy) =>
           /\ router
           /\ ZoneThere(Legacy)'
           /\ zone[Legacy].state'.kind # "none"
           /\ zone[Legacy].state'.name = zone[Legacy].state.name
           /\ zone[Legacy].state'.deploys >= zone[Legacy].state.deploys]_provisioned
  BY <1>0, LegacyStep
<1> QED
  BY <1>1, ProvisionInvariant, PTL DEF ProvisionSpec, LegacyKept

LEMMA WayBackStep ==
  ASSUME IInv, ProvisionNext, orderly', NEW z \in Zone, NEW q \in PullZone,
         Serves(z), Own(z) = q, PullThere(q)'
  PROVE  IsSite(z)' /\ zone'[z].state.pull = q
<1>0. zone[z].is = "there" /\ zone[z].state.kind = "current" /\ zone[z].state.pull = q /\ pull[q].is = "there"
  BY DEF Serves, IsSite, ZoneThere, PullThere, Own
<1>1. CASE zone'[z] = zone[z]
  BY <1>0, <1>1 DEF IsSite, ZoneThere
<1>2. CASE zone'[z] # zone[z]
  <2>1. zone' # zone
    BY <1>2
  <2>2. ~OldDeploy \/ z # Legacy
    BY <1>0 DEF OldDeploy
  <2>3. PICK p \in Proc : cmd[p].pc \in {"mark", "commit", "unmark", "delzone"} /\ cmd[p].zone = z
    BY <1>0, <1>2, <2>1, <2>2, ZoneEffects
  <2>4. orderly
    <3>1. orderly' = orderly
      BY <2>1, ZoneWrites, Zenon DEF OldDeploy, CreateZone, Mark, Commit, Unmark, DeleteZone, Goes
    <3> QED
      BY <3>1, Zenon
  <2>5. Lone(cmd[p], zone, pull)
    BY <2>4 DEF IInv
  <2>6. FALSE
    BY <1>0, <2>3, <2>5 DEF Lone, Making, Deleting
  <2> QED
    BY <2>6
<1> QED
  BY <1>1, <1>2

(* A command that runs alone never loses the way back to a pull zone it leaves behind: the marker of a served site outlives its pull zone (api.ts:1142). *)
THEOREM WayBackAlways == ProvisionSpec => WayBack
<1>1. IInv /\ [ProvisionNext]_provisioned =>
        [orderly' => \A z \in Zone, q \in PullZone :
           Serves(z) /\ Own(z) = q /\ PullThere(q)' => IsSite(z)' /\ zone'[z].state.pull = q]_provisioned
  BY WayBackStep
<1> QED
  BY <1>1, ProvisionInvariant, PTL DEF ProvisionSpec, WayBack

-----------------------------------------------------------------------------
(* One of each: commands that run one after another. *)

OnePull == \A q, r \in PullZone : PullThere(q) /\ PullThere(r) /\ pull[q].origin = pull[r].origin => q = r

(* A pull zone has an origin that was created, and the name of it when a create made it. *)
PullsNamed ==
  \A q \in PullZone : PullThere(q) =>
    /\ pull[q].origin \in Zone /\ zone[pull[q].origin].is # "new"
    /\ zone[pull[q].origin].name \in Names => pull[q].name = zone[pull[q].origin].name

OneZone ==
  \A y, z \in Zone : zone[y].name \in Names => zone[y].is = "there" /\ (zone[y].name = zone[z].name => y = z)

(* A site is there, and has the name of the zone a create made for it. *)
SitesNamed ==
  \A z \in Zone : zone[z].state.kind = "current" =>
    /\ zone[z].is = "there"
    /\ zone[z].name \in Names => zone[z].state.name = zone[z].name
    /\ zone[z].state.name \in Names \/ z = Legacy

OneSite == \A y, z \in Zone : Listed(y) /\ Listed(z) /\ zone[y].state.name = zone[z].state.name => y = z

Sites == OnePull /\ PullsNamed /\ OneZone /\ SitesNamed /\ OneSite

(* What a command that runs alone knows of names and pull zones. *)
Provides(c) == Making(c) /\ c.pc # "plan"
Knowing(c) ==
  /\ c.pc = "zone" \/ Provides(c) => ~NameTaken(c.name)
  /\ Provides(c) /\ zone[c.zone].name \in Names => zone[c.zone].name = c.name
  /\ c.pc \in {"pull", "newpull"} => zone[c.zone].name \in Names
  /\ c.pc = "newpull" => \A q \in PullZone : PullThere(q) => pull[q].origin # c.zone
  /\ Migrating(c) => c.zone = Legacy

Single == orderly => Sites /\ \A p \in Proc : Knowing(cmd[p])

LEMMA KnowsNothing ==
  ASSUME NEW c, c.pc \in {"idle", "scan", "plan", "script", "delpull", "unmark", "delzone"}
  PROVE  Knowing(c) /\ Knowing(c)'
BY DEF Knowing, Provides, Making, Migrating, Ruling

LEMMA WaitingKnows == Knowing(Waiting) /\ Knowing(Waiting)'
BY KnowsNothing DEF Waiting

(* A command that runs goes on with c. *)
LEMMA SingleBy ==
  ASSUME IInv, Single, NEW p \in Proc, cmd[p].pc # "idle", NEW c, Goes(p, c) \/ GoesBlind(p, c),
         orderly' /\ Sites /\ Knowing(cmd[p]) /\ Lone(cmd[p], zone, pull) => Sites' /\ Knowing(c)'
  PROVE  Single'
<1>1. SUFFICES ASSUME orderly' PROVE Sites' /\ \A q \in Proc : Knowing(cmd[q])'
  BY Zenon DEF Single
<1>2. orderly
  <2>1. orderly' = orderly \/ orderly' = FALSE
    BY Zenon DEF Goes, GoesBlind
  <2>2. QED
    BY <1>1, <2>1, Zenon
<1>3. cmd' = [cmd EXCEPT ![p] = c] /\ cmd \in [Proc -> CommandOf] /\ \A q \in Proc \ {p} : cmd[q].pc = "idle"
  BY <1>2 DEF Goes, GoesBlind, IInv, Typed, Alone
<1>4. Sites /\ Knowing(cmd[p])
  BY <1>2, Zenon DEF Single
<1>5. Sites' /\ Knowing(c)'
  BY <1>1, <1>2, <1>4, Types
<1>6. ASSUME NEW q \in Proc PROVE Knowing(cmd[q])'
  <2>1. CASE q = p
    <3>1. cmd'[q] = c
      BY <1>3, <2>1
    <3>2. QED
      BY <1>5, <3>1 DEF Knowing
  <2>2. CASE q # p
    <3>1. cmd'[q].pc = "idle"
      BY <1>3, <2>2
    <3>2. QED
      BY <3>1 DEF Knowing, Provides, Making, Migrating, Ruling
  <2>3. QED
    BY <2>1, <2>2
<1>7. QED
  BY <1>5, <1>6

LEMMA SitesStay ==
  ASSUME UNCHANGED <<zone, pull>>
  PROVE  (Sites => Sites') /\ \A c : Knowing(c) => Knowing(c)'
<1>1. Sites => Sites'
  BY DEF Sites, OnePull, PullsNamed, OneZone, SitesNamed, OneSite, Listed, IsSite, ZoneThere, PullThere
<1>2. ASSUME NEW c, Knowing(c) PROVE Knowing(c)'
  BY <1>2 DEF Knowing, NameTaken, Listed, IsSite, ZoneThere, PullThere
<1>3. QED
  BY <1>1, <1>2

(* One that leaves zones and pull zones alone. *)
LEMMA SingleQuietly ==
  ASSUME IInv, Single, NEW p \in Proc, cmd[p].pc # "idle", NEW c, Goes(p, c) \/ GoesBlind(p, c), UNCHANGED <<zone, pull>>,
         orderly' /\ Sites /\ Knowing(cmd[p]) /\ Lone(cmd[p], zone, pull) => Knowing(c)
  PROVE  Single'
BY SingleBy, SitesStay

(* One that ends, or goes on where nothing is known. *)
LEMMA SingleEnds ==
  ASSUME IInv, Single, NEW p \in Proc, cmd[p].pc # "idle", NEW c, Goes(p, c) \/ GoesBlind(p, c), UNCHANGED <<zone, pull>>,
         c.pc \in {"idle", "scan", "plan", "script", "delpull", "unmark", "delzone"}
  PROVE  Single'
BY SingleQuietly, KnowsNothing

LEMMA SingleBegins ==
  ASSUME IInv, Single, NEW p \in Proc, NEW c, Begins(p, c), Knowing(c)
  PROVE  Single'
<1>1. orderly' => orderly
  <2>1. orderly' = (orderly /\ Running = {})
    BY Zenon DEF Begins
  <2>2. QED
    BY <2>1, Zenon
<1>2. SUFFICES ASSUME orderly' PROVE Sites' /\ \A q \in Proc : Knowing(cmd[q])'
  BY Zenon DEF Single
<1>3. Sites /\ \A q \in Proc : Knowing(cmd[q])
  BY <1>1, <1>2, Zenon DEF Single
<1>4. cmd' = [cmd EXCEPT ![p] = c] /\ cmd \in [Proc -> CommandOf] /\ UNCHANGED <<zone, pull>>
  BY DEF Begins, IInv, Typed
<1>5. Sites' /\ \A d : Knowing(d) => Knowing(d)'
  BY <1>3, <1>4, SitesStay
<1>6. ASSUME NEW q \in Proc PROVE Knowing(cmd[q])'
  <2>1. PICK d : d = cmd'[q] /\ Knowing(d)
    BY <1>3, <1>4
  <2>2. Knowing(d)'
    BY <1>5, <2>1
  <2>3. QED
    BY <2>1, <2>2 DEF Knowing
<1>7. QED
  BY <1>5, <1>6

LEMMA SingleStarts ==
  ASSUME IInv, Single, NEW p \in Proc, Starts(p)
  PROVE  Single'
<1>1. ASSUME NEW n \in Names, Create(p, n) PROVE Single'
  <2>1. PICK c : c = [Waiting EXCEPT !.pc = "scan", !.name = n]
    OBVIOUS
  <2>2. c.pc = "scan"
    BY <2>1 DEF Waiting
  <2>3. Knowing(c)
    BY <2>2, KnowsNothing
  <2>4. Begins(p, c)
    BY <1>1, <2>1 DEF Create
  <2>5. QED
    BY <2>3, <2>4, SingleBegins
<1>2. ASSUME NEW z \in Zone, NEW n \in Names, Import(p, z, n) PROVE Single'
  <2>1. PICK c : c = [Waiting EXCEPT !.pc = "plan", !.name = n, !.zone = z]
    OBVIOUS
  <2>2. c.pc = "plan"
    BY <2>1 DEF Waiting
  <2>3. Knowing(c)
    BY <2>2, KnowsNothing
  <2>4. Begins(p, c)
    BY <1>2, <2>1 DEF Import
  <2>5. QED
    BY <2>3, <2>4, SingleBegins
<1>3. ASSUME NEW z \in Zone, Migrate(p, z) PROVE Single'
  <2>1. PICK c : c = [Waiting EXCEPT !.pc = "own", !.zone = z, !.name = zone[z].state.name,
                       !.pull = zone[z].state.pull, !.read = zone[z].state]
    OBVIOUS
  <2>2. c.pc = "own" /\ c.zone = z
    BY <2>1 DEF Waiting
  <2>3. z = Legacy
    BY <1>3 DEF Migrate, IInv, Vouched
  <2>4. Knowing(c)
    BY <2>2, <2>3 DEF Knowing, Provides, Making, Ruling
  <2>5. QED
    BY <1>3, <2>1, <2>4, SingleBegins DEF Migrate
<1>4. ASSUME NEW z \in Zone, NEW keep \in BOOLEAN, Delete(p, z, keep) PROVE Single'
  <2>1. PICK c : c = [Waiting EXCEPT !.pc = "delpull", !.zone = z, !.name = zone[z].state.name,
                       !.pull = zone[z].state.pull, !.keep = keep]
    OBVIOUS
  <2>2. c.pc = "delpull"
    BY <2>1 DEF Waiting
  <2>3. Knowing(c)
    BY <2>2, KnowsNothing
  <2>4. Begins(p, c)
    BY <1>4, <2>1 DEF Delete
  <2>5. QED
    BY <2>3, <2>4, SingleBegins
<1>5. QED
  BY <1>1, <1>2, <1>3, <1>4 DEF Starts

(* Steps that only read. *)
LEMMA SingleCreates ==
  ASSUME IInv, Single, NEW p \in Proc, ScanSites(p) \/ RefuseZone(p) \/ (\E z \in Zone : ResumeZone(p, z)) \/ FindPull(p)
  PROVE  Single'
<1>1. cmd[p] \in CommandOf /\ CommandOK(cmd[p])
  BY Types
<1>2. CASE RefuseZone(p)
  BY <1>2, SingleQuietly, WaitingKnows DEF RefuseZone
<1>3. CASE ScanSites(p)
  <2>1. PICK c : c = [cmd[p] EXCEPT !.pc = "zone"]
    OBVIOUS
  <2>2. c.pc = "zone" /\ c.name = cmd[p].name
    BY <1>1, <2>1 DEF CommandOf
  <2>3. ~NameTaken(cmd[p].name) => Knowing(c)
    BY <2>2 DEF Knowing, Provides, Making, Migrating, Ruling
  <2>4. cmd[p].pc = "scan" /\ UNCHANGED <<zone, pull>>
    BY <1>3 DEF ScanSites
  <2>5. CASE Goes(p, c) /\ ~NameTaken(cmd[p].name)
    BY <2>3, <2>4, <2>5, SingleQuietly
  <2>6. CASE Goes(p, Waiting)
    BY <2>4, <2>6, SingleQuietly, WaitingKnows
  <2>7. CASE GoesBlind(p, c)
    BY <2>7, Zenon DEF GoesBlind, Single
  <2>8. QED
    BY <1>3, <2>1, <2>5, <2>6, <2>7 DEF ScanSites
<1>4. ASSUME NEW z \in Zone, ResumeZone(p, z) PROVE Single'
  <2>1. PICK c : c = [cmd[p] EXCEPT !.pc = "pull", !.zone = z]
    OBVIOUS
  <2>2. c.pc = "pull" /\ c.name = cmd[p].name /\ c.zone = z
    BY <1>1, <2>1 DEF CommandOf
  <2>3. cmd[p].pc = "zone" /\ cmd[p].name \in Names /\ zone[z].name = cmd[p].name /\ Goes(p, c) /\ UNCHANGED <<zone, pull>>
    BY <1>1, <1>4, <2>1 DEF ResumeZone, Resumable, Named, CommandOK
  <2>4. Knowing(cmd[p]) => Knowing(c)
    BY <2>2, <2>3 DEF Knowing, Provides, Making, Migrating, Ruling
  <2>5. QED
    BY <2>3, <2>4, SingleQuietly
<1>5. CASE FindPull(p)
  <2> DEFINE z == cmd[p].zone
  <2>1. cmd[p].pc = "pull" /\ z \in Zone /\ UNCHANGED <<zone, pull>>
    BY <1>1, <1>5 DEF FindPull, CommandOK
  <2>2. CASE \E q \in PullZone : Goes(p, Configuring(p, q, SiteRules, "mark"))
    <3>1. PICK q \in PullZone : Goes(p, Configuring(p, q, SiteRules, "mark"))
      BY <2>2
    <3>2. PICK c : c = Configuring(p, q, SiteRules, "mark")
      OBVIOUS
    <3>3. c.pc = "rules" /\ c.then = "mark" /\ c.name = cmd[p].name /\ c.zone = z
      BY <1>1, <3>2 DEF CommandOf, Configuring
    <3>4. Knowing(cmd[p]) => Knowing(c)
      BY <2>1, <3>3 DEF Knowing, Provides, Making, Migrating, Ruling
    <3>5. QED
      BY <2>1, <3>1, <3>2, <3>4, SingleQuietly
  <2>3. CASE {q \in Origins(z) : pull[q].name = cmd[p].name} = {} /\ Goes(p, [cmd[p] EXCEPT !.pc = "newpull"])
    <3>1. PICK c : c = [cmd[p] EXCEPT !.pc = "newpull"]
      OBVIOUS
    <3>2. c.pc = "newpull" /\ c.name = cmd[p].name /\ c.zone = z
      BY <1>1, <3>1 DEF CommandOf
    <3>3. ASSUME Sites, Knowing(cmd[p]) PROVE Knowing(c)
      <4>1. zone[z].name \in Names /\ zone[z].name = cmd[p].name /\ ~NameTaken(cmd[p].name)
        BY <2>1, <3>3 DEF Knowing, Provides, Making
      <4>2. \A q \in PullZone : PullThere(q) => pull[q].origin # z
        BY <2>3, <3>3, <4>1 DEF Sites, PullsNamed, Origins
      <4>3. QED
        BY <3>2, <4>1, <4>2 DEF Knowing, Provides, Making, Migrating, Ruling
    <3>4. QED
      BY <2>1, <2>3, <3>1, <3>3, SingleQuietly
  <2>4. QED
    BY <1>5, <2>2, <2>3 DEF FindPull, Origins
<1>6. QED
  BY <1>2, <1>3, <1>4, <1>5

LEMMA SinglePlans ==
  ASSUME IInv, Single, NEW p \in Proc, PlanImport(p) \/ Recheck(p)
  PROVE  Single'
<1>1. cmd[p] \in CommandOf /\ CommandOK(cmd[p])
  BY Types
<1>2. CASE PlanImport(p)
  <2>1. cmd[p].pc = "plan" /\ UNCHANGED <<zone, pull>>
    BY <1>2 DEF PlanImport
  <2>2. CASE \E q \in PullZone : /\ Goes(p, [cmd[p] EXCEPT !.pc = "recheck", !.pull = q])
                                 /\ ~NameTaken(cmd[p].name) /\ ~Renames(p)
    <3>1. PICK q \in PullZone : /\ Goes(p, [cmd[p] EXCEPT !.pc = "recheck", !.pull = q])
                                /\ ~NameTaken(cmd[p].name) /\ ~Renames(p)
      BY <2>2
    <3>2. PICK c : c = [cmd[p] EXCEPT !.pc = "recheck", !.pull = q]
      OBVIOUS
    <3>3. c.pc = "recheck" /\ c.name = cmd[p].name /\ c.zone = cmd[p].zone
      BY <1>1, <3>2 DEF CommandOf
    <3>4. Knowing(c)
      BY <3>1, <3>3 DEF Knowing, Provides, Making, Migrating, Ruling, Renames
    <3>5. QED
      BY <2>1, <3>1, <3>2, <3>4, SingleQuietly
  <2>3. CASE \E q \in PullZone : GoesBlind(p, [cmd[p] EXCEPT !.pc = "recheck", !.pull = q])
    BY <2>3, Zenon DEF GoesBlind, Single
  <2>4. CASE Goes(p, Waiting)
    BY <2>1, <2>4, SingleQuietly, WaitingKnows
  <2>5. QED
    BY <1>2, <2>2, <2>3, <2>4 DEF PlanImport
<1>3. CASE Recheck(p)
  <2>1. PICK c : c = Configuring(p, cmd[p].pull, BlockRules, "mark")
    OBVIOUS
  <2>2. c.pc = "rules" /\ c.then = "mark" /\ c.name = cmd[p].name /\ c.zone = cmd[p].zone
    BY <1>1, <2>1 DEF CommandOf, Configuring
  <2>3. cmd[p].pc = "recheck" /\ UNCHANGED <<zone, pull>> /\ (Goes(p, c) \/ Goes(p, Waiting))
    BY <1>3, <2>1 DEF Recheck
  <2>4. Knowing(cmd[p]) => Knowing(c)
    BY <2>2, <2>3 DEF Knowing, Provides, Making, Migrating, Ruling
  <2>5. QED
    BY <2>3, <2>4, SingleQuietly, WaitingKnows
<1>4. QED
  BY <1>2, <1>3

LEMMA SingleGoesOn ==
  ASSUME IInv, Single, NEW p \in Proc,
         RulesDone(p) \/ AssertOwned(p) \/ VerifyDetached(p) \/ Guard(p)
  PROVE  Single'
<1>1. cmd[p] \in CommandOf /\ CommandOK(cmd[p])
  BY Types
<1>2. CASE RulesDone(p)
  <2>1. PICK c : c = [cmd[p] EXCEPT !.pc = cmd[p].then]
    OBVIOUS
  <2>2. c.pc = cmd[p].then /\ c.name = cmd[p].name /\ c.zone = cmd[p].zone
    BY <1>1, <2>1 DEF CommandOf
  <2>3. cmd[p].pc = "rules" /\ UNCHANGED <<zone, pull>> /\ Goes(p, c) /\ cmd[p].then \in {"mark", "guard"}
    BY <1>1, <1>2, <2>1 DEF RulesDone, CommandOK
  <2>4. Knowing(cmd[p]) => Knowing(c)
    BY <2>2, <2>3 DEF Knowing, Provides, Making, Migrating, Ruling
  <2>5. QED
    BY <2>3, <2>4, SingleQuietly
<1>3. CASE AssertOwned(p) \/ VerifyDetached(p) \/ Guard(p)
  <2>1. PICK c : c \in {[cmd[p] EXCEPT !.pc = "detach"], [cmd[p] EXCEPT !.pc = "commit"],
                        Configuring(p, cmd[p].pull, SiteRules, "guard")}
                 /\ (Goes(p, c) \/ Goes(p, Waiting))
    BY <1>3 DEF AssertOwned, VerifyDetached, Guard
  <2>2. (c.pc \in {"detach", "commit"} \/ (c.pc = "rules" /\ c.then = "guard")) /\ c.zone = cmd[p].zone
    BY <1>1, <2>1 DEF CommandOf, Configuring
  <2>3. cmd[p].pc \in {"own", "verify", "guard"} /\ UNCHANGED <<zone, pull>>
    BY <1>3 DEF AssertOwned, VerifyDetached, Guard
  <2>4. Knowing(cmd[p]) => Knowing(c)
    BY <2>2, <2>3 DEF Knowing, Provides, Making, Migrating, Ruling
  <2>5. QED
    BY <2>1, <2>3, <2>4, SingleQuietly, WaitingKnows
<1>4. QED
  BY <1>2, <1>3

LEMMA SingleStops ==
  ASSUME IInv, Single, NEW p \in Proc,
         Dies(p) \/ TargetGone(p) \/ PullStays(p) \/ \E deleted \in BOOLEAN : DeleteRouter(p, deleted)
  PROVE  Single'
<1>1. cmd[p].pc # "idle" /\ Goes(p, Waiting) /\ UNCHANGED <<zone, pull>>
  BY DEF Dies, TargetGone, PullStays, DeleteRouter, Running
<1>2. QED
  BY <1>1, SingleQuietly, WaitingKnows

(* Steps that create, mark and delete. *)
LEMMA SingleCreateZone ==
  ASSUME IInv, Single, NEW p \in Proc, NEW z \in Zone, CreateZone(p, z)
  PROVE  Single'
<1>1. PICK c, n : c = [cmd[p] EXCEPT !.pc = "pull", !.zone = z] /\ n = cmd[p].name
  OBVIOUS
<1>2. /\ cmd[p].pc = "zone" /\ cmd[p].name \in Names /\ Goes(p, c) /\ pull' = pull /\ zone[z].is = "new"
      /\ c.pc = "pull" /\ c.name = n /\ c.zone = z
      /\ ~Finished(cmd[p].name) /\ Resumable(cmd[p].name) = {}
      /\ zone \in [Zone -> ZoneOf] /\ zone' = [zone EXCEPT ![z] = [NoZone EXCEPT !.is = "there", !.name = cmd[p].name]]
  BY <1>1, Types DEF CreateZone, CommandOK, CommandOf
<1>3. PICK r : r = [NoZone EXCEPT !.is = "there", !.name = cmd[p].name]
  OBVIOUS
<1>4. r.is = "there" /\ r.name = cmd[p].name /\ r.state.kind = "none"
  BY <1>3 DEF NoZone, NoState
<1>5. \A y \in Zone : zone'[y] = IF y = z THEN r ELSE zone[y]
  BY <1>2, <1>3
<1>6. ASSUME Sites, Knowing(cmd[p]) PROVE Sites' /\ Knowing(c)'
  <2>1. \A y \in Zone : zone[y].is = "there" => zone[y].name # cmd[p].name
    <3>1. ASSUME NEW y \in Zone, zone[y].is = "there", zone[y].name = cmd[p].name PROVE FALSE
      <4>1. IsSite(y)
        BY <1>2, <3>1 DEF Resumable, Named, ZoneThere
      <4>2. zone[y].state.name = cmd[p].name
        BY <1>2, <1>6, <3>1, <4>1 DEF Sites, SitesNamed, IsSite
      <4>3. QED
        BY <1>2, <3>1, <4>1, <4>2 DEF Finished, Named, ZoneThere
    <3>2. QED
      BY <3>1
  <2>2. ~NameTaken(cmd[p].name)
    BY <1>2, <1>6 DEF Knowing
  <2>3. \A y \in Zone : Listed(y)' => Listed(y) /\ zone'[y] = zone[y]
    BY <1>2, <1>4, <1>5 DEF Listed, IsSite, ZoneThere, PullThere
  <2>4. OneSite' /\ ~NameTaken(n)'
    BY <1>1, <1>6, <2>2, <2>3 DEF Sites, OneSite, NameTaken
  <2>5. OnePull' /\ SitesNamed'
    BY <1>2, <1>4, <1>5, <1>6 DEF Sites, OnePull, PullThere, SitesNamed
  <2>6. PullsNamed'
    <3>1. ASSUME NEW q \in PullZone, PullThere(q)
          PROVE  /\ pull[q].origin \in Zone /\ zone'[pull[q].origin].is # "new"
                 /\ zone'[pull[q].origin].name \in Names => pull[q].name = zone'[pull[q].origin].name
      <4>1. pull[q].origin \in Zone /\ zone[pull[q].origin].is # "new"
        BY <1>6, <3>1 DEF Sites, PullsNamed
      <4>2. zone'[pull[q].origin] = zone[pull[q].origin]
        BY <1>2, <1>5, <4>1
      <4>3. QED
        BY <1>6, <3>1, <4>1, <4>2 DEF Sites, PullsNamed
    <3>2. QED
      BY <1>2, <3>1 DEF PullsNamed, PullThere
  <2>7. OneZone'
    BY <1>4, <1>5, <1>6, <2>1 DEF Sites, OneZone
  <2>8. Knowing(c)'
    BY <1>1, <1>2, <1>4, <1>5, <2>4 DEF Knowing, Provides, Making, Migrating, Ruling
  <2>9. QED
    BY <2>4, <2>5, <2>6, <2>7, <2>8 DEF Sites
<1>7. QED
  BY <1>2, <1>6, SingleBy

LEMMA SingleCreatePull ==
  ASSUME IInv, Single, NEW p \in Proc, NEW q \in PullZone, CreatePull(p, q)
  PROVE  Single'
<1>1. PICK c, n, r : /\ n = cmd[p].name /\ c = Configuring(p, q, SiteRules, "mark")
                  /\ r = [NoPull EXCEPT !.is = "there", !.name = cmd[p].name, !.origin = cmd[p].zone]
  OBVIOUS
<1>2. /\ cmd[p].pc = "newpull" /\ cmd[p].zone \in Zone /\ zone[cmd[p].zone].is = "there" /\ Goes(p, c) /\ zone' = zone
      /\ c.pc = "rules" /\ c.then = "mark" /\ c.name = n /\ c.zone = cmd[p].zone
      /\ pull[q].is = "new" /\ pull \in [PullZone -> PullOf] /\ pull' = [pull EXCEPT ![q] = r]
  BY <1>1, Types DEF CreatePull, Configuring, CommandOK, CommandOf, ZoneThere
<1>3. r.is = "there" /\ r.name = cmd[p].name /\ r.origin = cmd[p].zone
  BY <1>1 DEF NoPull
<1>4. \A s \in PullZone : pull'[s] = IF s = q THEN r ELSE pull[s]
  BY <1>2
<1>5. ASSUME Sites, Knowing(cmd[p]), Lone(cmd[p], zone, pull) PROVE Sites' /\ Knowing(c)'
  <2>1. /\ ~NameTaken(cmd[p].name) /\ zone[cmd[p].zone].name = cmd[p].name
        /\ \A s \in PullZone : PullThere(s) => pull[s].origin # cmd[p].zone
        /\ zone[cmd[p].zone].state.kind # "current"
    BY <1>2, <1>5 DEF Knowing, Provides, Making, Lone
  <2>2. OnePull'
    BY <1>3, <1>4, <1>5, <2>1 DEF Sites, OnePull, PullThere
  <2>3. PullsNamed'
    BY <1>2, <1>3, <1>4, <1>5, <2>1 DEF Sites, PullsNamed, PullThere
  <2>4. OneZone' /\ SitesNamed'
    BY <1>2, <1>5 DEF Sites, OneZone, SitesNamed
  <2>5. \A y \in Zone : Listed(y)' => Listed(y)
    <3>1. ASSUME NEW y \in Zone, Listed(y)' PROVE Listed(y)
      <4>1. IsSite(y) /\ zone'[y].state.pull \in PullZone /\ PullThere(zone[y].state.pull)' /\ pull'[zone[y].state.pull].origin = y
        BY <1>2, <3>1, Types, StateFacts DEF Listed, IsSite, ZoneThere, ZoneOf
      <4>2. zone[y].state.pull # q
        BY <1>2, <1>3, <1>4, <2>1, <4>1 DEF IsSite
      <4>3. QED
        BY <1>2, <1>4, <4>1, <4>2 DEF Listed, PullThere
    <3>2. QED
      BY <3>1
  <2>6. OneSite' /\ ~NameTaken(n)'
    BY <1>1, <1>2, <1>5, <2>1, <2>5 DEF Sites, OneSite, NameTaken
  <2>7. Knowing(c)'
    BY <1>1, <1>2, <2>1, <2>6 DEF Knowing, Provides, Making, Migrating, Ruling
  <2>8. QED
    BY <2>2, <2>3, <2>4, <2>6, <2>7 DEF Sites
<1>6. QED
  BY <1>2, <1>5, SingleBy

(* A step that only deletes pull zones, or changes their rules and scripts. *)
LEMMA PullsFewer ==
  ASSUME IInv, Sites, zone' = zone,
         \A q \in PullZone : PullThere(q)' => PullThere(q) /\ pull'[q].origin = pull[q].origin /\ pull'[q].name = pull[q].name
  PROVE  Sites' /\ \A c : Knowing(c) => Knowing(c)'
<1>1. OnePull' /\ PullsNamed' /\ OneZone' /\ SitesNamed'
  BY DEF Sites, OnePull, PullsNamed, OneZone, SitesNamed
<1>2. \A y \in Zone : Listed(y)' => Listed(y)
  <2>1. ASSUME NEW y \in Zone, Listed(y)' PROVE Listed(y)
    <3>1. IsSite(y) /\ zone[y].state.pull \in PullZone /\ PullThere(zone[y].state.pull)' /\ pull'[zone[y].state.pull].origin = y
      BY <2>1, StateFacts DEF Listed, IsSite, ZoneThere, ZoneOf, IInv, Typed
    <3>2. QED
      BY <3>1 DEF Listed
  <2>2. QED
    BY <2>1
<1>3. OneSite'
  BY <1>2 DEF Sites, OneSite
<1>4. ASSUME NEW c, Knowing(c) PROVE Knowing(c)'
  <2>1. NameTaken(c.name)' => NameTaken(c.name)
    BY <1>2 DEF NameTaken
  <2>2. QED
    BY <1>4, <2>1 DEF Knowing
<1>5. QED
  BY <1>1, <1>3, <1>4 DEF Sites

LEMMA SinglePulls ==
  ASSUME IInv, Single, NEW p \in Proc, UpsertRule(p) \/ (\E ignored \in BOOLEAN : Detach(p, ignored)) \/ DeletePull(p)
  PROVE  Single'
<1>1. cmd[p] \in CommandOf /\ CommandOK(cmd[p]) /\ pull \in [PullZone -> PullOf]
  BY Types
<1>2. \A q \in PullZone : PullThere(q)' => PullThere(q) /\ pull'[q].origin = pull[q].origin /\ pull'[q].name = pull[q].name
  <2>1. CASE UpsertRule(p) \/ \E ignored \in BOOLEAN : Detach(p, ignored)
    <3>1. PICK s, rules, script : pull' \in {[pull EXCEPT ![s] = [pull[s] EXCEPT !.rules = rules]],
                                             [pull EXCEPT ![s] = [pull[s] EXCEPT !.script = script]]}
      BY <2>1 DEF UpsertRule, Detach
    <3>2. \A q \in PullZone : pull'[q] \in {pull[q], [pull[q] EXCEPT !.rules = rules], [pull[q] EXCEPT !.script = script]}
      BY <1>1, <3>1
    <3>3. \A q \in PullZone : pull'[q].is = pull[q].is /\ pull'[q].origin = pull[q].origin /\ pull'[q].name = pull[q].name
      BY <1>1, <3>2 DEF PullOf
    <3>4. QED
      BY <3>3 DEF PullThere
  <2>2. CASE DeletePull(p)
    BY <1>1, <2>2 DEF DeletePull, PullThere, NoPull
  <2>3. QED
    BY <2>1, <2>2
<1>3. PICK c : /\ Goes(p, c) /\ zone' = zone /\ cmd[p].pc # "idle"
               /\ \/ cmd[p].pc = "rules" /\ c = [cmd[p] EXCEPT !.todo = Tail(@)]
                  \/ cmd[p].pc = "detach" /\ c = [cmd[p] EXCEPT !.pc = "verify", !.detached = pull[cmd[p].pull].script]
                  \/ c = [cmd[p] EXCEPT !.pc = IF cmd[p].keep THEN "unmark" ELSE "delzone"]
  BY DEF UpsertRule, Detach, DeletePull
<1>4. Knowing(cmd[p]) => Knowing(c)
  <2>1. CASE cmd[p].pc = "rules" /\ c = [cmd[p] EXCEPT !.todo = Tail(@)]
    <3>1. c.pc = cmd[p].pc /\ c.name = cmd[p].name /\ c.zone = cmd[p].zone /\ c.then = cmd[p].then
      BY <1>1, <2>1 DEF CommandOf
    <3>2. QED
      BY <3>1 DEF Knowing, Provides, Making, Migrating, Ruling
  <2>2. CASE cmd[p].pc = "detach" /\ c = [cmd[p] EXCEPT !.pc = "verify", !.detached = pull[cmd[p].pull].script]
    <3>1. c.pc = "verify" /\ c.zone = cmd[p].zone
      BY <1>1, <2>2 DEF CommandOf
    <3>2. QED
      BY <2>2, <3>1 DEF Knowing, Provides, Making, Migrating, Ruling
  <2>3. CASE c = [cmd[p] EXCEPT !.pc = IF cmd[p].keep THEN "unmark" ELSE "delzone"]
    <3>1. c.pc \in {"unmark", "delzone"}
      BY <1>1, <2>3 DEF CommandOf
    <3>2. QED
      BY <3>1, KnowsNothing
  <2>4. QED
    BY <1>3, <2>1, <2>2, <2>3
<1>5. QED
  BY <1>2, <1>3, <1>4, PullsFewer, SingleBy

(* A step that takes a zone's state, or writes one whose name is free. *)
LEMMA ZoneWritten ==
  ASSUME IInv, Sites, pull' = pull, NEW z \in Zone, NEW r \in ZoneOf, zone' = [zone EXCEPT ![z] = r],
         r.is # "new", r.name \in Names => r.name = zone[z].name /\ r.is = "there",
         \/ r.state.kind = "none"
         \/ r = zone[z]
         \/ /\ r.is = "there" /\ r.state.kind = "current" /\ (r.name \in Names => r.state.name = r.name) /\ (r.state.name \in Names \/ z = Legacy)
            /\ \A y \in Zone : Listed(y) /\ zone[y].state.name = r.state.name => y = z
  PROVE  Sites'
<1>1. \A y \in Zone : zone'[y] = IF y = z THEN r ELSE zone[y]
  BY DEF IInv, Typed
<1>2. OnePull' /\ OneZone'
  BY <1>1 DEF Sites, OnePull, OneZone, PullThere
<1>3. PullsNamed'
  BY <1>1 DEF Sites, PullsNamed, PullThere
<1>4. SitesNamed'
  BY <1>1 DEF Sites, SitesNamed
<1>5. \A y \in Zone : y # z /\ Listed(y)' => Listed(y) /\ zone'[y] = zone[y]
  BY <1>1 DEF Listed, IsSite, ZoneThere, PullThere
<1>6. OneSite'
  <2>1. CASE r.state.kind = "none"
    <3>1. ~Listed(z)'
      BY <1>1, <2>1 DEF Listed, IsSite
    <3>2. QED
      BY <1>5, <3>1 DEF Sites, OneSite
  <2>2. CASE r = zone[z]
    <3>1. \A y \in Zone : Listed(y)' => Listed(y) /\ zone'[y] = zone[y]
      BY <1>1, <2>2 DEF Listed, IsSite, ZoneThere, PullThere
    <3>2. QED
      BY <3>1 DEF Sites, OneSite
  <2>3. CASE \A y \in Zone : Listed(y) /\ zone[y].state.name = r.state.name => y = z
    BY <1>1, <1>5, <2>3 DEF Sites, OneSite
  <2>4. QED
    BY <2>1, <2>2, <2>3
<1>7. QED
  BY <1>2, <1>3, <1>4, <1>6 DEF Sites

(* Under Apart only the router-era site has its name. *)
LEMMA SingleMarks ==
  ASSUME IInv, Single, Apart, NEW p \in Proc, (\E linked \in BOOLEAN : Mark(p, linked)) \/ Commit(p)
  PROVE  Single'
<1> DEFINE z == cmd[p].zone
           d == IF cmd[p].pc = "mark" THEN 0 ELSE cmd[p].read.deploys
           r == [zone[z] EXCEPT !.state = Current(cmd[p].name, cmd[p].pull, d)]
<1>1. /\ cmd[p] \in CommandOf /\ CommandOK(cmd[p]) /\ cmd[p].pc \in {"mark", "commit"} /\ zone \in [Zone -> ZoneOf]
      /\ z \in Zone /\ zone[z].is = "there" /\ pull' = pull /\ zone' = [zone EXCEPT ![z] = r]
  BY Types DEF Mark, Commit, CommandOK, ZoneThere
<1>2. cmd[p].name \in Names \cup {LegacyName} /\ cmd[p].pull \in PullZone /\ d \in {0, 1}
  BY <1>1 DEF CommandOK, Making, Migrating, States
<1>3. /\ r \in ZoneOf /\ r.is = "there" /\ r.name = zone[z].name
      /\ r.state.kind = "current" /\ r.state.name = cmd[p].name
  <2>1. PICK s : s = Current(cmd[p].name, cmd[p].pull, d)
    OBVIOUS
  <2>2. s \in State /\ s.kind = "current" /\ s.name = cmd[p].name
    BY <1>2, <2>1, NewStates
  <2>3. zone[z] \in ZoneOf /\ r = [zone[z] EXCEPT !.state = s]
    BY <1>1, <2>1
  <2>4. QED
    BY <1>1, <2>2, <2>3 DEF ZoneOf
<1>4. PICK c : c.pc \in {"idle", "script"} /\ Goes(p, c)
  <2>1. PICK c : c = [cmd[p] EXCEPT !.pc = "script"]
    OBVIOUS
  <2>2. c.pc = "script" /\ Waiting.pc = "idle"
    BY <1>1, <2>1 DEF CommandOf, Waiting
  <2>3. Goes(p, c) \/ Goes(p, Waiting)
    BY <2>1 DEF Mark, Commit
  <2>4. QED
    BY <2>2, <2>3
<1> HIDE DEF r
<1>5. ASSUME Sites, Knowing(cmd[p]) PROVE Sites'
  <2>1. \A y \in Zone : Listed(y) /\ zone[y].state.name = cmd[p].name => y = z
    <3>1. CASE cmd[p].pc = "mark"
      BY <1>5, <3>1 DEF Knowing, Provides, Making, NameTaken
    <3>2. CASE cmd[p].pc = "commit"
      <4>1. cmd[p].name = LegacyName /\ z = Legacy
        BY <1>1, <1>5, <3>2 DEF CommandOK, Knowing, Migrating
      <4>2. QED
        BY <1>5, <4>1 DEF Sites, SitesNamed, Apart, Listed, IsSite
    <3>3. QED
      BY <1>1, <3>1, <3>2
  <2>2. (r.name \in Names => r.state.name = r.name) /\ (r.state.name \in Names \/ z = Legacy)
    <3>1. CASE cmd[p].pc = "mark"
      BY <1>1, <1>3, <1>5, <3>1 DEF Knowing, Provides, Making, CommandOK
    <3>2. CASE cmd[p].pc = "commit"
      <4>1. z = Legacy
        BY <1>5, <3>2 DEF Knowing, Migrating
      <4>2. r.name \notin Names
        BY <1>3, <4>1 DEF IInv, Vouched
      <4>3. QED
        BY <4>1, <4>2
    <3>3. QED
      BY <1>1, <3>1, <3>2
  <2>3. QED
    BY <1>1, <1>3, <1>5, <2>1, <2>2, ZoneWritten
<1>6. Knowing(c)'
  BY <1>4, KnowsNothing
<1>7. QED
  BY <1>1, <1>4, <1>5, <1>6, SingleBy

LEMMA SingleUnmarks ==
  ASSUME IInv, Single, NEW p \in Proc, (\E removed \in BOOLEAN : Unmark(p, removed)) \/ DeleteZone(p)
  PROVE  Single'
<1> DEFINE z == cmd[p].zone
<1>1. /\ cmd[p].pc # "idle" /\ Goes(p, Waiting) /\ z \in Zone /\ zone \in [Zone -> ZoneOf] /\ zone[z] \in ZoneOf /\ pull' = pull
  BY Types DEF Unmark, DeleteZone, CommandOK
<1>2. PICK g : g = [NoZone EXCEPT !.is = "gone"]
  OBVIOUS
<1>3. g \in ZoneOf /\ g.is = "gone" /\ g.name = None /\ g.state.kind = "none"
  BY <1>2, StateFacts DEF NoZone, NoState, ZoneOf, Being, Known
<1>4. PICK u : u = [zone[z] EXCEPT !.state = NoState]
  OBVIOUS
<1>5. u \in ZoneOf /\ u.is = zone[z].is /\ u.name = zone[z].name /\ u.state.kind = "none"
  BY <1>1, <1>4, StateFacts DEF NoState, ZoneOf
<1>6. zone' \in {zone, [zone EXCEPT ![z] = g], [zone EXCEPT ![z] = u]}
  <2>1. CASE DeleteZone(p)
    BY <1>2, <2>1 DEF DeleteZone
  <2>2. ASSUME NEW removed \in BOOLEAN, Unmark(p, removed)
        PROVE  zone' \in {zone, [zone EXCEPT ![z] = u]}
    <3>1. CASE removed
      BY <1>4, <2>2, <3>1 DEF Unmark
    <3>2. CASE ~removed
      <4>1. [zone[z] EXCEPT !.state = zone[z].state] = zone[z]
        BY <1>1 DEF ZoneOf
      <4>2. zone' = [zone EXCEPT ![z] = [zone[z] EXCEPT !.state = zone[z].state]]
        BY <2>2, <3>2 DEF Unmark
      <4>3. QED
        BY <1>1, <4>1, <4>2
    <3>3. QED
      BY <3>1, <3>2
  <2>3. QED
    BY <2>1, <2>2
<1>7. cmd[p].pc \in {"unmark", "delzone"}
  BY DEF Unmark, DeleteZone
<1>8. ASSUME Sites, Lone(cmd[p], zone, pull) PROVE Sites'
  <2>1. CASE zone' = zone
    BY <1>1, <1>8, <2>1, SitesStay
  <2>2. CASE zone' = [zone EXCEPT ![z] = g]
    BY <1>1, <1>3, <1>8, <2>2, ZoneWritten
  <2>3. CASE zone' = [zone EXCEPT ![z] = u]
    <3>1. zone[z].is # "new"
      <4>1. zone[z].state.kind = "current"
        BY <1>1, <1>8, <1>7 DEF Lone, Deleting
      <4>2. QED
        BY <1>1, <1>8, <4>1 DEF Sites, SitesNamed
    <3>2. u.name \in Names => u.is = "there"
      BY <1>1, <1>5, <1>8 DEF Sites, OneZone
    <3>3. QED
      BY <1>1, <1>5, <1>8, <2>3, <3>1, <3>2, ZoneWritten
  <2>4. QED
    BY <1>6, <2>1, <2>2, <2>3
<1>9. QED
  BY <1>1, <1>8, WaitingKnows, SingleBy

LEMMA SingleOldDeploy ==
  ASSUME IInv, Single, OldDeploy
  PROVE  Single'
<1>1. /\ pull' = pull /\ cmd' = cmd /\ zone \in [Zone -> ZoneOf] /\ zone[Legacy].is = "there" /\ zone[Legacy].state.kind = "legacy"
      /\ zone' = [zone EXCEPT ![Legacy].state = LegacyState(1)]
  BY DEF OldDeploy, IInv, Typed, ZoneThere
<1>2. /\ \A z \in Zone : z # Legacy => zone'[z] = zone[z]
      /\ zone'[Legacy].is = "there" /\ zone'[Legacy].name = zone[Legacy].name
      /\ zone'[Legacy].state.kind = "legacy"
  BY <1>1, LegacyStates DEF ZoneOf
<1>3. orderly' => orderly
  BY Zenon DEF OldDeploy
<1>4. SUFFICES ASSUME orderly' PROVE Sites' /\ \A q \in Proc : Knowing(cmd[q])'
  BY Zenon DEF Single
<1>5. Sites /\ \A q \in Proc : Knowing(cmd[q])
  BY <1>3, <1>4, Zenon DEF Single
<1>6. \A z \in Zone : Listed(z)' => Listed(z) /\ zone'[z] = zone[z]
  BY <1>1, <1>2 DEF Listed, IsSite, ZoneThere, PullThere
<1>7. \A z \in Zone : zone'[z].name = zone[z].name /\ zone'[z].is = zone[z].is
                      /\ (zone'[z].state.kind = "current" => zone'[z] = zone[z])
  BY <1>1, <1>2
<1>8. Sites'
  <2>1. OnePull' /\ OneZone'
    BY <1>1, <1>5, <1>7 DEF Sites, OnePull, OneZone, PullThere
  <2>5. SitesNamed'
    BY <1>1, <1>5, <1>7 DEF Sites, SitesNamed
  <2>2. PullsNamed'
    BY <1>1, <1>5, <1>7 DEF Sites, PullsNamed, PullThere
  <2>3. OneSite'
    BY <1>5, <1>6 DEF Sites, OneSite
  <2>4. QED
    BY <2>1, <2>2, <2>3, <2>5 DEF Sites
<1>9. ASSUME NEW q \in Proc PROVE Knowing(cmd[q])'
  <2>1. PICK c : c = cmd[q]
    OBVIOUS
  <2>2. Knowing(c) /\ c = cmd'[q]
    BY <1>1, <1>5, <2>1
  <2>3. NameTaken(c.name)' => NameTaken(c.name)
    BY <1>6 DEF NameTaken
  <2>4. Provides(c) => c.zone \in Zone
    BY <2>1, Types DEF CommandOK, Provides, Making, Ruling
  <2>5. Knowing(c)'
    BY <1>1, <1>7, <2>2, <2>3, <2>4 DEF Knowing, Provides, Making, PullThere
  <2>6. QED
    BY <2>2, <2>5 DEF Knowing
<1>10. QED
  BY <1>8, <1>9

LEMMA NextSingle ==
  ASSUME IInv, Single, Apart, ProvisionNext
  PROVE  Single'
<1>1. ASSUME NEW p \in Proc, Steps(p) PROVE Single'
  <2>1. CASE ScanSites(p) \/ RefuseZone(p) \/ FindPull(p) \/ PlanImport(p) \/ Recheck(p)
    BY <2>1, SingleCreates, SinglePlans
  <2>2. CASE \E z \in Zone : ResumeZone(p, z) \/ CreateZone(p, z)
    BY <2>2, SingleCreates, SingleCreateZone
  <2>3. CASE \E q \in PullZone : CreatePull(p, q)
    BY <2>3, SingleCreatePull
  <2>4. CASE UpsertRule(p) \/ (\E ignored \in BOOLEAN : Detach(p, ignored)) \/ DeletePull(p)
    BY <2>4, SinglePulls
  <2>5. CASE RulesDone(p) \/ AssertOwned(p) \/ VerifyDetached(p) \/ Guard(p)
    BY <2>5, SingleGoesOn
  <2>6. CASE (\E linked \in BOOLEAN : Mark(p, linked)) \/ Commit(p)
    BY <2>6, SingleMarks
  <2>7. CASE PullStays(p) \/ \E deleted \in BOOLEAN : DeleteRouter(p, deleted)
    BY <2>7, SingleStops
  <2>8. CASE (\E removed \in BOOLEAN : Unmark(p, removed)) \/ DeleteZone(p)
    BY <2>8, SingleUnmarks
  <2>9. QED
    BY <1>1, <2>1, <2>2, <2>3, <2>4, <2>5, <2>6, <2>7, <2>8 DEF Steps
<1>2. ASSUME NEW p \in Proc, Starts(p) \/ Dies(p) \/ TargetGone(p) PROVE Single'
  BY <1>2, SingleStarts, SingleStops
<1>3. QED
  BY <1>1, <1>2, SingleOldDeploy DEF ProvisionNext

LEMMA StutterSingle ==
  ASSUME Single, UNCHANGED provisioned
  PROVE  Single'
<1>1. UNCHANGED <<zone, pull, cmd>>
  BY DEF provisioned
<1>2. orderly' = orderly
  BY Zenon DEF provisioned
<1>3. SUFFICES ASSUME orderly' PROVE Sites' /\ \A q \in Proc : Knowing(cmd[q])'
  BY Zenon DEF Single
<1>4. Sites /\ \A q \in Proc : Knowing(cmd[q])
  BY <1>2, <1>3, Zenon DEF Single
<1>5. Sites' /\ \A c : Knowing(c) => Knowing(c)'
  BY <1>1, <1>4, SitesStay
<1>6. ASSUME NEW q \in Proc PROVE Knowing(cmd[q])'
  <2>1. PICK c : c = cmd[q]
    OBVIOUS
  <2>2. Knowing(c)' /\ c = cmd'[q]
    BY <1>1, <1>4, <1>5, <2>1
  <2>3. QED
    BY <2>2 DEF Knowing
<1>7. QED
  BY <1>5, <1>6

LEMMA InitSingle ==
  ASSUME ProvisionInit, Apart
  PROVE  Single
<1>1. PICK attached \in BOOLEAN : pull = [q \in PullZone |->
       IF q = OldPull THEN [NoPull EXCEPT !.is = "there", !.origin = Foreign, !.script = attached]
       ELSE IF q = LegacyPull
         THEN [NoPull EXCEPT !.is = "there", !.origin = Legacy, !.name = LegacyName, !.script = TRUE]
       ELSE NoPull]
  BY DEF ProvisionInit
<1>2. \A q \in PullZone : PullThere(q) => (q = OldPull /\ pull[q].origin = Foreign) \/ (q = LegacyPull /\ pull[q].origin = Legacy)
  BY <1>1 DEF NoPull, PullThere
<1>3. ASSUME NEW z \in Zone
      PROVE  /\ zone[z].name \notin Names /\ zone[z].state.kind # "current"
             /\ z \in {Foreign, Legacy} => zone[z].is = "there"
  <2>1. zone[z] = IF z = Foreign THEN [NoZone EXCEPT !.is = "there"]
                  ELSE IF z = Legacy THEN [is |-> "there", name |-> LegacyName, state |-> LegacyState(0)]
                  ELSE NoZone
    BY DEF ProvisionInit
  <2>2. CASE z = Foreign
    BY <2>1, <2>2 DEF NoZone, NoState
  <2>3. CASE z = Legacy
    BY <2>1, <2>3, LegacyStates DEF Apart
  <2>4. CASE z \notin {Foreign, Legacy}
    BY <2>1, <2>4 DEF NoZone, NoState
  <2>5. QED
    BY <2>2, <2>3, <2>4
<1>4. Sites
  BY <1>2, <1>3 DEF Sites, OnePull, PullsNamed, OneZone, SitesNamed, OneSite, Listed, IsSite
<1>5. \A p \in Proc : Knowing(cmd[p])
  BY WaitingKnows DEF ProvisionInit
<1>6. QED
  BY <1>4, <1>5 DEF Single

LEMMA AtMostOne ==
  ASSUME NEW S, \A x, y \in S : x = y
  PROVE  Cardinality(S) <= 1
<1>1. CASE S = {}
  BY <1>1, FS_EmptySet
<1>2. CASE S # {}
  <2>1. PICK x : x \in S /\ S = {x}
    BY <1>2
  <2>2. Cardinality(S) = 1
    BY <2>1, FS_Singleton
  <2>3. QED
    BY <2>2
<1>3. QED
  BY <1>1, <1>2

(* Commands that run one after another, none of which imports under another name what a create left, leave no two listed sites of one name, no two zones a create made for one name and no two pull zones of one zone, whatever failed before (api.ts:540, api.ts:554, api.ts:789). *)
THEOREM OneOfEach ==
  ASSUME LegacyName \notin Names
  PROVE  ProvisionSpec => []OneEach
<1>0. Apart
  BY DEF Apart
<1>1. IInv /\ Single /\ [ProvisionNext]_provisioned => Single'
  BY <1>0, NextSingle, StutterSingle
<1>2. Single => OneEach
  <2> SUFFICES ASSUME Sites
               PROVE  /\ \A y, z \in Zone : Listed(y) /\ Listed(z) /\ zone[y].state.name = zone[z].state.name => y = z
                      /\ \A n \in Names : Cardinality(Named(n)) <= 1
                      /\ \A z \in Zone : Cardinality(Origins(z)) <= 1
    BY Zenon DEF Single, OneEach
  <2>1. ASSUME NEW n \in Names PROVE Cardinality(Named(n)) <= 1
    <3>1. \A y, z \in Named(n) : y = z
      BY DEF Sites, OneZone, Named
    <3>2. QED
      BY <3>1, AtMostOne
  <2>2. ASSUME NEW z \in Zone PROVE Cardinality(Origins(z)) <= 1
    <3>1. \A q, r \in Origins(z) : q = r
      BY DEF Sites, OnePull, Origins
    <3>2. QED
      BY <3>1, AtMostOne
  <2>3. QED
    BY <2>1, <2>2 DEF Sites, OneSite
<1>3. ProvisionInit => Single
  BY <1>0, InitSingle
<1>4. QED
  BY ProvisionInvariant, <1>1, <1>2, <1>3, PTL DEF ProvisionSpec
=============================================================================
