------------------------------ MODULE Hostnames ------------------------------
(***************************************************************************)
(* Custom hostnames of a site's pull zone (packages/cli/src/core/hostnames *)
(* and commands/sites/domains): `domains add`, `ssl` and `remove`, and the *)
(* setup that `sites create` and the first deploy offer.  Each is a walk   *)
(* through requests to the pull zone, to Bunny DNS and for a certificate,  *)
(* with prompts between them, and a record of the production domain in the *)
(* state file at the end.                                                  *)
(***************************************************************************)
EXTENDS Naturals, FiniteSets

CONSTANTS
  Proc,              \* commands that may run at one time
  Host,              \* hostnames
  Wildcard,          \* those that begin with *.
  RecordId,          \* DNS records there are or may be
  None,
  OpportunisticEvery, \* OPPORTUNISTIC_EVERY_TICKS
  Deadline,          \* DNS_TIMEOUT_MS, in ticks
  SslAttempts,       \* SSL_ATTEMPTS
  MaxCommands,       \* bound: commands started
  MaxFaults          \* bound: requests that fail or are ignored, answers lost, processes that die

ASSUME HostnamesAssumption ==
  /\ None \notin Host /\ Wildcard \subseteq Host
  /\ RecordId # {} /\ None \notin [id : RecordId, type : {"pull", "other"}, here : BOOLEAN, enabled : BOOLEAN]
  /\ OpportunisticEvery \in Nat \ {0} /\ Deadline \in Nat /\ SslAttempts \in Nat \ {0}
  /\ MaxCommands \in Nat /\ MaxFaults \in Nat

VARIABLES
  on,        \* on[h]: the pull zone that serves h: this site's, another, or none
  cert,      \* hostnames with an active certificate
  forced,    \* hostnames with Force SSL
  dns,       \* dns[h]: the Bunny DNS zone of h, and whether the domain is delegated
  records,   \* records[h]: the routing records of that name
  domain,    \* the production domain the site's state file records
  cmd,       \* cmd[p]: the command p runs
  orderly,   \* history: commands ran one after another, and no removal was cut short
  commands,
  faults

hosting == <<on, cert, forced, dns, records, domain, cmd, orderly, commands, faults>>

NoCommand == [pc |-> "idle", kind |-> "add", host |-> None, back |-> "idle", accepted |-> FALSE,
              old |-> None, delegated |-> FALSE, tick |-> 0, tries |-> 0, blind |-> FALSE, seen |-> None]

Record(i, type, here, enabled) == [id |-> i, type |-> type, here |-> here, enabled |-> enabled]
Routes(r) == r.type = "pull" /\ r.here /\ r.enabled

First == CHOOSE i \in RecordId : TRUE

HostnamesInit ==
  /\ on \in [Host -> {"none", "elsewhere"}]
  /\ cert = {} /\ forced = {}
  /\ \E d \in {"outside", "candidate", "undelegated", "delegated"} : dns = [h \in Host |-> d]
  /\ \E t \in {"pull", "other"}, e \in BOOLEAN : \E old \in {{}, {Record(First, t, FALSE, e)}} :
       records = [h \in Host |-> IF dns[h] \in {"undelegated", "delegated"} THEN old ELSE {}]
  /\ domain = None
  /\ cmd = [p \in Proc |-> NoCommand]
  /\ orderly = TRUE
  /\ commands = 0 /\ faults = 0

------------------------------------------------------------------------------
(* Starting, going on, failing. *)

At(p, pc) == cmd[p].pc = pc
Idle(p) == At(p, "idle")

Begins(p, c) ==
  /\ Idle(p) /\ commands < MaxCommands
  /\ cmd' = [cmd EXCEPT ![p] = c]
  /\ orderly' = (orderly /\ \A q \in Proc : Idle(q))
  /\ commands' = commands + 1
  /\ UNCHANGED <<on, cert, forced, dns, records, domain, faults>>

(* onAdded: the first custom domain is recorded, never a wildcard. *)
Hook(c) == IF c.host \in Wildcard \/ c.seen # None THEN "idle" ELSE "record"

(* How a command leaves the part between the added hostname and its last step: on its way, or by an exception. *)
After(c) == IF c.kind = "add" THEN Hook(c) ELSE IF c.kind = "setup" THEN "readback" ELSE "idle"
(* Mutant: the hook runs only when nothing was thrown. *)
ThrownPastHook(c) == "idle"
Thrown(c) == IF c.kind = "add" THEN Hook(c) ELSE "idle"

(* What the rest of the command does not look at again is forgotten. *)
To(c, pc) ==
  CASE pc = "idle" -> NoCommand
    [] pc \in {"readback", "record"} -> [NoCommand EXCEPT !.pc = pc, !.kind = c.kind, !.host = c.host, !.seen = c.seen]
    [] pc = "live" -> [c EXCEPT !.pc = "check", !.back = "live", !.old = None, !.delegated = FALSE]
    [] OTHER -> [c EXCEPT !.pc = pc]
Keeps(p, c) == cmd' = [cmd EXCEPT ![p] = c]
Goes(p, pc) == Keeps(p, To(cmd[p], pc))
Faulty == faults < MaxFaults /\ faults' = faults + 1
Sound == UNCHANGED faults

Dies(p) ==
  /\ ~Idle(p) /\ Faulty
  /\ Goes(p, "idle")
  /\ orderly' = (orderly /\ ~At(p, "unhook"))
  /\ UNCHANGED <<on, cert, forced, dns, records, domain, commands>>

------------------------------------------------------------------------------
(* addHostname. *)

Add(p, h) == Begins(p, [NoCommand EXCEPT !.pc = "attach", !.host = h, !.seen = domain])

Setup(p, h) ==
  /\ domain = None
  /\ Begins(p, [NoCommand EXCEPT !.pc = "attach", !.kind = "setup", !.host = h])

(* The pull zone takes a hostname that no pull zone has; an answer may be lost. *)
Attach(p) ==
  LET h == cmd[p].host IN
  /\ At(p, "attach")
  /\ \/ on[h] = "none" /\ on' = [on EXCEPT ![h] = "here"] /\ Sound /\ Keeps(p, [cmd[p] EXCEPT !.pc = "look", !.accepted = TRUE])
     \/ on[h] # "none" /\ UNCHANGED on /\ Sound /\ Goes(p, "look")
     \/ on' \in {on, [on EXCEPT ![h] = IF @ = "none" THEN "here" ELSE @]} /\ Faulty /\ Goes(p, "look")
  /\ UNCHANGED <<cert, forced, dns, records, domain, orderly, commands>>

(* An add throws, and a setup too under --output json; else a setup warns and goes on to read the zone. *)
NotAttached(c) == IF c.kind = "setup" THEN {"readback", "idle"} ELSE {"idle"}

(* Whatever the error said, the zone decides whether the hostname is attached.  With --ssl the hostnames read here serve enableSsl. *)
Look(p) ==
  LET c == [cmd[p] EXCEPT !.accepted = FALSE] IN
  /\ At(p, "look")
  /\ \/ /\ Sound /\ (on[c.host] = "here" \/ cmd[p].accepted)
        /\ \/ Keeps(p, [c EXCEPT !.pc = "offer"])
           \/ c.kind = "add" /\ on[c.host] = "here" /\ Keeps(p, [c EXCEPT !.pc = "issue", !.back = "offer"])
           \/ c.kind = "setup" /\ Keeps(p, To(c, "record"))  \* --output json: only attached
     \/ Sound /\ on[c.host] # "here" /\ ~cmd[p].accepted /\ \E pc \in NotAttached(c) : Keeps(p, To(c, pc))
     \/ Faulty /\ \E pc \in NotAttached(c) : Keeps(p, To(c, pc))
  /\ UNCHANGED <<on, cert, forced, dns, records, domain, orderly, commands>>

(* Bunny DNS when interactive, else --wait, else the hints are printed. *)
Offer(p) ==
  /\ At(p, "offer")
  /\ \/ Goes(p, "find")
     \/ cmd[p].kind = "add" /\ Goes(p, "wait")
     \/ Goes(p, After(cmd[p]))
  /\ UNCHANGED <<on, cert, forced, dns, records, domain, orderly, commands, faults>>

------------------------------------------------------------------------------
(* enableSsl, from the ssl command, --ssl, or the wait for DNS. *)

Ssl(p, h) == Begins(p, [NoCommand EXCEPT !.pc = "check", !.kind = "ssl", !.host = h])

(* Mutant: a certificate is asked for until it is issued. *)
NotIssuedAgain(c) ==
  CASE c.back = "offer" -> [c EXCEPT !.pc = "offer", !.back = "idle"]
    [] c.back = "wait"  -> [c EXCEPT !.pc = "wait", !.tick = @ + 1]
    [] c.back = "live"  -> [c EXCEPT !.pc = "check"]
    [] OTHER            -> NoCommand
(* Where a certificate that was not issued leads. *)
NotIssued(c) ==
  CASE c.back = "offer" -> [c EXCEPT !.pc = "offer", !.back = "idle"]
    [] c.back = "wait"  -> [c EXCEPT !.pc = "wait", !.tick = @ + 1]
    [] c.back = "live"  -> IF c.tries + 1 < SslAttempts THEN [c EXCEPT !.pc = "check", !.tries = @ + 1] ELSE To(c, Thrown(c))
    [] OTHER            -> NoCommand
Fails(p) == Keeps(p, NotIssued(cmd[p]))

Check(p) ==
  /\ At(p, "check")
  /\ \/ Sound /\ IF on[cmd[p].host] = "here" THEN Goes(p, "issue") ELSE Fails(p)
     \/ Faulty /\ Fails(p)
  /\ UNCHANGED <<on, cert, forced, dns, records, domain, orderly, commands>>

(* loadFreeCertificate, which may accept the request and issue nothing, or refuse. *)
Issue(p) ==
  LET h == cmd[p].host IN
  /\ At(p, "issue")
  /\ \/ cert' \in {cert, cert \cup {h}} /\ Goes(p, "certified")
     \/ UNCHANGED cert /\ Fails(p)
  /\ UNCHANGED <<on, forced, dns, records, domain, orderly, commands, faults>>

(* Mutant: the status code is trusted. *)
CertifiedByStatus(p) ==
  /\ At(p, "certified")
  /\ Goes(p, "force")
  /\ UNCHANGED <<on, cert, forced, dns, records, domain, orderly, commands, faults>>

(* hostnameHasCertificate; a check that fails does not fail the issuance. *)
Certified(p) ==
  LET c == cmd[p] IN
  /\ At(p, "certified")
  /\ \/ Sound /\ IF c.host \in cert /\ on[c.host] = "here" THEN Goes(p, "force") ELSE Fails(p)
     \/ Faulty /\ Keeps(p, [c EXCEPT !.pc = "force", !.blind = TRUE])
  /\ UNCHANGED <<on, cert, forced, dns, records, domain, orderly, commands>>

(* setForceSsl to what --force-ssl says, which needs the hostname to be there. *)
ForceSsl(p, force) ==
  LET c == cmd[p]
      set == IF force THEN forced \cup {c.host} ELSE forced \ {c.host} IN
  /\ At(p, "force")
  /\ \/ on[c.host] = "here" /\ forced' = set /\ Sound /\ Goes(p, After(c))
     \/ on[c.host] # "here" /\ UNCHANGED forced /\ Sound /\ Fails(p)
     \/ forced' \in {forced, IF on[c.host] = "here" THEN set ELSE forced} /\ Faulty /\ Fails(p)
  /\ UNCHANGED <<on, cert, dns, records, domain, orderly, commands>>

------------------------------------------------------------------------------
(* offerDnsWaitAndSsl. *)

(* The resolvers see the name or not; every few ticks a certificate is requested all the same. *)
Tick(p) ==
  LET c == cmd[p] IN
  /\ At(p, "wait") /\ c.tick < Deadline
  /\ \/ Goes(p, "live")
     \/ c.tick > 0 /\ c.tick % OpportunisticEvery = 0 /\ Keeps(p, [c EXCEPT !.pc = "check", !.back = "wait"])
     \/ (c.tick = 0 \/ c.tick % OpportunisticEvery # 0) /\ Keeps(p, [c EXCEPT !.tick = @ + 1])
  /\ UNCHANGED <<on, cert, forced, dns, records, domain, orderly, commands, faults>>

GiveUp(p) ==
  /\ At(p, "wait") /\ cmd[p].tick >= Deadline
  /\ Goes(p, Thrown(cmd[p]))
  /\ UNCHANGED <<on, cert, forced, dns, records, domain, orderly, commands, faults>>

------------------------------------------------------------------------------
(* offerBunnyDnsThenSsl, offerBunnyDnsRecord, repointPullZoneRecord. *)

(* The record to set is printed, and the wait offered. *)
Manual(p) == Goes(p, "wait") \/ Goes(p, After(cmd[p]))

(* findBunnyDnsZone: the zone of the name and one routing record already there.  A failure means manual setup. *)
Find(p) ==
  LET c == cmd[p] h == cmd[p].host IN
  /\ At(p, "find")
  /\ \/ dns[h] = "outside" /\ Manual(p) /\ Sound
     \/ dns[h] = "candidate" /\ Goes(p, "zone") /\ Sound
     \/ /\ dns[h] \in {"undelegated", "delegated"} /\ Sound
        /\ \E r \in IF records[h] = {} THEN {None} ELSE records[h] :
             Keeps(p, [c EXCEPT !.pc = "point", !.old = r, !.delegated = dns[h] = "delegated"])
     \/ Faulty /\ Manual(p)
  /\ UNCHANGED <<on, cert, forced, dns, records, domain, orderly, commands>>

(* The domain uses Bunny's nameservers, but has no zone: one is offered. *)
OfferZone(p) ==
  LET c == cmd[p] h == cmd[p].host IN
  /\ At(p, "zone")
  /\ \/ UNCHANGED dns /\ Manual(p) /\ Sound
     \/ dns' = [dns EXCEPT ![h] = "delegated"] /\ Sound /\ Keeps(p, [c EXCEPT !.pc = "point", !.old = None, !.delegated = TRUE])
     \/ dns' \in {dns, [dns EXCEPT ![h] = "delegated"]} /\ Faulty /\ Goes(p, Thrown(c))
  /\ UNCHANGED <<on, cert, forced, records, domain, orderly, commands>>

Fresh(h) == {i \in RecordId : \A r \in records[h] : r.id # i}

(* The write, unless the record is there already or the user declines; the API accepts some writes it ignores. *)
Point(p) ==
  LET c == cmd[p] h == cmd[p].host
      Accepted == /\ Sound
                  /\ Goes(p, "verify")
      Refused == Faulty /\ Goes(p, Thrown(c)) IN
  /\ At(p, "point")
  /\ \/ c.old # None /\ Routes(c.old) /\ Goes(p, "pointed") /\ Sound /\ UNCHANGED records
     \/ (c.old # None => ~Routes(c.old)) /\ Manual(p) /\ Sound /\ UNCHANGED records
     \/ /\ c.old # None => c.old.type = "other"
        /\ \/ \E i \in Fresh(h) : records' = [records EXCEPT ![h] = @ \cup {Record(i, "pull", TRUE, TRUE)}]
           \/ UNCHANGED records
        /\ Accepted \/ Refused
     \/ /\ c.old # None /\ c.old.type = "pull" /\ ~Routes(c.old)
        /\ \/ records' = [records EXCEPT ![h] = {IF r.id = c.old.id THEN [r EXCEPT !.here = TRUE] ELSE r : r \in @}]
           \/ UNCHANGED records
        /\ Accepted \/ Refused
  /\ UNCHANGED <<on, cert, forced, dns, domain, orderly, commands>>

(* Mutant: the answer to the write is believed. *)
VerifyNothing(p) ==
  LET c == cmd[p] IN
  /\ At(p, "verify")
  /\ Goes(p, IF c.old # None /\ c.old.type = "other" THEN "replace" ELSE "pointed")
  /\ UNCHANGED <<on, cert, forced, dns, records, domain, orderly, commands, faults>>

(* assertRoutesHere: the zone is read back. *)
Verify(p) ==
  LET c == cmd[p] IN
  /\ At(p, "verify")
  /\ \/ Sound /\ Goes(p, IF \A r \in records[c.host] : ~Routes(r) THEN Thrown(c)
                         ELSE IF c.old # None /\ c.old.type = "other" THEN "replace" ELSE "pointed")
     \/ Faulty /\ Goes(p, Thrown(c))
  /\ UNCHANGED <<on, cert, forced, dns, records, domain, orderly, commands>>

(* Mutant: the old record is removed by its name. *)
UnrecordedByName(c) == {}

(* A record of another type never changes; its ID is given to no other. *)
Unrecorded(c) == records[c.host] \ {c.old}

(* Only now the old record is removed. *)
Replace(p) ==
  LET c == cmd[p] IN
  /\ At(p, "replace")
  /\ \/ records' = [records EXCEPT ![c.host] = Unrecorded(c)] /\ Sound /\ Goes(p, "pointed")
     \/ records' \in {records, [records EXCEPT ![c.host] = Unrecorded(c)]} /\ Faulty /\ Goes(p, "relist")
  /\ UNCHANGED <<on, cert, forced, dns, domain, orderly, commands>>

(* A lost answer is fine; only an old record that is still listed fails the repoint. *)
Relist(p) ==
  LET c == cmd[p] IN
  /\ At(p, "relist")
  /\ \/ Sound /\ Goes(p, IF Unrecorded(c) = records[c.host] THEN "pointed" ELSE Thrown(c))
     \/ Faulty /\ Goes(p, Thrown(c))
  /\ UNCHANGED <<on, cert, forced, dns, records, domain, orderly, commands>>

(* An undelegated zone resolves for nobody: no wait. *)
Pointed(p) ==
  /\ At(p, "pointed")
  /\ Goes(p, IF cmd[p].delegated THEN "live" ELSE After(cmd[p]))
  /\ UNCHANGED <<on, cert, forced, dns, records, domain, orderly, commands, faults>>

------------------------------------------------------------------------------
(* The site's production domain. *)

(* Mutant: a hostname that could not be added is recorded all the same. *)
ReadbackNothing(p) ==
  /\ At(p, "readback")
  /\ Goes(p, "record")
  /\ UNCHANGED <<on, cert, forced, dns, records, domain, orderly, commands, faults>>

Readback(p) ==
  /\ At(p, "readback")
  /\ \/ Goes(p, IF on[cmd[p].host] = "here" THEN "record" ELSE "idle") /\ Sound
     \/ Goes(p, "idle") /\ Faulty
  /\ UNCHANGED <<on, cert, forced, dns, records, domain, orderly, commands>>

(* recordSiteDomain only warns when the write fails. *)
RecordDomain(p) ==
  /\ At(p, "record")
  /\ \/ domain' = cmd[p].host /\ Sound
     \/ UNCHANGED domain /\ Faulty
  /\ Goes(p, "idle")
  /\ UNCHANGED <<on, cert, forced, dns, records, orderly, commands>>

Remove(p, h) ==
  /\ on[h] = "here"
  /\ Begins(p, [NoCommand EXCEPT !.pc = "remove", !.kind = "remove", !.host = h, !.seen = domain])

(* The hostname takes its certificate and its Force SSL along. *)
RemoveHostname(p) ==
  LET h == cmd[p].host
      Gone == on' = [on EXCEPT ![h] = "none"] /\ cert' = cert \ {h} /\ forced' = forced \ {h} IN
  /\ At(p, "remove")
  /\ \/ on[h] = "here" /\ Gone /\ Sound /\ Goes(p, "unhook") /\ UNCHANGED orderly
     \/ on[h] # "here" /\ UNCHANGED <<on, cert, forced, orderly>> /\ Sound /\ Goes(p, "idle")
     \/ on[h] = "here" /\ Gone /\ Faulty /\ Goes(p, "idle") /\ orderly' = FALSE
     \/ UNCHANGED <<on, cert, forced, orderly>> /\ Faulty /\ Goes(p, "idle")
  /\ UNCHANGED <<dns, records, domain, commands>>

(* onRemoved. *)
Unhook(p) ==
  LET c == cmd[p] IN
  /\ At(p, "unhook")
  /\ \/ domain' = (IF c.seen = c.host THEN None ELSE domain) /\ Sound /\ UNCHANGED orderly
     \/ UNCHANGED domain /\ Faulty /\ orderly' = FALSE
  /\ Goes(p, "idle")
  /\ UNCHANGED <<on, cert, forced, dns, records, commands>>

------------------------------------------------------------------------------
Starts(p) == \E h \in Host : Add(p, h) \/ Setup(p, h) \/ Ssl(p, h) \/ Remove(p, h)

Steps(p) ==
  \/ Attach(p) \/ Look(p) \/ Offer(p)
  \/ Check(p) \/ Issue(p) \/ Certified(p)
  \/ \E force \in BOOLEAN : ForceSsl(p, force)
  \/ Tick(p) \/ GiveUp(p)
  \/ Find(p) \/ OfferZone(p) \/ Point(p) \/ Verify(p) \/ Replace(p) \/ Relist(p) \/ Pointed(p)
  \/ Readback(p) \/ RecordDomain(p) \/ RemoveHostname(p) \/ Unhook(p)

HostnamesNext == \E p \in Proc : Starts(p) \/ Steps(p) \/ Dies(p)

HostnamesSpec == HostnamesInit /\ [][HostnamesNext]_hosting
HostnamesFair == HostnamesSpec /\ \A p \in Proc : WF_hosting(Steps(p))

------------------------------------------------------------------------------
(* Properties. *)

Places == {"idle", "attach", "look", "offer", "check", "issue", "certified", "force", "wait", "find", "zone", "point",
           "verify", "replace", "relist", "pointed", "readback", "record", "remove", "unhook"}

RecordsOf == [id : RecordId, type : {"pull", "other"}, here : BOOLEAN, enabled : BOOLEAN]
CommandOf ==
  [pc : Places, kind : {"add", "setup", "ssl", "remove"}, host : Host \cup {None}, back : {"idle", "offer", "wait", "live"},
   accepted : BOOLEAN, old : RecordsOf \cup {None}, delegated : BOOLEAN, tick : Nat, tries : Nat, blind : BOOLEAN,
   seen : Host \cup {None}]

(* Every variable has its type, and a command at work knows its hostname. *)
HostnamesTypeOK ==
  /\ on \in [Host -> {"none", "here", "elsewhere"}]
  /\ cert \subseteq Host /\ forced \subseteq Host
  /\ dns \in [Host -> {"outside", "candidate", "undelegated", "delegated"}]
  /\ records \in [Host -> SUBSET RecordsOf]
  /\ domain \in Host \cup {None}
  /\ cmd \in [Proc -> CommandOf]
  /\ \A p \in Proc : cmd[p].pc # "idle" => cmd[p].host \in Host
  /\ orderly \in BOOLEAN
  /\ commands \in Nat /\ faults \in Nat

(* A name that resolved through Bunny DNS before a command keeps an enabled record in every state of it, although the API ignores some writes and the type of a record cannot be changed (bunny-dns.ts:170). *)
NeverUnrouted ==
  [][\A h \in Host : (\E r \in records[h] : r.enabled) => \E r \in records'[h] : r.enabled]_hosting

(* A command that says the name was pointed here left a record that routes here, and none of another type it was to replace, lost answers and ignored writes included (bunny-dns.ts:133, bunny-dns.ts:204). *)
PointedRoutesHere ==
  \A p \in Proc : At(p, "pointed") =>
    /\ \E r \in records[cmd[p].host] : Routes(r)
    /\ cmd[p].old # None /\ cmd[p].old.type = "other" => cmd[p].old \notin records[cmd[p].host]

(* Force SSL, which breaks a name without a certificate, is only switched on where the zone has shown one since the request, or could not be asked (client.ts:235). *)
ForcedHasCert ==
  [][orderly => \A h \in forced' \ forced : h \in cert \/ \E p \in Proc : cmd[p].host = h /\ cmd[p].blind]_hosting

(* A site that had no domain has one when an add ends that attached one, whatever the DNS and certificate steps threw (commands.ts:207). *)
AddRecordsDomain ==
  [][\A p \in Proc :
       orderly /\ ~At(p, "idle") /\ ~At(p, "attach") /\ ~At(p, "look")
         /\ cmd[p].kind = "add" /\ cmd[p].host \notin Wildcard
         /\ cmd'[p].pc = "idle" /\ faults' = faults
       => domain' # None]_hosting

(* The recorded production domain is a hostname the pull zone serves: nothing that never attached is recorded and a removal takes the record along (domains/index.ts:82). *)
DomainOnZone ==
  orderly /\ (\A p \in Proc : Idle(p)) => domain = None \/ on[domain] = "here"

(* Every command ends: the wait gives up after its deadline and a certificate is asked for a few times only (flow.ts:142). *)
HostnamesEnd == \A p \in Proc : []<>Idle(p)
==============================================================================
