--------------------------- MODULE HostnamesProofs ---------------------------
(***************************************************************************)
(* Proofs about Hostnames, for every number of commands, hostnames and DNS *)
(* records, however commands overlap and wherever they fail: the state is  *)
(* well formed, a name that DNS routed stays routed, and a command that    *)
(* says it pointed a name here left a record that does so.  Then about     *)
(* commands that run one after another: what the state file and Force SSL  *)
(* say is what the pull zone does.                                         *)
(***************************************************************************)
EXTENDS Hostnames, TLAPS

USE HostnamesAssumption

-----------------------------------------------------------------------------
(* The invariant. *)

(* The records of a name have IDs of their own. *)
OwnIds(rs) == \A r, s \in rs : r.id = s.id => r = s

(* The pull zone record a command found is there still, and routes here at least as much. *)
Still(o, rs) == \E r \in rs : r.id = o.id /\ r.type = "pull" /\ r.enabled = o.enabled /\ (o.here => r.here)
Lasting(c, rs) == c.old # None /\ c.old.type = "pull" => Still(c.old, rs)

Routed(rs) == \E r \in rs : Routes(r)
Removing(c) == c.pc \in {"replace", "relist"}

(* What c knows of the records of its name. *)
Knows(c, rs) ==
  /\ Lasting(c, rs)
  /\ Removing(c) => c.old # None /\ c.old.type = "other"
  /\ Removing(c) \/ c.pc = "pointed" => Routed(rs)
  /\ c.pc = "pointed" /\ c.old # None /\ c.old.type = "other" => c.old \notin rs

CommandOK(c) == c \in CommandOf /\ (c.pc # "idle" => c.host \in Host) /\ (c.old # None => c.pc # "idle")

IInv ==
  /\ HostnamesTypeOK
  /\ \A h \in Host : OwnIds(records[h])
  /\ \A p \in Proc : CommandOK(cmd[p]) /\ (cmd[p].pc # "idle" => Knows(cmd[p], records[cmd[p].host]))

-----------------------------------------------------------------------------
(* The operators. *)

LEMMA NothingOld ==
  ASSUME NEW c, c.old = None, c.pc \notin {"replace", "relist", "pointed"}, NEW rs
  PROVE  Knows(c, rs)
BY DEF Knows, Lasting, Removing

LEMMA NoCommandOK ==
  CommandOK(NoCommand) /\ NoCommand.pc = "idle" /\ NoCommand.old = None
BY DEF CommandOK, NoCommand, CommandOf, Places

(* Records change for the commands of one name in three ways only: one is added that routes here, one of the pull zone's is turned here, or one of another type is removed. *)
Added(rs, new) == \E i \in RecordId : (\A r \in rs : r.id # i) /\ new = rs \cup {Record(i, "pull", TRUE, TRUE)}
Turned(rs, new) ==
  \E i \in RecordId : /\ \E r \in rs : r.id = i /\ r.type = "pull"
                      /\ new = {IF r.id = i THEN [r EXCEPT !.here = TRUE] ELSE r : r \in rs}
Removed(rs, new) == Routed(rs) /\ \E r : r.type = "other" /\ new = rs \ {r}

Changes(rs, new) == new = rs \/ Added(rs, new) \/ Turned(rs, new) \/ Removed(rs, new)

LEMMA ChangesKeep ==
  ASSUME NEW rs \in SUBSET RecordsOf, OwnIds(rs), NEW new, Changes(rs, new)
  PROVE  /\ new \in SUBSET RecordsOf
         /\ OwnIds(new)
         /\ Routed(rs) => Routed(new)
         /\ (\E r \in rs : r.enabled) => \E r \in new : r.enabled
         /\ \A o \in RecordsOf : o.type = "other" /\ o \notin rs => o \notin new
         /\ \A o : Still(o, rs) => Still(o, new)
<1>1. CASE new = rs
  BY <1>1
<1>2. CASE Added(rs, new)
  <2>1. PICK i \in RecordId : (\A r \in rs : r.id # i) /\ new = rs \cup {Record(i, "pull", TRUE, TRUE)}
    BY <1>2 DEF Added
  <2> DEFINE n == Record(i, "pull", TRUE, TRUE)
  <2>2. n \in RecordsOf /\ n.id = i /\ n.type = "pull" /\ n.enabled
    BY DEF Record, RecordsOf
  <2> HIDE DEF n
  <2>3. new = rs \cup {n}
    BY <2>1 DEF n
  <2> QED
    BY <2>1, <2>2, <2>3 DEF OwnIds, Routed, Still
<1>3. CASE Turned(rs, new)
  <2>1. PICK i \in RecordId : /\ \E r \in rs : r.id = i /\ r.type = "pull"
                              /\ new = {IF r.id = i THEN [r EXCEPT !.here = TRUE] ELSE r : r \in rs}
    BY <1>3 DEF Turned
  <2>2. PICK old \in rs : old.id = i /\ old.type = "pull"
    BY <2>1
  <2> DEFINE n == [old EXCEPT !.here = TRUE]
  <2>3. n \in RecordsOf /\ n.id = i /\ n.type = "pull" /\ n.here = TRUE /\ n.enabled = old.enabled
    BY <2>2 DEF RecordsOf
  <2>4. new = (rs \ {old}) \cup {n}
    <3>1. \A r \in rs : r.id = i <=> r = old
      BY <2>2 DEF OwnIds
    <3> QED
      BY <2>1, <3>1
  <2> HIDE DEF n
  <2>5. new \in SUBSET RecordsOf /\ OwnIds(new)
    BY <2>2, <2>3, <2>4 DEF OwnIds
  <2>6. Routed(rs) => Routed(new)
    BY <2>2, <2>3, <2>4 DEF Routed, Routes
  <2>7. (\E r \in rs : r.enabled) => \E r \in new : r.enabled
    BY <2>2, <2>3, <2>4
  <2>8. \A o \in RecordsOf : o.type = "other" /\ o \notin rs => o \notin new
    BY <2>3, <2>4
  <2>9. \A o : Still(o, rs) => Still(o, new)
    BY <2>2, <2>3, <2>4 DEF Still
  <2> QED
    BY <2>5, <2>6, <2>7, <2>8, <2>9
<1>4. CASE Removed(rs, new)
  <2>1. PICK o : o.type = "other" /\ new = rs \ {o}
    BY <1>4 DEF Removed
  <2>2. Routed(new)
    BY <1>4, <2>1 DEF Removed, Routed, Routes
  <2>3. \E r \in new : r.enabled
    BY <2>2 DEF Routed, Routes
  <2> QED
    BY <2>1, <2>2, <2>3 DEF OwnIds, Still
<1> QED
  BY <1>1, <1>2, <1>3, <1>4 DEF Changes

(* What a command knows survives what the others do. *)
LEMMA KnowsStays ==
  ASSUME NEW c \in CommandOf, NEW rs \in SUBSET RecordsOf, OwnIds(rs), NEW new, Changes(rs, new), Knows(c, rs)
  PROVE  Knows(c, new)
<1>1. Lasting(c, new)
  BY ChangesKeep DEF Knows, Lasting
<1>2. Removing(c) \/ c.pc = "pointed" => Routed(new)
  BY ChangesKeep DEF Knows
<1>3. c.pc = "pointed" /\ c.old # None /\ c.old.type = "other" => c.old \notin new
  BY ChangesKeep DEF Knows, CommandOf
<1> QED
  BY <1>1, <1>2, <1>3 DEF Knows

-----------------------------------------------------------------------------
(* One step of p. *)

TypesOK ==
  /\ on' \in [Host -> {"none", "here", "elsewhere"}]
  /\ cert' \subseteq Host /\ forced' \subseteq Host
  /\ dns' \in [Host -> {"outside", "candidate", "undelegated", "delegated"}]
  /\ domain' \in Host \cup {None}
CountsOK == orderly' \in BOOLEAN /\ commands' \in Nat /\ faults' \in Nat
RecordsOK == records' = [h \in Host |-> records'[h]] /\ \A h \in Host : Changes(records[h], records'[h])
CommandNow(p, d) == CommandOK(d) /\ (d.pc # "idle" => Knows(d, records'[d.host])) /\ cmd' = [cmd EXCEPT ![p] = d]

StepOK(p) == TypesOK /\ CountsOK /\ RecordsOK /\ \E d : CommandNow(p, d)

LEMMA StepKeeps ==
  ASSUME IInv, NEW p \in Proc, StepOK(p)
  PROVE  IInv'
<1>1. records \in [Host -> SUBSET RecordsOf] /\ cmd \in [Proc -> CommandOf]
  BY DEF IInv, HostnamesTypeOK
<1>2. \A h \in Host : records'[h] \in SUBSET RecordsOf /\ OwnIds(records'[h])
  BY <1>1, ChangesKeep DEF IInv, StepOK, RecordsOK
<1>3. PICK d : CommandNow(p, d)
  BY DEF StepOK
<1>4. ASSUME NEW q \in Proc
      PROVE  CommandOK(cmd'[q]) /\ (cmd'[q].pc # "idle" => Knows(cmd'[q], records'[cmd'[q].host]))
  <2>1. CASE q = p
    BY <1>1, <1>3, <2>1 DEF CommandNow
  <2>2. CASE q # p
    <3>1. cmd'[q] = cmd[q] /\ CommandOK(cmd[q])
      BY <1>1, <1>3, <2>2 DEF CommandNow, IInv
    <3>2. ASSUME cmd[q].pc # "idle"
          PROVE  Knows(cmd[q], records'[cmd[q].host])
      <4>1. cmd[q].host \in Host /\ cmd[q] \in CommandOf
        BY <3>1, <3>2 DEF CommandOK
      <4> QED
        BY <1>1, <3>2, <4>1, KnowsStays DEF IInv, StepOK, RecordsOK
    <3> QED
      BY <3>1, <3>2
  <2> QED
    BY <2>1, <2>2
<1>5. cmd' \in [Proc -> CommandOf] /\ \A q \in Proc : cmd'[q].pc # "idle" => cmd'[q].host \in Host
  BY <1>1, <1>3, <1>4 DEF CommandNow, CommandOK
<1>6. HostnamesTypeOK'
  BY <1>2, <1>5 DEF HostnamesTypeOK, StepOK, TypesOK, CountsOK, RecordsOK
<1> QED
  BY <1>2, <1>4, <1>6 DEF IInv

LEMMA CommandAt ==
  ASSUME IInv, NEW p \in Proc
  PROVE  /\ CommandOK(cmd[p]) /\ cmd[p] \in CommandOf
         /\ cmd[p].pc # "idle" => cmd[p].host \in Host /\ Knows(cmd[p], records[cmd[p].host])
         /\ \A h \in Host : records[h] \in SUBSET RecordsOf /\ OwnIds(records[h])
BY DEF IInv, CommandOK, HostnamesTypeOK

LEMMA SameRecords ==
  ASSUME IInv, records' = records
  PROVE  RecordsOK
BY DEF IInv, HostnamesTypeOK, RecordsOK, Changes

(* c goes on to d, which knows no more of the records. *)
Follows(c, d) ==
  /\ CommandOK(d)
  /\ d.pc \notin {"replace", "relist", "pointed"}
  /\ d.old = None \/ (d.old = c.old /\ d.host = c.host /\ c.pc # "idle")

LEMMA Quiet ==
  ASSUME IInv, NEW p \in Proc, NEW d, Follows(cmd[p], d), cmd' = [cmd EXCEPT ![p] = d], records' = records
  PROVE  CommandNow(p, d)
<1>1. Knows(d, records[d.host])
  <2>1. CASE d.old = None
    BY <2>1, NothingOld DEF Follows
  <2>2. CASE d.old = cmd[p].old /\ d.host = cmd[p].host /\ cmd[p].pc # "idle"
    <3>1. Knows(cmd[p], records[d.host])
      BY <2>2, CommandAt
    <3> QED
      BY <2>2, <3>1 DEF Knows, Lasting, Removing, Follows
  <2> QED
    BY <2>1, <2>2 DEF Follows
<1> QED
  BY <1>1 DEF CommandNow, Follows

LEMMA ToFollows ==
  ASSUME NEW c, CommandOK(c), c.pc # "idle", NEW pc \in (Places \cup {"live"}) \ {"replace", "relist", "pointed"}
  PROVE  Follows(c, To(c, pc))
<1>1. CASE pc = "idle"
  BY <1>1, NoCommandOK DEF To, Follows
<1>2. CASE pc \in {"readback", "record"}
  <2> DEFINE d == [NoCommand EXCEPT !.pc = pc, !.kind = c.kind, !.host = c.host, !.seen = c.seen]
  <2>1. To(c, pc) = d
    BY <1>2 DEF To
  <2>2. c.kind \in {"add", "setup", "ssl", "remove"} /\ c.host \in Host /\ c.seen \in Host \cup {None}
    BY DEF CommandOK, CommandOf
  <2>3. d \in CommandOf /\ d.pc = pc /\ d.old = None /\ d.host = c.host
    BY <1>2, <2>2 DEF NoCommand, CommandOf, Places
  <2> HIDE DEF d
  <2> QED
    BY <1>2, <2>1, <2>2, <2>3 DEF Follows, CommandOK
<1>3. CASE pc = "live"
  BY <1>3 DEF To, Follows, CommandOK, CommandOf, Places
<1>4. CASE pc \notin {"idle", "readback", "record", "live"}
  BY <1>4 DEF To, Follows, CommandOK, CommandOf, Places
<1> QED
  BY <1>1, <1>2, <1>3, <1>4

LEMMA ThrownTo ==
  ASSUME NEW c
  PROVE  Hook(c) \in {"idle", "record"} /\ Thrown(c) \in {"idle", "record"} /\ After(c) \in {"idle", "record", "readback"}
BY DEF Hook, Thrown, After

LEMMA NotIssuedFollows ==
  ASSUME NEW c, CommandOK(c), c.pc # "idle"
  PROVE  Follows(c, NotIssued(c))
<1>1. CASE c.back = "offer"
  BY <1>1 DEF NotIssued, Follows, CommandOK, CommandOf, Places
<1>2. CASE c.back = "wait"
  <2>1. c \in CommandOf /\ c.tick + 1 \in Nat
    BY DEF CommandOK, CommandOf
  <2>2. NotIssued(c) = [c EXCEPT !.pc = "wait", !.tick = c.tick + 1]
    BY <1>2 DEF NotIssued
  <2>3. NotIssued(c) \in CommandOf
    BY <2>1, <2>2 DEF CommandOf, Places
  <2>4. /\ NotIssued(c).pc = "wait" /\ NotIssued(c).old = c.old /\ NotIssued(c).host = c.host
    BY <2>1, <2>2 DEF CommandOf
  <2> QED
    BY <2>3, <2>4 DEF Follows, CommandOK
<1>3. CASE c.back = "live"
  <2>1. CASE c.tries + 1 < SslAttempts
    <3>1. c \in CommandOf /\ c.tries + 1 \in Nat
      BY DEF CommandOK, CommandOf
    <3>2. NotIssued(c) = [c EXCEPT !.pc = "check", !.tries = c.tries + 1]
      BY <1>3, <2>1 DEF NotIssued
    <3>3. NotIssued(c) \in CommandOf
      BY <3>1, <3>2 DEF CommandOf, Places
    <3>4. /\ NotIssued(c).pc = "check" /\ NotIssued(c).old = c.old /\ NotIssued(c).host = c.host
      BY <3>1, <3>2 DEF CommandOf
    <3> QED
      BY <3>3, <3>4 DEF Follows, CommandOK
  <2>2. CASE ~(c.tries + 1 < SslAttempts)
    <3>1. NotIssued(c) = To(c, Thrown(c))
      BY <1>3, <2>2 DEF NotIssued
    <3>2. Thrown(c) \in (Places \cup {"live"}) \ {"replace", "relist", "pointed"}
      BY ThrownTo DEF Places
    <3> QED
      BY <3>1, <3>2, ToFollows
  <2> QED
    BY <2>1, <2>2
<1>4. CASE c.back \notin {"offer", "wait", "live"}
  <2>1. NotIssued(c) = NoCommand
    BY <1>4 DEF NotIssued
  <2> QED
    BY <2>1, NoCommandOK DEF Follows
<1> QED
  BY <1>1, <1>2, <1>3, <1>4

(* A step that leaves the records alone and goes on to what follows. *)
LEMMA QuietStep ==
  ASSUME IInv, NEW p \in Proc, NEW d, Follows(cmd[p], d), Keeps(p, d), records' = records, TypesOK, CountsOK
  PROVE  StepOK(p)
BY Quiet, SameRecords DEF Keeps, StepOK

LEMMA GoesFollows ==
  ASSUME IInv, NEW p \in Proc, cmd[p].pc # "idle", NEW pc \in (Places \cup {"live"}) \ {"replace", "relist", "pointed"}
  PROVE  Follows(cmd[p], To(cmd[p], pc))
BY CommandAt, ToFollows

(* Where a step that reads or writes no record may leave command p. *)
Onward(p) == \E d : Follows(cmd[p], d) /\ Keeps(p, d)

LEMMA GoesOnward ==
  ASSUME IInv, NEW p \in Proc, cmd[p].pc # "idle", NEW pc \in (Places \cup {"live"}) \ {"replace", "relist", "pointed"}, Goes(p, pc)
  PROVE  Onward(p)
BY GoesFollows DEF Goes, Onward

LEMMA LastOnward ==
  ASSUME IInv, NEW p \in Proc, cmd[p].pc # "idle", Goes(p, After(cmd[p])) \/ Goes(p, Thrown(cmd[p]))
  PROVE  Onward(p)
<1>1. After(cmd[p]) \in (Places \cup {"live"}) \ {"replace", "relist", "pointed"} /\ Thrown(cmd[p]) \in (Places \cup {"live"}) \ {"replace", "relist", "pointed"}
  BY ThrownTo DEF Places
<1> QED
  BY <1>1, GoesOnward

LEMMA FailsOnward ==
  ASSUME IInv, NEW p \in Proc, cmd[p].pc # "idle", Fails(p)
  PROVE  Onward(p)
BY CommandAt, NotIssuedFollows DEF Fails, Onward

LEMMA ManualOnward ==
  ASSUME IInv, NEW p \in Proc, cmd[p].pc # "idle", Manual(p)
  PROVE  Onward(p)
<1>1. CASE Goes(p, "wait")
  BY <1>1, GoesOnward DEF Places
<1>2. CASE Goes(p, After(cmd[p]))
  BY <1>2, LastOnward
<1> QED
  BY <1>1, <1>2 DEF Manual

LEMMA OnwardStep ==
  ASSUME IInv, NEW p \in Proc, Onward(p), records' = records, TypesOK, CountsOK
  PROVE  StepOK(p)
BY QuietStep DEF Onward
-----------------------------------------------------------------------------
(* The steps that touch no record. *)

LEMMA Typed ==
  ASSUME IInv, UNCHANGED <<on, cert, forced, dns, domain>>
  PROVE  TypesOK
BY DEF IInv, HostnamesTypeOK, TypesOK

LEMMA Counted ==
  ASSUME IInv, UNCHANGED <<orderly, commands>>, Sound \/ Faulty
  PROVE  CountsOK
<1>1. orderly' \in BOOLEAN
  BY Zenon DEF IInv, HostnamesTypeOK
<1>2. commands' \in Nat /\ faults' \in Nat
  BY DEF IInv, HostnamesTypeOK, Sound, Faulty
<1> QED
  BY <1>1, <1>2 DEF CountsOK

LEMMA BeginsStep ==
  ASSUME IInv, NEW p \in Proc, NEW c, CommandOK(c), c.old = None, c.pc \notin {"replace", "relist", "pointed"}, Begins(p, c)
  PROVE  StepOK(p)
<1>1. TypesOK
  BY Typed DEF Begins
<1>2. orderly' \in BOOLEAN
  BY Zenon DEF IInv, HostnamesTypeOK, Begins
<1>3. commands' \in Nat /\ faults' \in Nat
  BY DEF IInv, HostnamesTypeOK, Begins
<1>4. Follows(cmd[p], c) /\ Keeps(p, c)
  BY DEF Follows, Begins, Keeps
<1> QED
  BY <1>1, <1>2, <1>3, <1>4, QuietStep DEF CountsOK, Begins

LEMMA StartsStep ==
  ASSUME IInv, NEW p \in Proc, Starts(p)
  PROVE  StepOK(p)
<1>1. PICK h \in Host : Add(p, h) \/ Setup(p, h) \/ Ssl(p, h) \/ Remove(p, h)
  BY DEF Starts
<1> DEFINE add == [NoCommand EXCEPT !.pc = "attach", !.host = h, !.seen = domain]
           setup == [NoCommand EXCEPT !.pc = "attach", !.kind = "setup", !.host = h]
           ssl == [NoCommand EXCEPT !.pc = "check", !.kind = "ssl", !.host = h]
           remove == [NoCommand EXCEPT !.pc = "remove", !.kind = "remove", !.host = h, !.seen = domain]
<1>2. domain \in Host \cup {None}
  BY DEF IInv, HostnamesTypeOK
<1>3. \A c \in {add, setup, ssl, remove} : CommandOK(c) /\ c.old = None /\ c.pc \in {"attach", "check", "remove"}
  <2>1. CommandOK(add) /\ add.old = None /\ add.pc = "attach"
    BY <1>2 DEF CommandOK, NoCommand, CommandOf, Places
  <2>2. CommandOK(setup) /\ setup.old = None /\ setup.pc = "attach"
    BY <1>2 DEF CommandOK, NoCommand, CommandOf, Places
  <2>3. CommandOK(ssl) /\ ssl.old = None /\ ssl.pc = "check"
    BY <1>2 DEF CommandOK, NoCommand, CommandOf, Places
  <2>4. CommandOK(remove) /\ remove.old = None /\ remove.pc = "remove"
    BY <1>2 DEF CommandOK, NoCommand, CommandOf, Places
  <2> HIDE DEF add, setup, ssl, remove
  <2> QED
    BY <2>1, <2>2, <2>3, <2>4
<1>4. \E c \in {add, setup, ssl, remove} : Begins(p, c)
  BY <1>1 DEF Add, Setup, Ssl, Remove
<1> HIDE DEF add, setup, ssl, remove
<1> QED
  BY <1>3, <1>4, BeginsStep

LEMMA AttachStep ==
  ASSUME IInv, NEW p \in Proc, Attach(p)
  PROVE  StepOK(p)
<1>1. CommandOK(cmd[p]) /\ cmd[p] \in CommandOf /\ cmd[p].pc = "attach" /\ cmd[p].host \in Host
  BY CommandAt DEF Attach, At
<1>2. TypesOK
  BY DEF IInv, HostnamesTypeOK, TypesOK, Attach
<1>3. CountsOK
  BY Counted DEF Attach, Sound
<1>4. Onward(p)
  <2>1. CASE Goes(p, "look")
    BY <1>1, <2>1, GoesOnward DEF Places
  <2>2. CASE Keeps(p, [cmd[p] EXCEPT !.pc = "look", !.accepted = TRUE])
    <3>1. Follows(cmd[p], [cmd[p] EXCEPT !.pc = "look", !.accepted = TRUE])
      BY <1>1 DEF Follows, CommandOK, CommandOf, Places
    <3> QED
      BY <2>2, <3>1 DEF Onward
  <2> QED
    BY <2>1, <2>2 DEF Attach
<1> QED
  BY <1>2, <1>3, <1>4, OnwardStep DEF Attach

LEMMA LookStep ==
  ASSUME IInv, NEW p \in Proc, Look(p)
  PROVE  StepOK(p)
<1>1. CommandOK(cmd[p]) /\ cmd[p] \in CommandOf /\ cmd[p].pc = "look" /\ cmd[p].host \in Host
  BY CommandAt DEF Look, At
<1>2. TypesOK
  BY Typed DEF Look
<1>3. CountsOK
  BY Counted DEF Look, Sound
<1> DEFINE c == [cmd[p] EXCEPT !.accepted = FALSE]
           offer == [c EXCEPT !.pc = "offer"]
           issue == [c EXCEPT !.pc = "issue", !.back = "offer"]
<1>5. CommandOK(c) /\ c.pc = "look" /\ c.old = cmd[p].old /\ c.host = cmd[p].host
  BY <1>1 DEF CommandOK, CommandOf
<1>6. Follows(cmd[p], offer) /\ Follows(cmd[p], issue)
  BY <1>1 DEF Follows, CommandOK, CommandOf, Places
<1> HIDE DEF c, offer, issue
<1>7. ASSUME NEW pc \in {"record", "readback", "idle"}
      PROVE  Follows(cmd[p], To(c, pc))
  <2>1. pc \in (Places \cup {"live"}) \ {"replace", "relist", "pointed"}
    BY DEF Places
  <2>2. Follows(c, To(c, pc))
    BY <1>5, <2>1, ToFollows
  <2> QED
    BY <1>1, <1>5, <2>2 DEF Follows
<1>8. NotAttached(c) \subseteq {"readback", "idle"}
  BY DEF NotAttached
<1>9. \/ Keeps(p, offer) \/ Keeps(p, issue)
      \/ \E pc \in {"record", "readback", "idle"} : Keeps(p, To(c, pc))
  BY <1>8 DEF Look, c, offer, issue
<1>4. Onward(p)
  BY <1>6, <1>7, <1>9 DEF Onward
<1> QED
  BY <1>2, <1>3, <1>4, OnwardStep DEF Look

LEMMA OfferStep ==
  ASSUME IInv, NEW p \in Proc, Offer(p)
  PROVE  StepOK(p)
<1>1. CommandOK(cmd[p]) /\ cmd[p] \in CommandOf /\ cmd[p].pc = "offer" /\ cmd[p].host \in Host
  BY CommandAt DEF Offer, At
<1>2. TypesOK
  BY Typed DEF Offer
<1>3. CountsOK
  BY Counted DEF Offer, Sound
<1>4. Onward(p)
  <2>1. CASE Goes(p, "find") \/ Goes(p, "wait")
    BY <1>1, <2>1, GoesOnward DEF Places
  <2>2. CASE Goes(p, After(cmd[p]))
    BY <1>1, <2>2, LastOnward
  <2> QED
    BY <2>1, <2>2 DEF Offer
<1> QED
  BY <1>2, <1>3, <1>4, OnwardStep DEF Offer

LEMMA CheckStep ==
  ASSUME IInv, NEW p \in Proc, Check(p)
  PROVE  StepOK(p)
<1>1. CommandOK(cmd[p]) /\ cmd[p] \in CommandOf /\ cmd[p].pc = "check" /\ cmd[p].host \in Host
  BY CommandAt DEF Check, At
<1>2. TypesOK
  BY Typed DEF Check
<1>3. CountsOK
  BY Counted DEF Check, Sound
<1>4. Onward(p)
  <2>1. CASE Goes(p, "issue")
    BY <1>1, <2>1, GoesOnward DEF Places
  <2>2. CASE Fails(p)
    BY <1>1, <2>2, FailsOnward
  <2> QED
    BY <2>1, <2>2 DEF Check
<1> QED
  BY <1>2, <1>3, <1>4, OnwardStep DEF Check

LEMMA IssueStep ==
  ASSUME IInv, NEW p \in Proc, Issue(p)
  PROVE  StepOK(p)
<1>1. CommandOK(cmd[p]) /\ cmd[p] \in CommandOf /\ cmd[p].pc = "issue" /\ cmd[p].host \in Host
  BY CommandAt DEF Issue, At
<1>2. TypesOK
  BY <1>1 DEF IInv, HostnamesTypeOK, TypesOK, Issue
<1>3. CountsOK
  BY Counted DEF Issue, Sound
<1>4. Onward(p)
  <2>1. CASE Goes(p, "certified")
    BY <1>1, <2>1, GoesOnward DEF Places
  <2>2. CASE Fails(p)
    BY <1>1, <2>2, FailsOnward
  <2> QED
    BY <2>1, <2>2 DEF Issue
<1> QED
  BY <1>2, <1>3, <1>4, OnwardStep DEF Issue

LEMMA CertifiedStep ==
  ASSUME IInv, NEW p \in Proc, Certified(p)
  PROVE  StepOK(p)
<1>1. CommandOK(cmd[p]) /\ cmd[p] \in CommandOf /\ cmd[p].pc = "certified" /\ cmd[p].host \in Host
  BY CommandAt DEF Certified, At
<1>2. TypesOK
  BY Typed DEF Certified
<1>3. CountsOK
  BY Counted DEF Certified, Sound
<1>4. Onward(p)
  <2>1. CASE Goes(p, "force")
    BY <1>1, <2>1, GoesOnward DEF Places
  <2>2. CASE Fails(p)
    BY <1>1, <2>2, FailsOnward
  <2>3. CASE Keeps(p, [cmd[p] EXCEPT !.pc = "force", !.blind = TRUE])
    <3>1. Follows(cmd[p], [cmd[p] EXCEPT !.pc = "force", !.blind = TRUE])
      BY <1>1 DEF Follows, CommandOK, CommandOf, Places
    <3> QED
      BY <2>3, <3>1 DEF Onward
  <2> QED
    BY <2>1, <2>2, <2>3 DEF Certified
<1> QED
  BY <1>2, <1>3, <1>4, OnwardStep DEF Certified

LEMMA ForceSslStep ==
  ASSUME IInv, NEW p \in Proc, NEW force \in BOOLEAN, ForceSsl(p, force)
  PROVE  StepOK(p)
<1>1. CommandOK(cmd[p]) /\ cmd[p] \in CommandOf /\ cmd[p].pc = "force" /\ cmd[p].host \in Host
  BY CommandAt DEF ForceSsl, At
<1>2. TypesOK
  BY <1>1 DEF IInv, HostnamesTypeOK, TypesOK, ForceSsl
<1>3. CountsOK
  BY Counted DEF ForceSsl, Sound
<1>4. Onward(p)
  <2>1. CASE Goes(p, After(cmd[p]))
    BY <1>1, <2>1, LastOnward
  <2>2. CASE Fails(p)
    BY <1>1, <2>2, FailsOnward
  <2> QED
    BY <2>1, <2>2 DEF ForceSsl
<1> QED
  BY <1>2, <1>3, <1>4, OnwardStep DEF ForceSsl

LEMMA TickStep ==
  ASSUME IInv, NEW p \in Proc, Tick(p)
  PROVE  StepOK(p)
<1>1. CommandOK(cmd[p]) /\ cmd[p] \in CommandOf /\ cmd[p].pc = "wait" /\ cmd[p].host \in Host
  BY CommandAt DEF Tick, At
<1>2. TypesOK
  BY Typed DEF Tick
<1>3. CountsOK
  BY Counted DEF Tick, Sound
<1>5. cmd[p].tick + 1 \in Nat
  BY <1>1 DEF CommandOf
<1> DEFINE try == [cmd[p] EXCEPT !.pc = "check", !.back = "wait"]
           next == [cmd[p] EXCEPT !.tick = cmd[p].tick + 1]
<1>6. Follows(cmd[p], try)
  BY <1>1 DEF Follows, CommandOK, CommandOf, Places
<1>7. next \in CommandOf /\ next.pc = "wait" /\ next.old = cmd[p].old /\ next.host = cmd[p].host
  BY <1>1, <1>5 DEF CommandOf
<1>8. Goes(p, "live") \/ Keeps(p, try) \/ Keeps(p, next)
  BY DEF Tick
<1> HIDE DEF try, next
<1>4. Onward(p)
  <2>1. CASE Goes(p, "live")
    BY <1>1, <2>1, GoesOnward DEF Places
  <2>2. CASE Keeps(p, next)
    BY <1>1, <1>7, <2>2 DEF Follows, CommandOK, Onward
  <2> QED
    BY <1>6, <1>8, <2>1, <2>2 DEF Onward
<1> QED
  BY <1>2, <1>3, <1>4, OnwardStep DEF Tick

LEMMA GiveUpStep ==
  ASSUME IInv, NEW p \in Proc, GiveUp(p)
  PROVE  StepOK(p)
<1>1. CommandOK(cmd[p]) /\ cmd[p] \in CommandOf /\ cmd[p].pc = "wait" /\ cmd[p].host \in Host
  BY CommandAt DEF GiveUp, At
<1>2. TypesOK
  BY Typed DEF GiveUp
<1>3. CountsOK
  BY Counted DEF GiveUp, Sound
<1>4. Onward(p)
  BY <1>1, LastOnward DEF GiveUp
<1> QED
  BY <1>2, <1>3, <1>4, OnwardStep DEF GiveUp

LEMMA OfferZoneStep ==
  ASSUME IInv, NEW p \in Proc, OfferZone(p)
  PROVE  StepOK(p)
<1>1. CommandOK(cmd[p]) /\ cmd[p] \in CommandOf /\ cmd[p].pc = "zone" /\ cmd[p].host \in Host
  BY CommandAt DEF OfferZone, At
<1>2. TypesOK
  BY <1>1 DEF IInv, HostnamesTypeOK, TypesOK, OfferZone
<1>3. CountsOK
  BY Counted DEF OfferZone, Sound
<1>4. Onward(p)
  <2>1. CASE Manual(p)
    BY <1>1, <2>1, ManualOnward
  <2>2. CASE Keeps(p, [cmd[p] EXCEPT !.pc = "point", !.old = None, !.delegated = TRUE])
    <3>1. Follows(cmd[p], [cmd[p] EXCEPT !.pc = "point", !.old = None, !.delegated = TRUE])
      BY <1>1 DEF Follows, CommandOK, CommandOf, Places
    <3> QED
      BY <2>2, <3>1 DEF Onward
  <2>3. CASE Goes(p, Thrown(cmd[p]))
    BY <1>1, <2>3, LastOnward
  <2> QED
    BY <2>1, <2>2, <2>3 DEF OfferZone
<1> QED
  BY <1>2, <1>3, <1>4, OnwardStep DEF OfferZone

LEMMA PointedStep ==
  ASSUME IInv, NEW p \in Proc, Pointed(p)
  PROVE  StepOK(p)
<1>1. CommandOK(cmd[p]) /\ cmd[p] \in CommandOf /\ cmd[p].pc = "pointed" /\ cmd[p].host \in Host
  BY CommandAt DEF Pointed, At
<1>2. TypesOK
  BY Typed DEF Pointed
<1>3. CountsOK
  BY Counted DEF Pointed, Sound
<1>4. Onward(p)
  <2>1. CASE Goes(p, "live")
    BY <1>1, <2>1, GoesOnward DEF Places
  <2>2. CASE Goes(p, After(cmd[p]))
    BY <1>1, <2>2, LastOnward
  <2> QED
    BY <2>1, <2>2 DEF Pointed
<1> QED
  BY <1>2, <1>3, <1>4, OnwardStep DEF Pointed

LEMMA ReadbackStep ==
  ASSUME IInv, NEW p \in Proc, Readback(p)
  PROVE  StepOK(p)
<1>1. CommandOK(cmd[p]) /\ cmd[p] \in CommandOf /\ cmd[p].pc = "readback" /\ cmd[p].host \in Host
  BY CommandAt DEF Readback, At
<1>2. TypesOK
  BY Typed DEF Readback
<1>3. CountsOK
  BY Counted DEF Readback, Sound
<1>4. Onward(p)
  <2>1. Goes(p, "record") \/ Goes(p, "idle")
    BY DEF Readback
  <2> QED
    BY <1>1, <2>1, GoesOnward DEF Places
<1> QED
  BY <1>2, <1>3, <1>4, OnwardStep DEF Readback

LEMMA RecordDomainStep ==
  ASSUME IInv, NEW p \in Proc, RecordDomain(p)
  PROVE  StepOK(p)
<1>1. CommandOK(cmd[p]) /\ cmd[p] \in CommandOf /\ cmd[p].pc = "record" /\ cmd[p].host \in Host
  BY CommandAt DEF RecordDomain, At
<1>2. TypesOK
  BY <1>1 DEF IInv, HostnamesTypeOK, TypesOK, RecordDomain
<1>3. CountsOK
  BY Counted DEF RecordDomain, Sound
<1>4. Onward(p)
  BY <1>1, GoesOnward DEF Places, RecordDomain
<1> QED
  BY <1>2, <1>3, <1>4, OnwardStep DEF RecordDomain

LEMMA DiesStep ==
  ASSUME IInv, NEW p \in Proc, Dies(p)
  PROVE  StepOK(p)
<1>1. CommandOK(cmd[p]) /\ cmd[p].pc # "idle" /\ cmd[p].host \in Host
  BY CommandAt DEF Dies, At, Idle
<1>2. TypesOK
  BY Typed DEF Dies
<1>5. orderly' \in BOOLEAN
  BY Zenon DEF IInv, HostnamesTypeOK, Dies
<1>6. CountsOK
  BY <1>5 DEF CountsOK, IInv, HostnamesTypeOK, Dies, Sound, Faulty
<1>4. Onward(p)
  BY <1>1, GoesOnward DEF Places, Dies
<1> QED
  BY <1>2, <1>4, <1>6, OnwardStep DEF Dies

LEMMA RemoveHostnameStep ==
  ASSUME IInv, NEW p \in Proc, RemoveHostname(p)
  PROVE  StepOK(p)
<1>1. CommandOK(cmd[p]) /\ cmd[p].pc # "idle" /\ cmd[p].host \in Host
  BY CommandAt DEF RemoveHostname, At, Idle
<1>2. TypesOK
  BY <1>1 DEF IInv, HostnamesTypeOK, TypesOK, RemoveHostname
<1>5. orderly' \in BOOLEAN
  BY Zenon DEF IInv, HostnamesTypeOK, RemoveHostname
<1>6. CountsOK
  BY <1>5 DEF CountsOK, IInv, HostnamesTypeOK, RemoveHostname, Sound, Faulty
<1>4. Onward(p)
  BY <1>1, GoesOnward DEF Places, RemoveHostname
<1> QED
  BY <1>2, <1>4, <1>6, OnwardStep DEF RemoveHostname

LEMMA UnhookStep ==
  ASSUME IInv, NEW p \in Proc, Unhook(p)
  PROVE  StepOK(p)
<1>1. CommandOK(cmd[p]) /\ cmd[p].pc # "idle" /\ cmd[p].host \in Host
  BY CommandAt DEF Unhook, At, Idle
<1>2. TypesOK
  BY <1>1 DEF IInv, HostnamesTypeOK, TypesOK, Unhook
<1>5. orderly' \in BOOLEAN
  BY Zenon DEF IInv, HostnamesTypeOK, Unhook
<1>6. CountsOK
  BY <1>5 DEF CountsOK, IInv, HostnamesTypeOK, Unhook, Sound, Faulty
<1>4. Onward(p)
  BY <1>1, GoesOnward DEF Places, Unhook
<1> QED
  BY <1>2, <1>4, <1>6, OnwardStep DEF Unhook

-----------------------------------------------------------------------------
(* The steps that read or write records. *)

LEMMA ChangingStep ==
  ASSUME IInv, NEW p \in Proc, NEW d, Keeps(p, d), CommandOK(d), d.pc # "idle" => Knows(d, records[d.host]),
         RecordsOK, TypesOK, CountsOK
  PROVE  StepOK(p)
<1>1. ASSUME d.pc # "idle"
      PROVE  Knows(d, records'[d.host])
  <2>1. d.host \in Host /\ d \in CommandOf
    BY <1>1 DEF CommandOK
  <2>2. records[d.host] \in SUBSET RecordsOf /\ OwnIds(records[d.host]) /\ Changes(records[d.host], records'[d.host])
    BY <2>1, CommandAt DEF RecordsOK
  <2> QED
    BY <1>1, <2>1, <2>2, KnowsStays
<1> QED
  BY <1>1 DEF StepOK, CommandNow, Keeps

LEMMA FollowsKnows ==
  ASSUME IInv, NEW p \in Proc, NEW d, Follows(cmd[p], d)
  PROVE  CommandOK(d) /\ Knows(d, records[d.host])
<1>1. CASE d.old = None
  BY <1>1, NothingOld DEF Follows
<1>2. CASE d.old = cmd[p].old /\ d.host = cmd[p].host /\ cmd[p].pc # "idle"
  <2>1. Knows(cmd[p], records[d.host])
    BY <1>2, CommandAt
  <2> QED
    BY <1>2, <2>1 DEF Knows, Lasting, Removing, Follows
<1> QED
  BY <1>1, <1>2 DEF Follows

LEMMA OnwardChanging ==
  ASSUME IInv, NEW p \in Proc, Onward(p), RecordsOK, TypesOK, CountsOK
  PROVE  StepOK(p)
<1>1. PICK d : Follows(cmd[p], d) /\ Keeps(p, d)
  BY DEF Onward
<1> QED
  BY <1>1, FollowsKnows, ChangingStep

LEMMA FindStep ==
  ASSUME IInv, NEW p \in Proc, Find(p)
  PROVE  StepOK(p)
<1>1. CommandOK(cmd[p]) /\ cmd[p] \in CommandOf /\ cmd[p].pc = "find" /\ cmd[p].host \in Host
  BY CommandAt DEF Find, At
<1>2. TypesOK /\ CountsOK /\ RecordsOK
  <2>1. CountsOK
    BY Counted DEF Find, Sound
  <2> QED
    BY <2>1, Typed, SameRecords DEF Find
<1>3. CASE Manual(p)
  BY <1>1, <1>2, <1>3, ManualOnward, OnwardChanging
<1>4. CASE Goes(p, "zone")
  <2>1. Onward(p)
    BY <1>1, <1>4, GoesOnward DEF Places
  <2> QED
    BY <1>2, <2>1, OnwardChanging
<1>5. ASSUME NEW r \in IF records[cmd[p].host] = {} THEN {None} ELSE records[cmd[p].host],
             NEW u \in BOOLEAN,
             Keeps(p, [cmd[p] EXCEPT !.pc = "point", !.old = r, !.delegated = u])
      PROVE  StepOK(p)
  <2> DEFINE d == [cmd[p] EXCEPT !.pc = "point", !.old = r, !.delegated = u]
  <2>1. r \in RecordsOf \cup {None} /\ (r # None => r \in records[cmd[p].host])
    BY <1>1, CommandAt
  <2>2. CommandOK(d) /\ d.pc = "point" /\ d.old = r /\ d.host = cmd[p].host
    BY <1>1, <2>1 DEF CommandOK, CommandOf, Places
  <2> HIDE DEF d
  <2>3. Knows(d, records[d.host])
    BY <2>1, <2>2 DEF Knows, Lasting, Still, Removing
  <2>4. Keeps(p, d)
    BY <1>5 DEF d
  <2> QED
    BY <1>2, <2>2, <2>3, <2>4, ChangingStep
<1>6. (dns[cmd[p].host] = "delegated") \in BOOLEAN
  OBVIOUS
<1> QED
  BY <1>3, <1>4, <1>5, <1>6 DEF Find

LEMMA PointStep ==
  ASSUME IInv, NEW p \in Proc, Point(p)
  PROVE  StepOK(p)
<1> DEFINE c == cmd[p]
           h == cmd[p].host
           AddsOne == \E i \in Fresh(h) : records' = [records EXCEPT ![h] = @ \cup {Record(i, "pull", TRUE, TRUE)}]
           TurnsOld == records' = [records EXCEPT ![h] = {IF r.id = c.old.id THEN [r EXCEPT !.here = TRUE] ELSE r : r \in @}]
<1>1. CommandOK(c) /\ c \in CommandOf /\ c.pc = "point" /\ h \in Host /\ Knows(c, records[h])
  BY CommandAt DEF Point, At
<1>2. TypesOK
  BY Typed DEF Point
<1>3. CountsOK
  BY Counted DEF Point, Sound
<1>4. records = [g \in Host |-> records[g]]
  BY DEF IInv, HostnamesTypeOK
<1>5. CASE c.old # None /\ Routes(c.old) /\ Goes(p, "pointed") /\ UNCHANGED records
  <2> DEFINE d == To(c, "pointed")
  <2>1. d = [c EXCEPT !.pc = "pointed"]
    BY DEF To
  <2>2. CommandOK(d) /\ d.pc = "pointed" /\ d.old = c.old /\ d.host = h
    BY <1>1, <2>1 DEF CommandOK, CommandOf, Places
  <2>3. Keeps(p, d)
    BY <1>5 DEF Goes
  <2> HIDE DEF d
  <2>4. Still(c.old, records[h])
    BY <1>1, <1>5 DEF Knows, Lasting, Routes
  <2>5. Routed(records[h])
    BY <1>5, <2>4 DEF Still, Routed, Routes
  <2>6. Knows(d, records[d.host])
    BY <1>1, <1>5, <2>2, <2>5 DEF Knows, Lasting, Removing, Routes
  <2>7. RecordsOK
    BY <1>5, SameRecords
  <2> QED
    BY <1>2, <1>3, <2>2, <2>3, <2>6, <2>7, ChangingStep
<1>6. CASE Manual(p) /\ UNCHANGED records
  BY <1>1, <1>2, <1>3, <1>6, ManualOnward, SameRecords, OnwardChanging
<1>7. ASSUME Goes(p, "verify") \/ Goes(p, Thrown(c)), RecordsOK
      PROVE  StepOK(p)
  <2>1. Onward(p)
    <3>1. CASE Goes(p, "verify")
      BY <1>1, <3>1, GoesOnward DEF Places
    <3>2. CASE Goes(p, Thrown(c))
      BY <1>1, <3>2, LastOnward
    <3> QED
      BY <1>7, <3>1, <3>2
  <2> QED
    BY <1>2, <1>3, <1>7, <2>1, OnwardChanging
<1>8. ASSUME AddsOne
      PROVE  RecordsOK
  <2>1. PICK i \in Fresh(h) : records' = [records EXCEPT ![h] = @ \cup {Record(i, "pull", TRUE, TRUE)}]
    BY <1>8
  <2>2. Added(records[h], records'[h])
    BY <1>1, <1>4, <2>1 DEF Added, Fresh
  <2>3. \A g \in Host \ {h} : records'[g] = records[g]
    BY <1>1, <1>4, <2>1
  <2>4. records' = [g \in Host |-> records'[g]]
    BY <1>4, <2>1
  <2> QED
    BY <2>2, <2>3, <2>4 DEF RecordsOK, Changes
<1>9. ASSUME TurnsOld, c.old # None, c.old.type = "pull"
      PROVE  RecordsOK
  <2>1. PICK r \in records[h] : r.id = c.old.id /\ r.type = "pull"
    BY <1>1, <1>9 DEF Knows, Lasting, Still
  <2>2. c.old.id \in RecordId
    BY <1>1, <1>9 DEF CommandOf, RecordsOf
  <2>3. records'[h] = {IF s.id = c.old.id THEN [s EXCEPT !.here = TRUE] ELSE s : s \in records[h]}
    BY <1>1, <1>4, <1>9
  <2>4. Turned(records[h], records'[h])
    BY <2>1, <2>2, <2>3 DEF Turned
  <2>5. \A g \in Host \ {h} : records'[g] = records[g]
    BY <1>1, <1>4, <1>9
  <2>6. records' = [g \in Host |-> records'[g]]
    BY <1>4, <1>9
  <2> QED
    BY <2>4, <2>5, <2>6 DEF RecordsOK, Changes
<1>10. UNCHANGED records => RecordsOK
  BY SameRecords
<1>11. \/ c.old # None /\ Routes(c.old) /\ Goes(p, "pointed") /\ UNCHANGED records
       \/ Manual(p) /\ UNCHANGED records
       \/ (AddsOne \/ UNCHANGED records) /\ (Goes(p, "verify") \/ Goes(p, Thrown(c)))
       \/ c.old # None /\ c.old.type = "pull" /\ (TurnsOld \/ UNCHANGED records) /\ (Goes(p, "verify") \/ Goes(p, Thrown(c)))
  BY DEF Point
<1> HIDE DEF c, h, AddsOne, TurnsOld
<1> QED
  BY <1>5, <1>6, <1>7, <1>8, <1>9, <1>10, <1>11

LEMMA VerifyStep ==
  ASSUME IInv, NEW p \in Proc, Verify(p)
  PROVE  StepOK(p)
<1> DEFINE c == cmd[p]
<1>1. CommandOK(c) /\ c \in CommandOf /\ c.pc = "verify" /\ c.host \in Host /\ Knows(c, records[c.host])
  BY CommandAt DEF Verify, At
<1>2. TypesOK /\ CountsOK /\ RecordsOK
  <2>1. CountsOK
    BY Counted DEF Verify, Sound
  <2> QED
    BY <2>1, Typed, SameRecords DEF Verify
<1>3. CASE Goes(p, Thrown(c))
  BY <1>1, <1>2, <1>3, LastOnward, OnwardChanging
<1>4. ASSUME NEW pc \in {"replace", "pointed"}, Goes(p, pc), Routed(records[c.host]),
             pc = "replace" <=> c.old # None /\ c.old.type = "other"
      PROVE  StepOK(p)
  <2> DEFINE d == To(c, pc)
  <2>1. d = [c EXCEPT !.pc = pc]
    <3>1. pc \notin {"idle", "readback", "record", "live"}
      BY <1>4
    <3> QED
      BY <3>1 DEF To
  <2>2. CommandOK(d) /\ d.pc = pc /\ d.old = c.old /\ d.host = c.host
    BY <1>1, <2>1 DEF CommandOK, CommandOf, Places
  <2>3. Keeps(p, d)
    BY <1>4 DEF Goes
  <2> HIDE DEF d
  <2>4. Knows(d, records[d.host])
    BY <1>1, <1>4, <2>2 DEF Knows, Lasting, Removing
  <2> QED
    BY <1>2, <2>2, <2>3, <2>4, ChangingStep
<1>5. \/ Goes(p, Thrown(c))
      \/ Routed(records[c.host]) /\ c.old # None /\ c.old.type = "other" /\ Goes(p, "replace")
      \/ Routed(records[c.host]) /\ ~(c.old # None /\ c.old.type = "other") /\ Goes(p, "pointed")
  <2>1. CASE Goes(p, Thrown(c))
    BY <2>1
  <2>2. CASE Goes(p, IF \A r \in records[c.host] : ~Routes(r) THEN Thrown(c)
                         ELSE IF c.old # None /\ c.old.type = "other" THEN "replace" ELSE "pointed")
    <3>1. CASE \A r \in records[c.host] : ~Routes(r)
      BY <2>2, <3>1
    <3>2. CASE ~\A r \in records[c.host] : ~Routes(r)
      <4>1. Routed(records[c.host])
        BY <3>2 DEF Routed
      <4>2. CASE c.old # None /\ c.old.type = "other"
        BY <2>2, <3>2, <4>1, <4>2
      <4>3. CASE ~(c.old # None /\ c.old.type = "other")
        BY <2>2, <3>2, <4>1, <4>3
      <4> QED
        BY <4>2, <4>3
    <3> QED
      BY <3>1, <3>2
  <2> QED
    BY <2>1, <2>2 DEF Verify
<1> HIDE DEF c
<1> QED
  BY <1>3, <1>4, <1>5

LEMMA ReplaceStep ==
  ASSUME IInv, NEW p \in Proc, Replace(p)
  PROVE  StepOK(p)
<1> DEFINE c == cmd[p]
           h == cmd[p].host
<1>1. CommandOK(c) /\ c \in CommandOf /\ c.pc = "replace" /\ h \in Host /\ Knows(c, records[h])
  BY CommandAt DEF Replace, At
<1>2. TypesOK /\ CountsOK
  <2>1. CountsOK
    BY Counted DEF Replace, Sound
  <2> QED
    BY <2>1, Typed DEF Replace
<1>3. c.old # None /\ c.old.type = "other" /\ Routed(records[h])
  BY <1>1 DEF Knows, Removing
<1>4. records = [g \in Host |-> records[g]]
  BY DEF IInv, HostnamesTypeOK
<1>5. ASSUME records' = [records EXCEPT ![h] = Unrecorded(c)]
      PROVE  RecordsOK /\ c.old \notin records'[h]
  <2>1. records'[h] = records[h] \ {c.old}
    BY <1>1, <1>4, <1>5 DEF Unrecorded
  <2>2. Removed(records[h], records'[h])
    BY <1>3, <2>1 DEF Removed
  <2>3. \A g \in Host \ {h} : records'[g] = records[g]
    BY <1>1, <1>4, <1>5
  <2>4. records' = [g \in Host |-> records'[g]]
    BY <1>4, <1>5
  <2> QED
    BY <2>1, <2>2, <2>3, <2>4 DEF RecordsOK, Changes
<1>6. CASE records' = [records EXCEPT ![h] = Unrecorded(c)] /\ Goes(p, "pointed")
  <2> DEFINE d == To(c, "pointed")
  <2>1. d = [c EXCEPT !.pc = "pointed"]
    BY DEF To
  <2>2. CommandOK(d) /\ d.pc = "pointed" /\ d.old = c.old /\ d.host = h
    BY <1>1, <2>1 DEF CommandOK, CommandOf, Places
  <2>3. Keeps(p, d)
    BY <1>6 DEF Goes
  <2> HIDE DEF d
  <2>4. RecordsOK /\ c.old \notin records'[h]
    BY <1>5, <1>6
  <2>5. Routed(records'[h])
    <3>1. Changes(records[h], records'[h])
      BY <1>1, <2>4 DEF RecordsOK
    <3> QED
      BY <1>1, <1>3, <3>1, CommandAt, ChangesKeep
  <2>6. Knows(d, records'[d.host])
    BY <1>3, <2>2, <2>4, <2>5 DEF Knows, Lasting, Removing
  <2> QED
    BY <1>2, <2>2, <2>3, <2>4, <2>6 DEF StepOK, CommandNow, Keeps
<1>7. CASE records' \in {records, [records EXCEPT ![h] = Unrecorded(c)]} /\ Goes(p, "relist")
  <2> DEFINE d == To(c, "relist")
  <2>1. d = [c EXCEPT !.pc = "relist"]
    BY DEF To
  <2>2. CommandOK(d) /\ d.pc = "relist" /\ d.old = c.old /\ d.host = h
    BY <1>1, <2>1 DEF CommandOK, CommandOf, Places
  <2>3. Keeps(p, d)
    BY <1>7 DEF Goes
  <2> HIDE DEF d
  <2>4. RecordsOK
    BY <1>5, <1>7, SameRecords
  <2>5. Knows(d, records[d.host])
    BY <1>1, <1>3, <2>2 DEF Knows, Lasting, Removing
  <2> QED
    BY <1>2, <2>2, <2>3, <2>4, <2>5, ChangingStep
<1> QED
  BY <1>6, <1>7 DEF Replace

LEMMA RelistStep ==
  ASSUME IInv, NEW p \in Proc, Relist(p)
  PROVE  StepOK(p)
<1> DEFINE c == cmd[p]
<1>1. CommandOK(c) /\ c \in CommandOf /\ c.pc = "relist" /\ c.host \in Host /\ Knows(c, records[c.host])
  BY CommandAt DEF Relist, At
<1>2. TypesOK /\ CountsOK /\ RecordsOK
  <2>1. CountsOK
    BY Counted DEF Relist, Sound
  <2> QED
    BY <2>1, Typed, SameRecords DEF Relist
<1>3. CASE Goes(p, Thrown(c))
  BY <1>1, <1>2, <1>3, LastOnward, OnwardChanging
<1>4. CASE Unrecorded(c) = records[c.host] /\ Goes(p, "pointed")
  <2> DEFINE d == To(c, "pointed")
  <2>1. d = [c EXCEPT !.pc = "pointed"]
    BY DEF To
  <2>2. CommandOK(d) /\ d.pc = "pointed" /\ d.old = c.old /\ d.host = c.host
    BY <1>1, <2>1 DEF CommandOK, CommandOf, Places
  <2>3. Keeps(p, d)
    BY <1>4 DEF Goes
  <2> HIDE DEF d
  <2>4. c.old \notin records[c.host]
    BY <1>4 DEF Unrecorded
  <2>5. Knows(d, records[d.host])
    BY <1>1, <2>2, <2>4 DEF Knows, Lasting, Removing
  <2> QED
    BY <1>2, <2>2, <2>3, <2>5, ChangingStep
<1>5. Goes(p, Thrown(c)) \/ (Unrecorded(c) = records[c.host] /\ Goes(p, "pointed"))
  BY DEF Relist
<1> QED
  BY <1>3, <1>4, <1>5

-----------------------------------------------------------------------------
(* Every step, and the theorems. *)

LEMMA StepsOK ==
  ASSUME IInv, NEW p \in Proc, Starts(p) \/ Steps(p) \/ Dies(p)
  PROVE  StepOK(p)
<1>1. CASE Starts(p)
  BY <1>1, StartsStep
<1>2. CASE Dies(p)
  BY <1>2, DiesStep
<1>3. CASE Steps(p)
  <2>1. CASE Attach(p) \/ Look(p) \/ Offer(p) \/ Check(p) \/ Issue(p) \/ Certified(p) \/ Tick(p) \/ GiveUp(p)
    BY <2>1, AttachStep, LookStep, OfferStep, CheckStep, IssueStep, CertifiedStep, TickStep, GiveUpStep
  <2>2. CASE \E force \in BOOLEAN : ForceSsl(p, force)
    BY <2>2, ForceSslStep
  <2>3. CASE Find(p) \/ OfferZone(p) \/ Point(p) \/ Verify(p) \/ Replace(p) \/ Relist(p) \/ Pointed(p)
    BY <2>3, FindStep, OfferZoneStep, PointStep, VerifyStep, ReplaceStep, RelistStep, PointedStep
  <2>4. CASE Readback(p) \/ RecordDomain(p) \/ RemoveHostname(p) \/ Unhook(p)
    BY <2>4, ReadbackStep, RecordDomainStep, RemoveHostnameStep, UnhookStep
  <2> QED
    BY <1>3, <2>1, <2>2, <2>3, <2>4 DEF Steps
<1> QED
  BY <1>1, <1>2, <1>3

LEMMA NextStep ==
  ASSUME IInv, HostnamesNext
  PROVE  \E p \in Proc : StepOK(p)
BY StepsOK DEF HostnamesNext

LEMMA InitOK == HostnamesInit => IInv
<1> SUFFICES ASSUME HostnamesInit
             PROVE  IInv
  OBVIOUS
<1>1. First \in RecordId
  BY DEF First
<1>2. PICK t \in {"pull", "other"}, e \in BOOLEAN : \E old \in {{}, {Record(First, t, FALSE, e)}} :
         records = [h \in Host |-> IF dns[h] \in {"undelegated", "delegated"} THEN old ELSE {}]
  BY DEF HostnamesInit
<1>3. PICK old \in {{}, {Record(First, t, FALSE, e)}} :
         records = [h \in Host |-> IF dns[h] \in {"undelegated", "delegated"} THEN old ELSE {}]
  BY <1>2
<1>11. old \in SUBSET RecordsOf /\ OwnIds(old)
  <2>1. Record(First, t, FALSE, e) \in RecordsOf
    BY <1>1 DEF RecordsOf, Record
  <2> QED
    BY <2>1 DEF OwnIds
<1>4. records \in [Host -> SUBSET RecordsOf] /\ \A h \in Host : OwnIds(records[h])
  <2>1. {} \in SUBSET RecordsOf /\ OwnIds({})
    BY DEF OwnIds
  <2> QED
    BY <1>3, <1>11, <2>1
<1>5. cmd \in [Proc -> CommandOf] /\ \A p \in Proc : cmd[p] = NoCommand /\ CommandOK(cmd[p]) /\ cmd[p].pc = "idle"
  <2>1. cmd = [p \in Proc |-> NoCommand]
    BY DEF HostnamesInit
  <2>2. NoCommand \in CommandOf
    BY NoCommandOK DEF CommandOK
  <2> QED
    BY <2>1, <2>2, NoCommandOK
<1>6. dns \in [Host -> {"outside", "candidate", "undelegated", "delegated"}]
  BY DEF HostnamesInit
<1>7. on \in [Host -> {"none", "here", "elsewhere"}]
  BY DEF HostnamesInit
<1>8. cert \subseteq Host /\ forced \subseteq Host /\ domain \in Host \cup {None} /\ commands \in Nat /\ faults \in Nat
  BY DEF HostnamesInit
<1>9. orderly \in BOOLEAN
  BY Zenon DEF HostnamesInit
<1>10. HostnamesTypeOK
  BY <1>4, <1>5, <1>6, <1>7, <1>8, <1>9 DEF HostnamesTypeOK
<1> QED
  BY <1>4, <1>5, <1>10 DEF IInv

LEMMA StutterOK == IInv /\ UNCHANGED hosting => IInv'
BY DEF IInv, HostnamesTypeOK, hosting, Knows, Lasting, Still, Removing, Routed, OwnIds

LEMMA InvariantHolds == HostnamesSpec => []IInv
<1>1. IInv /\ [HostnamesNext]_hosting => IInv'
  BY NextStep, StepKeeps, StutterOK
<1> QED
  BY InitOK, <1>1, PTL DEF HostnamesSpec

(* Every variable keeps its type and a command at work its hostname, whatever commands overlap and fail. *)
THEOREM HostnamesTypeCorrect == HostnamesSpec => []HostnamesTypeOK
<1>1. IInv => HostnamesTypeOK
  BY DEF IInv
<1> QED
  BY InvariantHolds, <1>1, PTL

(* A command that says the name was pointed here left a record that routes here, and none of the type it was to replace: a record is only turned here, and one of another type removed, when one that routes here was read back, and no later command undoes it (bunny-dns.ts:133, bunny-dns.ts:204). *)
THEOREM PointedTruly == HostnamesSpec => []PointedRoutesHere
<1>1. IInv => PointedRoutesHere
  <2> SUFFICES ASSUME IInv, NEW p \in Proc, At(p, "pointed")
               PROVE  /\ \E r \in records[cmd[p].host] : Routes(r)
                      /\ cmd[p].old # None /\ cmd[p].old.type = "other" => cmd[p].old \notin records[cmd[p].host]
    BY DEF PointedRoutesHere
  <2>1. Knows(cmd[p], records[cmd[p].host]) /\ cmd[p].pc = "pointed"
    BY CommandAt DEF At
  <2> QED
    BY <2>1 DEF Knows, Routed
<1> QED
  BY InvariantHolds, <1>1, PTL

(* A name with an enabled record keeps one in every step of any commands, although the API ignores some writes and the type of a record cannot be changed (bunny-dns.ts:170). *)
THEOREM StaysRouted == HostnamesSpec => NeverUnrouted
<1>1. IInv /\ [HostnamesNext]_hosting =>
        [\A h \in Host : (\E r \in records[h] : r.enabled) => \E r \in records'[h] : r.enabled]_hosting
  <2> SUFFICES ASSUME IInv, HostnamesNext, NEW h \in Host, \E r \in records[h] : r.enabled
               PROVE  \E r \in records'[h] : r.enabled
    BY DEF hosting
  <2>1. Changes(records[h], records'[h])
    BY NextStep DEF StepOK, RecordsOK
  <2>2. records[h] \in SUBSET RecordsOf /\ OwnIds(records[h])
    BY DEF IInv, HostnamesTypeOK
  <2> QED
    BY <2>1, <2>2, ChangesKeep
<1> QED
  BY InvariantHolds, <1>1, PTL DEF HostnamesSpec, NeverUnrouted

-----------------------------------------------------------------------------
(* Commands that run one after another. *)

(* Between the added hostname and the last step. *)
Midway ==
  {"offer", "check", "issue", "certified", "force", "wait", "find", "zone", "point", "verify", "replace", "relist",
   "pointed"}

Issuing(c) == c.pc \in {"check", "issue", "certified", "force"}

Attaching(c) == c.kind \in {"add", "setup"}

(* What a command that nobody else ran beside knows of the pull zone, the certificates and the state file. *)
Tidy(c) ==
  /\ c.pc \in {"attach", "look"} => Attaching(c)
  /\ c.pc = "attach" => c.accepted = FALSE
  /\ c.pc = "look" /\ c.accepted => on[c.host] = "here"
  /\ c.pc \in Midway => (Attaching(c) => on[c.host] = "here") /\ c.kind # "remove"
  /\ Issuing(c) /\ c.kind = "add" => c.back # "idle"
  /\ c.pc = "force" => c.host \in cert \/ c.blind
  /\ c.pc = "readback" => c.kind = "setup"
  /\ c.pc = "record" => Attaching(c) /\ on[c.host] = "here"
  /\ c.pc \in {"remove", "unhook"} => c.kind = "remove"
  /\ c.pc # "idle" /\ c.kind \in {"add", "remove"} => c.seen = domain

(* The recorded domain is served here, or is about to be forgotten. *)
Placed == domain = None \/ on[domain] = "here" \/ \E p \in Proc : At(p, "unhook") /\ cmd[p].host = domain

AtMostOne == \A p, q \in Proc : Idle(p) \/ Idle(q) \/ p = q

Ordered == orderly => Placed /\ AtMostOne /\ \A p \in Proc : Tidy(cmd[p])

LEMMA TidyNone == Tidy(NoCommand) /\ Tidy(NoCommand)'
BY DEF Tidy, NoCommand, Midway, Issuing

(* How a command leaves a step between the added hostname and its last one. *)
GoesOn(c, d) ==
  /\ d.pc # "idle" => d.kind = c.kind /\ d.host = c.host /\ d.seen = c.seen
  /\ \/ d.pc \in Midway \cup {"idle"}
     \/ d.pc = "readback" /\ c.kind = "setup"
     \/ d.pc = "record" /\ c.kind = "add"
  /\ Issuing(d) /\ c.kind = "add" => d.back # "idle"
  /\ d.pc = "force" => c.host \in cert \/ d.blind
  /\ d.pc = "idle" /\ c.kind = "add" => c.host \in Wildcard \/ c.seen # None

LEMMA LastIs ==
  ASSUME NEW c
  PROVE  \A pc \in {After(c), Thrown(c)} :
           /\ pc \in {"idle", "record", "readback"}
           /\ pc = "readback" => c.kind = "setup"
           /\ pc = "record" => c.kind = "add"
           /\ pc = "idle" /\ c.kind = "add" => c.host \in Wildcard \/ c.seen # None
BY DEF After, Thrown, Hook

LEMMA LastGoes ==
  ASSUME NEW c, NEW pc \in {After(c), Thrown(c)}
  PROVE  GoesOn(c, To(c, pc))
<1>1. /\ pc \in {"idle", "record", "readback"}
      /\ pc = "readback" => c.kind = "setup"
      /\ pc = "record" => c.kind = "add"
      /\ pc = "idle" /\ c.kind = "add" => c.host \in Wildcard \/ c.seen # None
  BY LastIs
<1>2. CASE pc = "idle"
  <2>1. To(c, pc) = NoCommand
    BY <1>2 DEF To
  <2>2. QED
    BY <1>1, <1>2, <2>1 DEF GoesOn, NoCommand, Issuing
<1>3. CASE pc \in {"readback", "record"}
  <2> DEFINE d == [NoCommand EXCEPT !.pc = pc, !.kind = c.kind, !.host = c.host, !.seen = c.seen]
  <2>1. To(c, pc) = d
    BY <1>3 DEF To
  <2>2. d.pc = pc /\ d.kind = c.kind /\ d.host = c.host /\ d.seen = c.seen
    BY DEF NoCommand
  <2> HIDE DEF d
  <2>3. QED
    BY <1>1, <1>3, <2>1, <2>2 DEF GoesOn, Issuing
<1>4. QED
  BY <1>1, <1>2, <1>3

LEMMA ToGoes ==
  ASSUME NEW c \in CommandOf, Tidy(c), c.pc \in Midway,
         NEW pc \in (Midway \cup {"live"}) \ {"check"},
         pc \in {"issue", "certified", "force"} => Issuing(c),
         pc = "force" => c.host \in cert
  PROVE  GoesOn(c, To(c, pc))
<1>1. CASE pc = "live"
  <2> DEFINE d == [c EXCEPT !.pc = "check", !.back = "live", !.old = None, !.delegated = FALSE]
  <2>1. To(c, pc) = d
    BY <1>1 DEF To
  <2>2. d.pc = "check" /\ d.back = "live" /\ d.kind = c.kind /\ d.host = c.host /\ d.seen = c.seen
    BY DEF CommandOf
  <2> HIDE DEF d
  <2>3. QED
    BY <2>1, <2>2 DEF GoesOn, Midway
<1>2. CASE pc # "live"
  <2> DEFINE d == [c EXCEPT !.pc = pc]
  <2>1. To(c, pc) = d
    BY <1>2 DEF To, Midway
  <2>2. d.pc = pc /\ d.back = c.back /\ d.kind = c.kind /\ d.host = c.host /\ d.seen = c.seen
    BY DEF CommandOf
  <2> HIDE DEF d
  <2>3. QED
    BY <1>2, <2>1, <2>2 DEF GoesOn, Midway, Issuing, Tidy
<1>3. QED
  BY <1>1, <1>2

LEMMA NotIssuedGoes ==
  ASSUME NEW c \in CommandOf, Tidy(c), Issuing(c)
  PROVE  GoesOn(c, NotIssued(c))
<1>1. CASE c.back = "offer"
  <2> DEFINE d == [c EXCEPT !.pc = "offer", !.back = "idle"]
  <2>1. NotIssued(c) = d
    BY <1>1 DEF NotIssued
  <2>2. d.pc = "offer" /\ d.kind = c.kind /\ d.host = c.host /\ d.seen = c.seen
    BY DEF CommandOf
  <2> HIDE DEF d
  <2>3. QED
    BY <2>1, <2>2 DEF GoesOn, Midway, Issuing
<1>2. CASE c.back = "wait"
  <2> DEFINE d == [c EXCEPT !.pc = "wait", !.tick = c.tick + 1]
  <2>1. NotIssued(c) = d
    BY <1>2 DEF NotIssued
  <2>2. d.pc = "wait" /\ d.kind = c.kind /\ d.host = c.host /\ d.seen = c.seen
    BY DEF CommandOf
  <2> HIDE DEF d
  <2>3. QED
    BY <2>1, <2>2 DEF GoesOn, Midway, Issuing
<1>3. CASE c.back = "live" /\ c.tries + 1 < SslAttempts
  <2> DEFINE d == [c EXCEPT !.pc = "check", !.tries = c.tries + 1]
  <2>1. NotIssued(c) = d
    BY <1>3 DEF NotIssued
  <2>2. d.pc = "check" /\ d.back = "live" /\ d.kind = c.kind /\ d.host = c.host /\ d.seen = c.seen
    BY <1>3 DEF CommandOf
  <2> HIDE DEF d
  <2>3. QED
    BY <2>1, <2>2 DEF GoesOn, Midway
<1>4. CASE c.back = "live" /\ ~(c.tries + 1 < SslAttempts)
  <2>1. NotIssued(c) = To(c, Thrown(c))
    BY <1>4 DEF NotIssued
  <2>2. QED
    BY <2>1, LastGoes
<1>5. CASE c.back \notin {"offer", "wait", "live"}
  <2>1. NotIssued(c) = NoCommand
    BY <1>5 DEF NotIssued
  <2>2. c.kind # "add"
    BY <1>5 DEF Tidy, CommandOf
  <2>3. QED
    BY <2>1, <2>2 DEF GoesOn, NoCommand, Issuing
<1>6. QED
  BY <1>1, <1>2, <1>3, <1>4, <1>5

(* The command of a step that starts midway goes on so. *)
Proceeds(p) == \E d : GoesOn(cmd[p], d) /\ Keeps(p, d)

LEMMA Proceeding ==
  ASSUME IInv, NEW p \in Proc, Tidy(cmd[p]), cmd[p].pc \in Midway
  PROVE  /\ Goes(p, After(cmd[p])) \/ Goes(p, Thrown(cmd[p])) => Proceeds(p)
         /\ Manual(p) => Proceeds(p)
         /\ Fails(p) /\ Issuing(cmd[p]) => Proceeds(p)
         /\ \A pc \in (Midway \cup {"live"}) \ {"check", "issue", "certified", "force"} : Goes(p, pc) => Proceeds(p)
<1> DEFINE c == cmd[p]
<1>1. c \in CommandOf
  BY CommandAt
<1>2. GoesOn(c, To(c, After(c))) /\ GoesOn(c, To(c, Thrown(c)))
  BY LastGoes
<1>3. Goes(p, After(c)) \/ Goes(p, Thrown(c)) => Proceeds(p)
  BY <1>2 DEF Goes, Proceeds
<1>4. ASSUME NEW pc \in (Midway \cup {"live"}) \ {"check", "issue", "certified", "force"}, Goes(p, pc)
      PROVE  Proceeds(p)
  <2>1. GoesOn(c, To(c, pc))
    BY <1>1, ToGoes
  <2>2. QED
    BY <1>4, <2>1 DEF Goes, Proceeds
<1>5. Manual(p) => Proceeds(p)
  BY <1>3, <1>4 DEF Manual, Midway
<1>6. Fails(p) /\ Issuing(c) => Proceeds(p)
  BY <1>1, NotIssuedGoes DEF Fails, Proceeds
<1>7. QED
  BY <1>3, <1>4, <1>5, <1>6

(* Requests for a certificate. *)
LEMMA IssuingProceeds ==
  ASSUME IInv, NEW p \in Proc, Tidy(cmd[p]),
         Check(p) \/ Issue(p) \/ Certified(p) \/ \E force \in BOOLEAN : ForceSsl(p, force)
  PROVE  Proceeds(p)
<1> DEFINE c == cmd[p]
<1>1. c \in CommandOf
  BY CommandAt
<1>2. Issuing(c) /\ c.pc \in Midway
  BY DEF Check, Issue, Certified, ForceSsl, At, Issuing, Midway
<1>3. Fails(p) => Proceeds(p)
  BY <1>2, Proceeding
<1>4. CASE Check(p)
  <2>1. Goes(p, "issue") \/ Fails(p)
    BY <1>4 DEF Check
  <2>2. GoesOn(c, To(c, "issue"))
    BY <1>1, <1>2, ToGoes DEF Midway
  <2>3. QED
    BY <1>3, <2>1, <2>2 DEF Goes, Proceeds
<1>5. CASE Issue(p)
  <2>1. Goes(p, "certified") \/ Fails(p)
    BY <1>5 DEF Issue
  <2>2. GoesOn(c, To(c, "certified"))
    BY <1>1, <1>2, ToGoes DEF Midway
  <2>3. QED
    BY <1>3, <2>1, <2>2 DEF Goes, Proceeds
<1>6. CASE Certified(p)
  <2> DEFINE d == [c EXCEPT !.pc = "force", !.blind = TRUE]
  <2>1. (c.host \in cert /\ Goes(p, "force")) \/ Fails(p) \/ Keeps(p, d)
    BY <1>6 DEF Certified
  <2>2. c.host \in cert => GoesOn(c, To(c, "force"))
    BY <1>1, <1>2, ToGoes DEF Midway
  <2>3. /\ d.pc = "force" /\ d.kind = c.kind /\ d.host = c.host /\ d.seen = c.seen /\ d.back = c.back
        /\ d.blind = TRUE
    BY <1>1 DEF CommandOf
  <2> HIDE DEF d
  <2>4. GoesOn(c, d)
    BY <1>2, <2>3 DEF GoesOn, Midway, Tidy
  <2>5. QED
    BY <1>3, <2>1, <2>2, <2>4 DEF Goes, Proceeds
<1>7. CASE \E force \in BOOLEAN : ForceSsl(p, force)
  <2>1. Goes(p, After(c)) \/ Fails(p)
    BY <1>7 DEF ForceSsl
  <2>2. QED
    BY <1>2, <1>3, <2>1, Proceeding
<1>8. QED
  BY <1>4, <1>5, <1>6, <1>7

(* Waiting for the name to resolve. *)
LEMMA WaitingProceeds ==
  ASSUME IInv, NEW p \in Proc, Tidy(cmd[p]), Offer(p) \/ Tick(p) \/ GiveUp(p)
  PROVE  Proceeds(p)
<1> DEFINE c == cmd[p]
<1>1. c \in CommandOf
  BY CommandAt
<1>2. c.pc \in Midway
  BY DEF Offer, Tick, GiveUp, At, Midway
<1>3. CASE Offer(p)
  BY <1>2, <1>3, Proceeding DEF Offer, Midway
<1>4. CASE GiveUp(p)
  BY <1>2, <1>4, Proceeding DEF GiveUp
<1>5. CASE Tick(p)
  <2> DEFINE d == [c EXCEPT !.pc = "check", !.back = "wait"]
             e == [c EXCEPT !.tick = c.tick + 1]
  <2>1. Goes(p, "live") \/ Keeps(p, d) \/ Keeps(p, e)
    BY <1>5 DEF Tick
  <2>2. d.pc = "check" /\ d.back = "wait" /\ d.kind = c.kind /\ d.host = c.host /\ d.seen = c.seen
    BY <1>1 DEF CommandOf
  <2>3. e.pc = "wait" /\ e.kind = c.kind /\ e.host = c.host /\ e.seen = c.seen
    BY <1>1, <1>5 DEF CommandOf, Tick, At
  <2> HIDE DEF d, e
  <2>4. GoesOn(c, d) /\ GoesOn(c, e)
    BY <2>2, <2>3 DEF GoesOn, Midway, Issuing
  <2>5. Goes(p, "live") => Proceeds(p)
    BY <1>2, Proceeding
  <2>6. QED
    BY <2>1, <2>4, <2>5 DEF Proceeds
<1>6. QED
  BY <1>3, <1>4, <1>5

(* Setting the DNS record. *)
LEMMA PointingProceeds ==
  ASSUME IInv, NEW p \in Proc, Tidy(cmd[p]),
         Find(p) \/ OfferZone(p) \/ Point(p) \/ Verify(p) \/ Replace(p) \/ Relist(p) \/ Pointed(p)
  PROVE  Proceeds(p)
<1> DEFINE c == cmd[p]
<1>1. c \in CommandOf
  BY CommandAt
<1>2. c.pc \in Midway
  BY DEF Find, OfferZone, Point, Verify, Replace, Relist, Pointed, At, Midway
<1>3. /\ Goes(p, After(c)) \/ Goes(p, Thrown(c)) \/ Manual(p) => Proceeds(p)
      /\ \A pc \in {"zone", "verify", "replace", "relist", "pointed", "live"} : Goes(p, pc) => Proceeds(p)
  BY <1>2, Proceeding DEF Midway
<1>4. ASSUME NEW r, NEW b, Keeps(p, [c EXCEPT !.pc = "point", !.old = r, !.delegated = b]) PROVE Proceeds(p)
  <2> DEFINE d == [c EXCEPT !.pc = "point", !.old = r, !.delegated = b]
  <2>1. d.pc = "point" /\ d.kind = c.kind /\ d.host = c.host /\ d.seen = c.seen
    BY <1>1 DEF CommandOf
  <2> HIDE DEF d
  <2>2. GoesOn(c, d)
    BY <2>1 DEF GoesOn, Midway, Issuing
  <2>3. QED
    BY <1>4, <2>2 DEF Proceeds, d
<1>5. CASE Find(p)
  <2> DEFINE old == IF records[c.host] = {} THEN {None} ELSE records[c.host]
             b == dns[c.host] = "delegated"
  <2>1. \/ Manual(p) \/ Goes(p, "zone")
        \/ \E r \in old : Keeps(p, [c EXCEPT !.pc = "point", !.old = r, !.delegated = b])
    BY <1>5 DEF Find
  <2> HIDE DEF old, b
  <2>2. CASE \E r \in old : Keeps(p, [c EXCEPT !.pc = "point", !.old = r, !.delegated = b])
    <3>1. PICK r \in old : Keeps(p, [c EXCEPT !.pc = "point", !.old = r, !.delegated = b])
      BY <2>2
    <3>2. QED
      BY <1>4, <3>1
  <2>3. QED
    BY <1>3, <2>1, <2>2
<1>6. CASE OfferZone(p)
  BY <1>3, <1>4, <1>6 DEF OfferZone
<1>7. CASE Point(p)
  <2>1. Goes(p, "pointed") \/ Manual(p) \/ Goes(p, "verify") \/ Goes(p, Thrown(c))
    BY <1>7 DEF Point
  <2>2. QED
    BY <1>3, <2>1
<1>8. CASE Verify(p)
  <2>1. Goes(p, Thrown(c)) \/ Goes(p, "replace") \/ Goes(p, "pointed")
    BY <1>8 DEF Verify
  <2>2. QED
    BY <1>3, <2>1
<1>9. CASE Replace(p) \/ Relist(p)
  <2>1. Goes(p, Thrown(c)) \/ Goes(p, "relist") \/ Goes(p, "pointed")
    BY <1>9 DEF Replace, Relist
  <2>2. QED
    BY <1>3, <2>1
<1>10. CASE Pointed(p)
  <2>1. Goes(p, "live") \/ Goes(p, After(c))
    BY <1>10 DEF Pointed
  <2>2. QED
    BY <1>3, <2>1
<1>11. QED
  BY <1>5, <1>6, <1>7, <1>8, <1>9, <1>10

(* The steps between the added hostname and the last. *)
MidSteps(p) ==
  \/ Offer(p) \/ Check(p) \/ Issue(p) \/ Certified(p) \/ \E force \in BOOLEAN : ForceSsl(p, force)
  \/ Tick(p) \/ GiveUp(p)
  \/ Find(p) \/ OfferZone(p) \/ Point(p) \/ Verify(p) \/ Replace(p) \/ Relist(p) \/ Pointed(p)

LEMMA MidProceeds ==
  ASSUME IInv, NEW p \in Proc, Tidy(cmd[p]), MidSteps(p)
  PROVE  Proceeds(p)
BY IssuingProceeds, WaitingProceeds, PointingProceeds DEF MidSteps

LEMMA MidLeaves ==
  ASSUME NEW p \in Proc, MidSteps(p)
  PROVE  /\ UNCHANGED <<on, domain, orderly>> /\ cert \subseteq cert' /\ cmd[p].pc \in Midway
<1>1. CASE Offer(p) \/ Tick(p) \/ GiveUp(p)
  BY <1>1 DEF Offer, Tick, GiveUp, At, Midway
<1>2. CASE Check(p) \/ Issue(p) \/ Certified(p)
  BY <1>2 DEF Check, Issue, Certified, At, Midway
<1>3. CASE \E force \in BOOLEAN : ForceSsl(p, force)
  BY <1>3 DEF ForceSsl, At, Midway
<1>4. CASE Find(p) \/ OfferZone(p) \/ Point(p) \/ Verify(p) \/ Replace(p) \/ Relist(p) \/ Pointed(p)
  BY <1>4 DEF Find, OfferZone, Point, Verify, Replace, Relist, Pointed, At, Midway
<1>5. QED
  BY <1>1, <1>2, <1>3, <1>4 DEF MidSteps

(* What a command knew midway it knows after the step. *)
LEMMA GoesTidy ==
  ASSUME NEW c, Tidy(c), c.pc \in Midway, NEW d, GoesOn(c, d),
         on' = on, domain' = domain, cert \subseteq cert'
  PROVE  Tidy(d)'
<1>1. c.pc # "idle"
  BY DEF Midway
<1>2. (Attaching(c) => on[c.host] = "here") /\ c.kind # "remove" /\ (c.kind = "add" => c.seen = domain)
  BY <1>1 DEF Tidy
<1>3. CASE d.pc = "idle"
  BY <1>3 DEF Tidy, Midway, Issuing
<1>4. CASE d.pc # "idle"
  BY <1>2, <1>4 DEF Tidy, GoesOn, Midway, Issuing, Attaching
<1>5. QED
  BY <1>3, <1>4

LEMMA Rearranged ==
  ASSUME IInv, NEW p \in Proc, NEW d, Keeps(p, d),
         orderly' => (\A q \in Proc : q # p => Idle(q)) /\ Tidy(d)' /\ Placed'
  PROVE  Ordered'
<1>1. cmd'[p] = d /\ \A q \in Proc : q # p => cmd'[q] = cmd[q]
  BY DEF Keeps, IInv, HostnamesTypeOK
<1>2. SUFFICES ASSUME orderly' PROVE Placed' /\ AtMostOne' /\ \A q \in Proc : Tidy(cmd[q])'
  BY Zenon DEF Ordered
<1>3. (\A q \in Proc : q # p => cmd'[q].pc = "idle") /\ Tidy(d)' /\ Placed'
  <2>1. (\A q \in Proc : q # p => Idle(q)) /\ Tidy(d)' /\ Placed'
    BY <1>2, Zenon
  <2>2. QED
    BY <1>1, <2>1 DEF Idle, At
<1>4. AtMostOne'
  BY <1>1, <1>3 DEF AtMostOne, Idle, At
<1>5. ASSUME NEW q \in Proc PROVE Tidy(cmd[q])'
  <2>1. CASE q = p
    BY <1>1, <1>3, <2>1 DEF Tidy
  <2>2. CASE q # p
    BY <1>3, <2>2 DEF Tidy, Midway, Issuing
  <2>3. QED
    BY <2>1, <2>2
<1>6. QED
  BY <1>3, <1>4, <1>5

LEMMA Lonely ==
  ASSUME Ordered, orderly, NEW p \in Proc, ~Idle(p)
  PROVE  /\ Tidy(cmd[p]) /\ \A q \in Proc : q # p => Idle(q)
         /\ domain = None \/ on[domain] = "here" \/ (cmd[p].pc = "unhook" /\ cmd[p].host = domain)
<1>1. Placed /\ AtMostOne /\ Tidy(cmd[p])
  BY Zenon DEF Ordered
<1>2. \A q \in Proc : q # p => Idle(q)
  BY <1>1 DEF AtMostOne
<1>3. QED
  BY <1>1, <1>2 DEF Placed, Idle, At

(* Commands ran one after another before a step, if they do after it. *)
LEMMA WasOrderly ==
  ASSUME NEW p \in Proc, Starts(p) \/ Steps(p) \/ Dies(p)
  PROVE  orderly' => orderly
<1>1. CASE Starts(p)
  <2>1. orderly' = (orderly /\ \A q \in Proc : Idle(q))
    BY <1>1, Zenon DEF Starts, Add, Setup, Ssl, Remove, Begins
  <2>2. QED
    BY <2>1, Zenon
<1>2. CASE Dies(p)
  <2>1. orderly' = (orderly /\ ~At(p, "unhook"))
    BY <1>2, Zenon DEF Dies
  <2>2. QED
    BY <2>1, Zenon
<1>3. CASE RemoveHostname(p) \/ Unhook(p)
  BY <1>3, Zenon DEF RemoveHostname, Unhook
<1>4. CASE Steps(p) /\ ~RemoveHostname(p) /\ ~Unhook(p)
  <2>1. orderly' = orderly
    <3>1. CASE MidSteps(p)
      BY <3>1, MidLeaves
    <3>2. CASE Attach(p) \/ Look(p) \/ Readback(p) \/ RecordDomain(p)
      BY <3>2 DEF Attach, Look, Readback, RecordDomain
    <3>3. QED
      BY <1>4, <3>1, <3>2 DEF Steps, MidSteps
  <2>2. QED
    BY <2>1, Zenon
<1>5. QED
  BY <1>1, <1>2, <1>3, <1>4

LEMMA StartsOrdered ==
  ASSUME IInv, Ordered, NEW p \in Proc, Starts(p)
  PROVE  Ordered'
<1>1. PICK h \in Host : Add(p, h) \/ Setup(p, h) \/ Ssl(p, h) \/ Remove(p, h)
  BY DEF Starts
<1> DEFINE a == [NoCommand EXCEPT !.pc = "attach", !.host = h, !.seen = domain]
           s == [NoCommand EXCEPT !.pc = "attach", !.kind = "setup", !.host = h]
           l == [NoCommand EXCEPT !.pc = "check", !.kind = "ssl", !.host = h]
           r == [NoCommand EXCEPT !.pc = "remove", !.kind = "remove", !.host = h, !.seen = domain]
<1>2. PICK d \in {a, s, l, r} : Begins(p, d)
  BY <1>1 DEF Add, Setup, Ssl, Remove
<1>3. Keeps(p, d) /\ UNCHANGED <<on, cert, domain>>
  BY <1>2 DEF Begins, Keeps
<1>4. orderly' => orderly /\ \A q \in Proc : Idle(q)
  <2>1. orderly' = (orderly /\ \A q \in Proc : Idle(q))
    BY <1>2, Zenon DEF Begins
  <2>2. QED
    BY <2>1, Zenon
<1>5. Tidy(d)'
  <2>1. /\ a.pc = "attach" /\ a.kind = "add" /\ a.seen = domain /\ a.accepted = FALSE
        /\ s.pc = "attach" /\ s.kind = "setup" /\ s.accepted = FALSE
        /\ l.pc = "check" /\ l.kind = "ssl"
        /\ r.pc = "remove" /\ r.kind = "remove" /\ r.seen = domain
    BY DEF NoCommand
  <2>2. \/ d.pc = "attach" /\ d.kind = "add" /\ d.seen = domain /\ d.accepted = FALSE
        \/ d.pc = "attach" /\ d.kind = "setup" /\ d.accepted = FALSE
        \/ d.pc = "check" /\ d.kind = "ssl"
        \/ d.pc = "remove" /\ d.kind = "remove" /\ d.seen = domain
    BY <2>1
  <2> HIDE DEF a, s, l, r
  <2>3. QED
    BY <1>3, <2>2 DEF Tidy, Midway, Issuing, Attaching
<1>6. ASSUME orderly' PROVE Placed' /\ \A q \in Proc : q # p => Idle(q)
  <2>1. Placed /\ \A q \in Proc : cmd[q].pc = "idle"
    <3>1. Placed /\ \A q \in Proc : Idle(q)
      BY <1>4, <1>6, Zenon DEF Ordered
    <3>2. QED
      BY <3>1 DEF Idle, At
  <2>2. QED
    BY <1>3, <2>1 DEF Placed, Idle, At
<1> HIDE DEF a, s, l, r
<1>7. QED
  BY <1>3, <1>5, <1>6, Rearranged

LEMMA MidOrdered ==
  ASSUME IInv, Ordered, NEW p \in Proc, MidSteps(p)
  PROVE  Ordered'
<1>1. UNCHANGED <<on, domain, orderly>> /\ cert \subseteq cert' /\ cmd[p].pc \in Midway /\ ~Idle(p)
  BY MidLeaves DEF Midway, Idle, At
<1>2. CASE ~orderly
  BY <1>1, <1>2, Zenon DEF Ordered
<1>3. CASE orderly
  <2>1. /\ Tidy(cmd[p]) /\ \A q \in Proc : q # p => Idle(q)
        /\ domain = None \/ on[domain] = "here" \/ (cmd[p].pc = "unhook" /\ cmd[p].host = domain)
    BY <1>1, <1>3, Lonely
  <2>2. PICK d : GoesOn(cmd[p], d) /\ Keeps(p, d)
    BY <2>1, MidProceeds DEF Proceeds
  <2>3. Tidy(d)'
    BY <1>1, <2>1, <2>2, GoesTidy
  <2>4. Placed'
    BY <1>1, <2>1 DEF Placed, Midway
  <2>5. QED
    BY <2>1, <2>2, <2>3, <2>4, Rearranged
<1>4. QED
  BY <1>2, <1>3

(* The pull zone takes the hostname, or is asked whether it has. *)
LEMMA AttachOrdered ==
  ASSUME IInv, Ordered, NEW p \in Proc, Attach(p)
  PROVE  Ordered'
<1> DEFINE c == cmd[p]
<1>1. /\ c.pc = "attach" /\ ~Idle(p) /\ c \in CommandOf /\ c.host \in Host
      /\ UNCHANGED <<cert, domain, orderly>> /\ on \in [Host -> {"none", "here", "elsewhere"}]
  BY CommandAt DEF Attach, At, Idle, IInv, HostnamesTypeOK
<1>2. PICK k, d : k = [c EXCEPT !.pc = "look", !.accepted = TRUE] /\ d = [c EXCEPT !.pc = "look"]
  OBVIOUS
<1>3. /\ (on[c.host] = "none" /\ on' = [on EXCEPT ![c.host] = "here"] /\ Keeps(p, k)) \/ Keeps(p, d)
      /\ on' \in {on, [on EXCEPT ![c.host] = "here"]}
  <2>1. To(c, "look") = d
    BY <1>2 DEF To
  <2>2. QED
    BY <1>1, <1>2, <2>1 DEF Attach, Goes
<1>4. CASE ~orderly
  BY <1>1, <1>4, Zenon DEF Ordered
<1>5. CASE orderly
  <2>1. /\ Tidy(c) /\ \A q \in Proc : q # p => Idle(q)
        /\ domain = None \/ on[domain] = "here" \/ (c.pc = "unhook" /\ c.host = domain)
    BY <1>1, <1>5, Lonely
  <2>2. Placed'
    BY <1>1, <1>3, <2>1 DEF Placed, IInv, HostnamesTypeOK
  <2>3. k.pc = "look" /\ k.kind = c.kind /\ k.host = c.host /\ k.seen = c.seen
    BY <1>1, <1>2 DEF CommandOf
  <2>4. d.pc = "look" /\ d.kind = c.kind /\ d.host = c.host /\ d.seen = c.seen /\ d.accepted = c.accepted
    BY <1>1, <1>2 DEF CommandOf
  <2>5. Attaching(c) /\ c.accepted = FALSE /\ (c.kind \in {"add", "remove"} => c.seen = domain)
    BY <1>1, <2>1 DEF Tidy
  <2>6. CASE on[c.host] = "none" /\ on' = [on EXCEPT ![c.host] = "here"] /\ Keeps(p, k)
    <3>1. on'[c.host] = "here"
      BY <1>1, <2>6
    <3>2. Tidy(k)'
      BY <1>1, <2>3, <2>5, <3>1 DEF Tidy, Midway, Issuing, Attaching
    <3>3. QED
      BY <2>1, <2>2, <2>6, <3>2, Rearranged
  <2>7. CASE Keeps(p, d)
    <3>1. Tidy(d)'
      BY <1>1, <2>4, <2>5 DEF Tidy, Midway, Issuing, Attaching
    <3>2. QED
      BY <2>1, <2>2, <2>7, <3>1, Rearranged
  <2>8. QED
    BY <1>3, <2>6, <2>7
<1>6. QED
  BY <1>4, <1>5

(* A step of a command that was alone and at pc, which keeps d. *)
LEMMA OrderedBy ==
  ASSUME IInv, Ordered, NEW p \in Proc, Starts(p) \/ Steps(p) \/ Dies(p), ~Idle(p),
         NEW d, Keeps(p, d),
         orderly' /\ Tidy(cmd[p]) /\ (domain = None \/ on[domain] = "here" \/ (cmd[p].pc = "unhook" /\ cmd[p].host = domain))
           => Tidy(d)' /\ Placed'
  PROVE  Ordered'
<1>1. ASSUME orderly' PROVE (\A q \in Proc : q # p => Idle(q)) /\ Tidy(d)' /\ Placed'
  <2>1. orderly
    BY <1>1, WasOrderly
  <2>2. /\ Tidy(cmd[p]) /\ \A q \in Proc : q # p => Idle(q)
        /\ domain = None \/ on[domain] = "here" \/ (cmd[p].pc = "unhook" /\ cmd[p].host = domain)
    BY <2>1, Lonely
  <2>3. Tidy(d)' /\ Placed'
    BY <1>1, <2>2
  <2>4. QED
    BY <2>2, <2>3
<1>2. QED
  BY <1>1, Rearranged

LEMMA LookOrdered ==
  ASSUME IInv, Ordered, NEW p \in Proc, Look(p)
  PROVE  Ordered'
<1> DEFINE c == [cmd[p] EXCEPT !.accepted = FALSE]
           h == cmd[p].host
<1>1. /\ cmd[p].pc = "look" /\ ~Idle(p) /\ cmd[p] \in CommandOf
      /\ UNCHANGED <<on, cert, domain, orderly>>
  BY CommandAt DEF Look, At, Idle
<1>2. PICK o, i : o = [c EXCEPT !.pc = "offer"] /\ i = [c EXCEPT !.pc = "issue", !.back = "offer"]
  OBVIOUS
<1>3. PICK r, b : r = [NoCommand EXCEPT !.pc = "record", !.kind = cmd[p].kind, !.host = h, !.seen = cmd[p].seen]
                  /\ b = [NoCommand EXCEPT !.pc = "readback", !.kind = cmd[p].kind, !.host = h, !.seen = cmd[p].seen]
  OBVIOUS
<1>4. /\ To(c, "record") = r /\ To(c, "readback") = b /\ To(c, "idle") = NoCommand
      /\ c.kind = cmd[p].kind /\ c.host = h /\ c.seen = cmd[p].seen
  BY <1>1, <1>3 DEF To, CommandOf
<1>5. PICK d : Keeps(p, d) /\ \/ d = o /\ (on[h] = "here" \/ cmd[p].accepted)
                              \/ d = i /\ on[h] = "here"
                              \/ d = r /\ cmd[p].kind = "setup" /\ (on[h] = "here" \/ cmd[p].accepted)
                              \/ d = b /\ cmd[p].kind = "setup"
                              \/ d = NoCommand
  <2>1. \A pc \in NotAttached(c) : pc = "idle" \/ (pc = "readback" /\ cmd[p].kind = "setup")
    BY <1>4 DEF NotAttached
  <2> HIDE DEF c
  <2>2. CASE \E pc \in NotAttached(c) : Keeps(p, To(c, pc))
    BY <1>4, <2>1, <2>2
  <2>3. CASE \/ Keeps(p, o) /\ (on[h] = "here" \/ cmd[p].accepted)
             \/ Keeps(p, i) /\ on[h] = "here"
             \/ Keeps(p, r) /\ cmd[p].kind = "setup" /\ (on[h] = "here" \/ cmd[p].accepted)
    BY <2>3
  <2>4. QED
    BY <1>2, <1>4, <2>2, <2>3 DEF Look, c
<1>6. /\ o.pc = "offer" /\ o.kind = cmd[p].kind /\ o.host = h /\ o.seen = cmd[p].seen
      /\ i.pc = "issue" /\ i.kind = cmd[p].kind /\ i.host = h /\ i.seen = cmd[p].seen /\ i.back = "offer"
      /\ r.pc = "record" /\ r.kind = cmd[p].kind /\ r.host = h /\ r.seen = cmd[p].seen
      /\ b.pc = "readback" /\ b.kind = cmd[p].kind /\ b.host = h /\ b.seen = cmd[p].seen
  BY <1>1, <1>2, <1>3 DEF NoCommand, CommandOf
<1> HIDE DEF c
<1>7. ASSUME Tidy(cmd[p]), domain = None \/ on[domain] = "here" \/ (cmd[p].pc = "unhook" /\ cmd[p].host = domain)
      PROVE  Tidy(d)' /\ Placed'
  <2>1. /\ Attaching(cmd[p]) /\ cmd[p].kind # "remove" /\ (cmd[p].accepted => on[h] = "here")
        /\ (cmd[p].kind \in {"add", "remove"} => cmd[p].seen = domain)
    BY <1>1, <1>7 DEF Tidy, Attaching
  <2>2. Placed'
    BY <1>1, <1>7 DEF Placed
  <2>3. Tidy(d)'
    <3>1. CASE d = NoCommand
      BY <3>1, TidyNone
    <3>2. CASE d # NoCommand
      BY <1>1, <1>5, <1>6, <2>1, <3>2 DEF Tidy, Midway, Issuing, Attaching
    <3>3. QED
      BY <3>1, <3>2
  <2>4. QED
    BY <2>2, <2>3
<1>8. Steps(p)
  BY DEF Steps
<1>9. QED
  BY <1>1, <1>5, <1>7, <1>8, OrderedBy

(* The recorded domain: only what is here is recorded, and a removal takes the record along. *)
LEMMA ReadbackOrdered ==
  ASSUME IInv, Ordered, NEW p \in Proc, Readback(p)
  PROVE  Ordered'
<1> DEFINE c == cmd[p]
<1>1. /\ c.pc = "readback" /\ ~Idle(p) /\ c \in CommandOf /\ UNCHANGED <<on, cert, domain, orderly>> /\ Steps(p)
  BY CommandAt DEF Readback, At, Idle, Steps
<1>2. PICK r : r = [NoCommand EXCEPT !.pc = "record", !.kind = c.kind, !.host = c.host, !.seen = c.seen]
  OBVIOUS
<1>3. To(c, "record") = r /\ To(c, "idle") = NoCommand
  BY <1>2 DEF To
<1>4. PICK d : Keeps(p, d) /\ ((d = r /\ on[c.host] = "here") \/ d = NoCommand)
  BY <1>3 DEF Readback, Goes
<1>5. r.pc = "record" /\ r.kind = c.kind /\ r.host = c.host /\ r.seen = c.seen
  BY <1>2 DEF NoCommand
<1>6. ASSUME Tidy(c), domain = None \/ on[domain] = "here" \/ (c.pc = "unhook" /\ c.host = domain)
      PROVE  Tidy(d)' /\ Placed'
  <2>1. Placed'
    BY <1>1, <1>6 DEF Placed
  <2>2. c.kind = "setup"
    BY <1>1, <1>6 DEF Tidy
  <2>3. CASE d = NoCommand
    BY <2>1, <2>3, TidyNone
  <2>4. CASE d = r /\ on[c.host] = "here"
    BY <1>1, <1>5, <2>1, <2>2, <2>4 DEF Tidy, Midway, Issuing, Attaching
  <2>5. QED
    BY <1>4, <2>3, <2>4
<1>7. QED
  BY <1>1, <1>4, <1>6, OrderedBy

LEMMA RecordDomainOrdered ==
  ASSUME IInv, Ordered, NEW p \in Proc, RecordDomain(p)
  PROVE  Ordered'
<1>1. /\ cmd[p].pc = "record" /\ ~Idle(p) /\ UNCHANGED <<on, orderly>> /\ Steps(p) /\ Keeps(p, NoCommand)
      /\ domain' \in {domain, cmd[p].host}
  BY DEF RecordDomain, At, Idle, Steps, Goes, To
<1>2. ASSUME Tidy(cmd[p]), domain = None \/ on[domain] = "here" \/ (cmd[p].pc = "unhook" /\ cmd[p].host = domain)
      PROVE  Placed'
  <2>1. on[cmd[p].host] = "here"
    BY <1>1, <1>2 DEF Tidy
  <2>2. QED
    BY <1>1, <1>2, <2>1 DEF Placed
<1>3. QED
  BY <1>1, <1>2, TidyNone, OrderedBy

LEMMA RemoveHostnameOrdered ==
  ASSUME IInv, Ordered, NEW p \in Proc, RemoveHostname(p)
  PROVE  Ordered'
<1> DEFINE c == cmd[p]
<1>1. /\ c.pc = "remove" /\ ~Idle(p) /\ c \in CommandOf /\ c.host \in Host /\ domain' = domain /\ Steps(p)
      /\ on \in [Host -> {"none", "here", "elsewhere"}] /\ domain \in Host \cup {None}
  BY CommandAt DEF RemoveHostname, At, Idle, Steps, IInv, HostnamesTypeOK
<1>2. PICK d : d = [c EXCEPT !.pc = "unhook"]
  OBVIOUS
<1>3. To(c, "unhook") = d /\ To(c, "idle") = NoCommand
  BY <1>2 DEF To
<1>4. \/ on' = [on EXCEPT ![c.host] = "none"] /\ Keeps(p, d)
      \/ Keeps(p, NoCommand) /\ UNCHANGED on
      \/ Keeps(p, NoCommand) /\ orderly' = FALSE
  BY <1>3 DEF RemoveHostname, Goes
<1>5. d.pc = "unhook" /\ d.kind = c.kind /\ d.host = c.host /\ d.seen = c.seen
  BY <1>1, <1>2 DEF CommandOf
<1>6. CASE on' = [on EXCEPT ![c.host] = "none"] /\ Keeps(p, d)
  <2>1. ASSUME Tidy(c), domain = None \/ on[domain] = "here" \/ (c.pc = "unhook" /\ c.host = domain)
        PROVE  Tidy(d)' /\ Placed'
    <3>1. c.kind = "remove" /\ c.seen = domain
      BY <1>1, <2>1 DEF Tidy
    <3>2. Tidy(d)'
      BY <1>1, <1>5, <3>1 DEF Tidy, Midway, Issuing
    <3>3. cmd'[p] = d
      BY <1>6 DEF Keeps, IInv, HostnamesTypeOK
    <3>4. Placed'
      <4>1. CASE domain = c.host
        BY <1>1, <1>5, <3>3, <4>1 DEF Placed, At
      <4>2. CASE domain # c.host
        BY <1>1, <1>6, <2>1, <4>2 DEF Placed
      <4>3. QED
        BY <4>1, <4>2
    <3>5. QED
      BY <3>2, <3>4
  <2>2. QED
    BY <1>1, <1>6, <2>1, OrderedBy
<1>7. CASE Keeps(p, NoCommand) /\ UNCHANGED on
  <2>1. ASSUME domain = None \/ on[domain] = "here" \/ (c.pc = "unhook" /\ c.host = domain)
        PROVE  Placed'
    BY <1>1, <1>7, <2>1 DEF Placed
  <2>2. QED
    BY <1>1, <1>7, <2>1, TidyNone, OrderedBy
<1>8. CASE orderly' = FALSE
  BY <1>8, Zenon DEF Ordered
<1>9. QED
  BY <1>4, <1>6, <1>7, <1>8

LEMMA UnhookOrdered ==
  ASSUME IInv, Ordered, NEW p \in Proc, Unhook(p)
  PROVE  Ordered'
<1> DEFINE c == cmd[p]
<1>1. c.pc = "unhook" /\ ~Idle(p) /\ on' = on /\ Steps(p) /\ Keeps(p, NoCommand)
  BY DEF Unhook, At, Idle, Steps, Goes, To
<1>2. domain' = (IF c.seen = c.host THEN None ELSE domain) \/ orderly' = FALSE
  BY DEF Unhook
<1>3. CASE domain' = (IF c.seen = c.host THEN None ELSE domain)
  <2>1. ASSUME Tidy(c), domain = None \/ on[domain] = "here" \/ (c.pc = "unhook" /\ c.host = domain)
        PROVE  Placed'
    <3>1. c.seen = domain
      BY <1>1, <2>1 DEF Tidy
    <3>2. QED
      BY <1>1, <1>3, <2>1, <3>1 DEF Placed
  <2>2. QED
    BY <1>1, <2>1, TidyNone, OrderedBy
<1>4. CASE orderly' = FALSE
  BY <1>4, Zenon DEF Ordered
<1>5. QED
  BY <1>2, <1>3, <1>4

LEMMA DiesOrdered ==
  ASSUME IInv, Ordered, NEW p \in Proc, Dies(p)
  PROVE  Ordered'
<1>1. ~Idle(p) /\ UNCHANGED <<on, domain>> /\ Keeps(p, NoCommand)
  BY DEF Dies, Goes, To
<1>2. orderly' => cmd[p].pc # "unhook"
  <2>1. orderly' = (orderly /\ ~At(p, "unhook"))
    BY Zenon DEF Dies
  <2>2. orderly' => ~At(p, "unhook")
    BY <2>1, Zenon
  <2>3. QED
    BY <2>2 DEF At
<1>3. ASSUME orderly', domain = None \/ on[domain] = "here" \/ (cmd[p].pc = "unhook" /\ cmd[p].host = domain)
      PROVE  Placed'
  <2>1. domain = None \/ on[domain] = "here"
    BY <1>2, <1>3
  <2>2. QED
    BY <1>1, <2>1 DEF Placed
<1>4. QED
  BY <1>1, <1>3, TidyNone, OrderedBy

LEMMA NextOrdered ==
  ASSUME IInv, Ordered, HostnamesNext
  PROVE  Ordered'
<1>1. PICK p \in Proc : Starts(p) \/ Steps(p) \/ Dies(p)
  BY DEF HostnamesNext
<1>2. CASE Starts(p)
  BY <1>2, StartsOrdered
<1>3. CASE Dies(p)
  BY <1>3, DiesOrdered
<1>4. CASE Steps(p)
  <2>1. CASE MidSteps(p)
    BY <2>1, MidOrdered
  <2>2. CASE Attach(p) \/ Look(p) \/ Readback(p) \/ RecordDomain(p) \/ RemoveHostname(p) \/ Unhook(p)
    BY <2>2, AttachOrdered, LookOrdered, ReadbackOrdered, RecordDomainOrdered, RemoveHostnameOrdered, UnhookOrdered
  <2>3. QED
    BY <1>4, <2>1, <2>2 DEF Steps, MidSteps
<1>5. QED
  BY <1>1, <1>2, <1>3, <1>4

LEMMA StutterOrdered == Ordered /\ UNCHANGED hosting => Ordered'
<1> SUFFICES ASSUME Ordered, UNCHANGED hosting PROVE Ordered'
  OBVIOUS
<1>1. UNCHANGED <<on, cert, domain, cmd>>
  BY DEF hosting
<1>2. orderly' = orderly
  BY Zenon DEF hosting
<1>3. SUFFICES ASSUME orderly' PROVE Placed' /\ AtMostOne' /\ \A p \in Proc : Tidy(cmd[p])'
  BY Zenon DEF Ordered
<1>4. Placed /\ AtMostOne /\ \A p \in Proc : Tidy(cmd[p])
  BY <1>2, <1>3, Zenon DEF Ordered
<1>5. Placed'
  BY <1>1, <1>4 DEF Placed, At
<1>6. AtMostOne'
  BY <1>1, <1>4 DEF AtMostOne, Idle, At
<1>7. \A p \in Proc : Tidy(cmd[p])'
  BY <1>1, <1>4 DEF Tidy
<1>8. QED
  BY <1>5, <1>6, <1>7

LEMMA InitOrdered == HostnamesInit => Ordered
<1> SUFFICES ASSUME HostnamesInit PROVE Ordered
  OBVIOUS
<1>1. domain = None /\ \A p \in Proc : cmd[p] = NoCommand
  BY DEF HostnamesInit
<1>2. Placed
  BY <1>1 DEF Placed
<1>3. AtMostOne
  BY <1>1 DEF AtMostOne, Idle, At, NoCommand
<1>4. \A p \in Proc : Tidy(cmd[p])
  BY <1>1, TidyNone
<1>5. QED
  BY <1>2, <1>3, <1>4 DEF Ordered

LEMMA OrderedHolds == HostnamesSpec => [](IInv /\ Ordered)
<1>1. IInv /\ Ordered /\ [HostnamesNext]_hosting => Ordered'
  BY NextOrdered, StutterOrdered
<1>2. QED
  BY InvariantHolds, InitOrdered, <1>1, PTL DEF HostnamesSpec

(* Only ForceSsl adds to the hostnames with Force SSL. *)
LEMMA OnlyForceForces ==
  ASSUME NEW p \in Proc, Starts(p) \/ Steps(p) \/ Dies(p)
  PROVE  \A h \in forced' \ forced : At(p, "force") /\ h = cmd[p].host
<1>1. CASE Starts(p) \/ Dies(p)
  BY <1>1 DEF Starts, Add, Setup, Ssl, Remove, Begins, Dies
<1>2. CASE Attach(p) \/ Look(p) \/ Offer(p) \/ Check(p) \/ Issue(p) \/ Certified(p) \/ Tick(p) \/ GiveUp(p)
  BY <1>2 DEF Attach, Look, Offer, Check, Issue, Certified, Tick, GiveUp
<1>3. CASE Find(p) \/ OfferZone(p) \/ Point(p) \/ Verify(p) \/ Replace(p) \/ Relist(p) \/ Pointed(p)
  BY <1>3 DEF Find, OfferZone, Point, Verify, Replace, Relist, Pointed
<1>4. CASE Readback(p) \/ RecordDomain(p) \/ RemoveHostname(p) \/ Unhook(p)
  BY <1>4 DEF Readback, RecordDomain, RemoveHostname, Unhook
<1>5. CASE \E force \in BOOLEAN : ForceSsl(p, force)
  BY <1>5 DEF ForceSsl
<1>6. QED
  BY <1>1, <1>2, <1>3, <1>4, <1>5 DEF Steps

(* Force SSL is only switched on where the zone has shown a certificate since the request, or could not be asked, when commands run one after another (client.ts:235). *)
THEOREM ForcedCertified == HostnamesSpec => ForcedHasCert
<1>1. IInv /\ Ordered /\ [HostnamesNext]_hosting =>
        [orderly => \A h \in forced' \ forced : h \in cert \/ \E p \in Proc : cmd[p].host = h /\ cmd[p].blind]_hosting
  <2>1. ASSUME Ordered, HostnamesNext, orderly, NEW h \in forced' \ forced
        PROVE  h \in cert \/ \E p \in Proc : cmd[p].host = h /\ cmd[p].blind
    <3>1. PICK p \in Proc : Starts(p) \/ Steps(p) \/ Dies(p)
      BY <2>1 DEF HostnamesNext
    <3>2. At(p, "force") /\ h = cmd[p].host
      BY <2>1, <3>1, OnlyForceForces
    <3>3. Tidy(cmd[p])
      BY <2>1, <3>2, Lonely DEF Idle, At
    <3>4. cmd[p].host \in cert \/ cmd[p].blind
      BY <3>2, <3>3 DEF Tidy, At
    <3>5. QED
      BY <3>2, <3>4
  <2>2. QED
    BY <2>1 DEF hosting
<1>2. QED
  BY OrderedHolds, <1>1, PTL DEF HostnamesSpec, ForcedHasCert

(* The recorded production domain is a hostname the pull zone serves: when commands run one after another, nothing that never attached is recorded and a removal takes the record along (domains/index.ts:82). *)
THEOREM DomainServed == HostnamesSpec => []DomainOnZone
<1>1. IInv /\ Ordered => DomainOnZone
  <2> SUFFICES ASSUME Ordered, orderly, \A p \in Proc : Idle(p)
               PROVE  domain = None \/ on[domain] = "here"
    BY DEF DomainOnZone
  <2>1. Placed
    BY Zenon DEF Ordered
  <2>2. QED
    BY <2>1 DEF Placed, Idle, At
<1>2. QED
  BY OrderedHolds, <1>1, PTL

(* How an add that has attached its hostname comes to its end. *)
LEMMA EndsRecorded ==
  ASSUME IInv, Ordered, orderly, NEW p \in Proc, Starts(p) \/ Steps(p) \/ Dies(p),
         cmd[p].kind = "add", cmd[p].pc \notin {"idle", "attach", "look"}, cmd[p].host \notin Wildcard,
         cmd'[p].pc = "idle", faults' = faults
  PROVE  domain' # None
<1> DEFINE c == cmd[p]
<1>1. c \in CommandOf /\ c.host \in Host /\ ~Idle(p) /\ cmd \in [Proc -> CommandOf] /\ faults \in Nat
  BY CommandAt DEF IInv, HostnamesTypeOK, Idle, At
<1>2. Tidy(c)
  BY <1>1, Lonely
<1>3. CASE MidSteps(p)
  <2>1. PICK d : GoesOn(c, d) /\ Keeps(p, d)
    BY <1>2, <1>3, MidProceeds DEF Proceeds
  <2>2. cmd'[p] = d /\ domain' = domain
    BY <1>1, <1>3, <2>1, MidLeaves DEF Keeps
  <2>3. c.seen # None
    BY <2>1, <2>2 DEF GoesOn
  <2>4. c.seen = domain
    BY <1>2 DEF Tidy
  <2>5. QED
    BY <2>2, <2>3, <2>4
<1>4. CASE RecordDomain(p)
  <2>1. domain' = c.host
    BY <1>1, <1>4 DEF RecordDomain, Faulty
  <2>2. QED
    BY <1>1, <2>1, HostnamesAssumption
<1>5. ~Starts(p) /\ ~Dies(p) /\ ~Attach(p) /\ ~Look(p)
  <2>1. ~Starts(p)
    BY <1>1 DEF Starts, Add, Setup, Ssl, Remove, Begins
  <2>2. ~Dies(p)
    BY <1>1 DEF Dies, Faulty
  <2>3. ~Attach(p) /\ ~Look(p)
    BY DEF Attach, Look, At
  <2>4. QED
    BY <2>1, <2>2, <2>3
<1>6. CASE Readback(p) \/ RemoveHostname(p) \/ Unhook(p)
  BY <1>2, <1>6 DEF Readback, RemoveHostname, Unhook, Tidy, At
<1>7. QED
  BY <1>3, <1>4, <1>5, <1>6 DEF Steps, MidSteps

(* A step of one process leaves the commands of the others alone. *)
LEMMA OthersKeep ==
  ASSUME IInv, NEW p \in Proc, Starts(p) \/ Steps(p) \/ Dies(p), NEW q \in Proc, q # p
  PROVE  cmd'[q] = cmd[q]
<1>1. \E d : cmd' = [cmd EXCEPT ![p] = d]
  <2>1. StepOK(p)
    BY StepsOK
  <2>2. QED
    BY <2>1 DEF StepOK, CommandNow
<1>2. QED
  BY <1>1 DEF IInv, HostnamesTypeOK

(* A site without a domain has one when an add ends that attached a hostname, whatever the DNS and certificate steps threw, when commands run one after another (commands.ts:207). *)
THEOREM DomainRecorded == HostnamesSpec => AddRecordsDomain
<1>1. IInv /\ Ordered /\ [HostnamesNext]_hosting =>
        [\A p \in Proc :
           orderly /\ ~At(p, "idle") /\ ~At(p, "attach") /\ ~At(p, "look")
             /\ cmd[p].kind = "add" /\ cmd[p].host \notin Wildcard
             /\ cmd'[p].pc = "idle" /\ faults' = faults
           => domain' # None]_hosting
  <2> SUFFICES ASSUME IInv, Ordered, HostnamesNext, NEW p \in Proc,
                      orderly, ~At(p, "idle"), ~At(p, "attach"), ~At(p, "look"),
                      cmd[p].kind = "add", cmd[p].host \notin Wildcard,
                      cmd'[p].pc = "idle", faults' = faults
               PROVE  domain' # None
    BY DEF hosting
  <2>1. PICK q \in Proc : Starts(q) \/ Steps(q) \/ Dies(q)
    BY DEF HostnamesNext
  <2>2. q = p
    <3>1. cmd'[p] # cmd[p]
      BY DEF At
    <3>2. QED
      BY <2>1, <3>1, OthersKeep
  <2>3. QED
    BY <2>1, <2>2, EndsRecorded DEF At
<1>2. QED
  BY OrderedHolds, <1>1, PTL DEF HostnamesSpec, AddRecordsDomain
=============================================================================
