---------------------------- MODULE SandboxProofs ----------------------------
(***************************************************************************)
(* Proofs about Sandbox, for any number of lanes, connections and names.   *)
(* The invariant has two halves, as the state has: of the transport, that  *)
(* a lane which uses a connection names one and that the caches are not    *)
(* stale, and of the platform, that one create is at work until the object *)
(* is made, and which steps it may be at.                                  *)
(***************************************************************************)
EXTENDS Sandbox, TLAPS

USE TransportAssumption, SandboxAssumption

TransportType ==
  /\ conn \in Conn \cup {None} /\ connecting \in Conn \cup {None}
  /\ sftpChannel \in Conn \cup Lane \cup {None, Rejected}
  /\ net \in [Conn -> NetState]
  /\ call \in [Lane -> CallRecord]
  /\ running \in [Lane -> BOOLEAN]
  /\ faults \in 0 .. MaxFaults
Placed(k) == call[k].pc \in {"ready", "opening", "running"} => call[k].on \in Conn
TInv == TransportType /\ (\A k \in Lane : Placed(k)) /\ NothingStale /\ NoOrphanCommand

PlatformType ==
  /\ app \in {"none", "starting", "up", "gone"}
  /\ env \in SUBSET (Var \cup {Token}) /\ endpoints \in SUBSET Label
  /\ pinned \in {"none", "this", "other"}
  /\ task \in [Lane -> TaskRecord]
  /\ made \in BOOLEAN /\ orderly \in BOOLEAN
  /\ calls \in 0 .. MaxCalls
CreateSteps == {"post", "host", "reach", "find", "add", "wait", "cleanup"}
TaskOK(k) ==
  /\ task[k].op = "none" => task[k].pc = "idle"
  /\ task[k].op = "create" => task[k].pc \in CreateSteps /\ ~made /\ (task[k].pc = "post" <=> app = "none")
  /\ task[k].op \notin {"none", "create"} => made
  /\ task[k].pc = "put" => Token \in task[k].seen
  /\ task[k].op = "set" => task[k].names \subseteq Var
OneCreate == \A j, k \in Lane : task[j].op = "create" /\ task[k].op = "create" => j = k
PInv ==
  /\ PlatformType /\ (\A k \in Lane : TaskOK(k)) /\ OneCreate
  /\ made => app # "none"
  /\ Retrievable

IInv == TInv /\ PInv

------------------------------------------------------------------------------
(* The records calls go through. *)

LEMMA SettledOK ==
  ASSUME NEW pc \in CallState
  PROVE  /\ Settled(pc) \in CallRecord
         /\ Settled(pc).pc = pc /\ Settled(pc).op = "exec" /\ ~Settled(pc).aborted
BY DEF Settled, NoCall, CallRecord

LEMMA PlaceOK ==
  ASSUME NEW r \in CallRecord, NEW pc \in CallState, NEW on \in Conn \cup Lane \cup {None}
  PROVE  /\ Place(r, pc, on) \in CallRecord
         /\ Place(r, pc, on).pc = pc /\ Place(r, pc, on).on = on
         /\ Place(r, pc, on).op = r.op /\ Place(r, pc, on).aborted = r.aborted
BY DEF Place, CallRecord

LEMMA MoveOK ==
  ASSUME TransportType, NEW k \in Lane, NEW pc \in CallState, NEW on \in Conn \cup {None}
  PROVE  /\ Place(call[k], pc, on) \in CallRecord
         /\ Place(call[k], pc, on).pc = pc /\ Place(call[k], pc, on).on = on
         /\ Place(call[k], pc, on).op = call[k].op /\ Place(call[k], pc, on).aborted = call[k].aborted
<1>1. call[k] \in CallRecord
  BY DEF TransportType
<1> QED
  BY <1>1 DEF Place, CallRecord

LEMMA RequestOK ==
  ASSUME NEW op \in {"exec", "sftp", "reach"}, NEW more \in BOOLEAN, NEW timed \in BOOLEAN
  PROVE  /\ Request(op, more, timed) \in CallRecord
         /\ Request(op, more, timed).op = op /\ ~Request(op, more, timed).aborted
BY DEF Request, CallRecord, CallState, Unsettled

(* ready() dials a connection nobody uses, and leaves the lane in its place. *)
LEMMA ReadyOK ==
  ASSUME TInv, NEW k \in Lane, NEW r \in CallRecord, Ready(k, r)
  PROVE  /\ connecting' \in Conn \cup {None} /\ net' \in [Conn -> NetState]
         /\ connecting' # None => net'[connecting'] = "dialing"
         /\ \A d \in Conn : net[d] # "unused" => net'[d] = net[d]
         /\ call' \in [Lane -> CallRecord]
         /\ \A j \in Lane \ {k} : call'[j] = call[j]
         /\ Placed(k)'
         /\ call'[k].pc # "running"
         /\ r.op = "sftp" /\ (conn # None => net[conn] = "open")
              => call'[k].op = "sftp" /\ call'[k].pc \in {"ready", "opening"}
<1> DEFINE placed == Place(r, "ready", connecting)
           opened == Place(r, "opening", conn)
           done == Settled("done")
           failed == Settled("failed")
<1>s. /\ done \in CallRecord /\ done.pc = "done"
      /\ failed \in CallRecord /\ failed.pc = "failed"
  BY SettledOK DEF CallState
<1>1. CASE conn # None
  <2>1. conn \in Conn
    BY <1>1 DEF TInv, TransportType
  <2>2. /\ opened \in CallRecord /\ opened.pc = "opening" /\ opened.on = conn /\ opened.op = r.op
    BY <2>1, PlaceOK DEF CallState, Unsettled
  <2>3. /\ call' = [call EXCEPT ![k] = Served(r, conn)]
        /\ UNCHANGED <<connecting, net>>
    BY <1>1 DEF Ready
  <2>4. Served(r, conn) \in {done, failed, opened}
    BY DEF Served
  <2>5. r.op = "sftp" /\ net[conn] = "open" => Served(r, conn) = opened
    BY DEF Served
  <2> HIDE DEF opened, done, failed
  <2>6. call' \in [Lane -> CallRecord] /\ call'[k] = Served(r, conn) /\ \A j \in Lane \ {k} : call'[j] = call[j]
    BY <1>s, <2>2, <2>3, <2>4 DEF TInv, TransportType
  <2> QED
    BY <1>1, <1>s, <2>1, <2>2, <2>3, <2>4, <2>5, <2>6 DEF TInv, TransportType, NothingStale, Placed
<1>2. CASE conn = None /\ connecting # None
  <2>1. connecting \in Conn
    BY <1>2 DEF TInv, TransportType
  <2>2. placed \in CallRecord /\ placed.pc = "ready" /\ placed.on = connecting /\ placed.op = r.op
    BY <2>1, PlaceOK DEF CallState, Unsettled
  <2>3. call' = [call EXCEPT ![k] = placed] /\ UNCHANGED <<connecting, net>>
    BY <1>2 DEF Ready
  <2> HIDE DEF placed
  <2> QED
    BY <1>2, <2>1, <2>2, <2>3 DEF TInv, TransportType, NothingStale, Placed
<1>3. CASE conn = None /\ connecting = None
  <2> DEFINE c == NewConn
             dialed == Place(r, "ready", c)
  <2>1. c \in Conn /\ net[c] = "unused"
    BY <1>3 DEF Ready, NewConn
  <2>2. /\ net' = [net EXCEPT ![c] = "dialing"] /\ connecting' = c
        /\ call' = [call EXCEPT ![k] = dialed]
    BY <1>3 DEF Ready
  <2>3. dialed \in CallRecord /\ dialed.pc = "ready" /\ dialed.on = c /\ dialed.op = r.op
    BY <2>1, PlaceOK DEF CallState, Unsettled
  <2> HIDE DEF c, dialed
  <2> QED
    BY <1>3, <2>1, <2>2, <2>3 DEF TInv, TransportType, NothingStale, Placed, NetState
<1> QED
  BY <1>1, <1>2, <1>3

(* What any step may do to the calls and the caches without the caches becoming stale. *)
LEMMA RequestKeeps ==
  ASSUME TInv, NEW k \in Lane, NEW r \in CallRecord, Ready(k, r),
         sftpChannel # k, UNCHANGED <<conn, sftpChannel, faults>>,
         running' \in [Lane -> BOOLEAN], ~running'[k], \A j \in Lane : running'[j] => running[j]
  PROVE  TInv'
<1>1. TransportType'
  BY ReadyOK DEF TInv, TransportType
<1>2. \A j \in Lane : Placed(j)'
  BY ReadyOK DEF TInv, Placed
<1>3. NothingStale'
  BY ReadyOK DEF TInv, TransportType, NothingStale
<1>4. NoOrphanCommand'
  BY ReadyOK DEF TInv, TransportType, NoOrphanCommand, At
<1> QED
  BY <1>1, <1>2, <1>3, <1>4 DEF TInv

LEMMA SftpKeeps ==
  ASSUME TInv, NEW k \in Lane, NEW r \in CallRecord, r.op = "sftp", Sftp(k, r),
         sftpChannel # k, UNCHANGED faults,
         running' \in [Lane -> BOOLEAN], ~running'[k], \A j \in Lane : running'[j] => running[j]
  PROVE  TInv'
<1> DEFINE uses == Place(r, "running", sftpChannel)
           joins == Place(r, "joined", sftpChannel)
           fails == Settled("failed")
<1>1. CASE sftpChannel \in Conn
  <2>1. uses \in CallRecord /\ uses.pc = "running" /\ uses.on = sftpChannel
    BY <1>1, PlaceOK DEF CallState, Unsettled
  <2>2. call' = [call EXCEPT ![k] = uses] /\ UNCHANGED <<cached, net>>
    BY <1>1, SMT DEF Sftp
  <2> HIDE DEF uses
  <2> QED
    BY <1>1, <2>1, <2>2 DEF TInv, TransportType, Placed, NothingStale, NoOrphanCommand, At, cached
<1>2. CASE sftpChannel \in Lane
  <2>1. joins \in CallRecord /\ joins.pc = "joined"
    BY <1>2, PlaceOK DEF CallState, Unsettled
  <2>2. call' = [call EXCEPT ![k] = joins] /\ UNCHANGED <<cached, net>>
    BY <1>2, SMT DEF Sftp
  <2> HIDE DEF joins
  <2> QED
    BY <1>2, <2>1, <2>2 DEF TInv, TransportType, Placed, NothingStale, NoOrphanCommand, At, cached
<1>3. CASE sftpChannel = Rejected
  <2>1. fails \in CallRecord /\ fails.pc = "failed"
    BY SettledOK DEF CallState
  <2>2. call' = [call EXCEPT ![k] = fails] /\ UNCHANGED <<cached, net>>
    BY <1>3, SMT DEF Sftp
  <2> HIDE DEF fails
  <2> QED
    BY <1>3, <2>1, <2>2 DEF TInv, TransportType, Placed, NothingStale, NoOrphanCommand, At, cached
<1>4. CASE sftpChannel = None
  <2>1. /\ Ready(k, r) /\ UNCHANGED conn
        /\ sftpChannel' = IF conn # None /\ net[conn] # "open" THEN Rejected ELSE k
    BY <1>4, SMT DEF Sftp
  <2>2. TransportType'
    BY <2>1, ReadyOK DEF TInv, TransportType
  <2>3. \A j \in Lane : Placed(j)'
    BY <2>1, ReadyOK DEF TInv, Placed
  <2>4. NothingStale'
    BY <2>1, ReadyOK DEF TInv, TransportType, NothingStale
  <2>5. NoOrphanCommand'
    BY <2>1, ReadyOK DEF TInv, TransportType, NoOrphanCommand, At
  <2> QED
    BY <2>2, <2>3, <2>4, <2>5 DEF TInv
<1> QED
  BY <1>1, <1>2, <1>3, <1>4 DEF TInv, TransportType

------------------------------------------------------------------------------
(* The steps of the transport. *)

(* A lane that only settles, or waits or runs where it did, keeps the invariant. *)
LEMMA SettleKeeps ==
  ASSUME TInv, NEW S \in SUBSET Lane, NEW to \in [Lane -> CallRecord],
         \A k \in S : to[k].pc \in {"done", "failed", "pause"},
         call' = [k \in Lane |-> IF k \in S THEN to[k] ELSE call[k]],
         sftpChannel' \in {sftpChannel, None, Rejected}, sftpChannel' \in Lane => sftpChannel' \notin S,
         UNCHANGED conn, connecting' \in {connecting, None}, net' \in [Conn -> NetState],
         conn # None => net'[conn] \in {"open", "broken"},
         connecting' # None => net'[connecting] = "dialing",
         sftpChannel' \in Conn => net'[sftpChannel] \in {"open", "broken"},
         sftpChannel' = Rejected => \E c \in Conn : net'[c] \in {"broken", "ended"},
         running' \in [Lane -> BOOLEAN], \A k \in Lane : running'[k] => running[k] /\ k \notin S,
         faults' \in 0 .. MaxFaults
  PROVE  TInv'
<1>1. TransportType'
  BY DEF TInv, TransportType
<1>2. \A k \in Lane : call'[k] = IF k \in S THEN to[k] ELSE call[k]
  BY DEF TInv, TransportType
<1>3. \A k \in Lane : Placed(k)'
  BY <1>2 DEF TInv, Placed
<1>4. NothingStale'
  BY <1>2 DEF TInv, TransportType, NothingStale
<1>5. NoOrphanCommand'
  BY <1>2 DEF TInv, NoOrphanCommand, At
<1> QED
  BY <1>1, <1>3, <1>4, <1>5 DEF TInv

LEMMA FaultsType ==
  ASSUME TInv, Sound \/ Faulty
  PROVE  faults' \in 0 .. MaxFaults
BY DEF TInv, TransportType, Sound, Faulty

LEMMA BusyLane ==
  ASSUME TInv, NEW k \in Lane, ~Busy(k) \/ At(k, "pause") \/ At(k, "running") \/ At(k, "joined") \/ call[k].op # "sftp"
  PROVE  sftpChannel # k
BY DEF TInv, TransportType, NothingStale, Busy, At, Unsettled

LEMMA ExecKeeps ==
  ASSUME TInv, NEW k \in Lane, NEW timed \in BOOLEAN, NEW more \in BOOLEAN, Exec(k, timed, more)
  PROVE  TInv'
<1> DEFINE r == Request("exec", more, timed)
<1>1. r \in CallRecord
  BY RequestOK
<1>2. Ready(k, r) /\ ~Busy(k) /\ UNCHANGED <<conn, sftpChannel, faults, running>>
  BY DEF Exec, Sound
<1>3. ~running[k]
  BY <1>2 DEF TInv, NoOrphanCommand, At, Busy, Unsettled
<1> HIDE DEF r
<1> QED
  BY <1>1, <1>2, <1>3, BusyLane, RequestKeeps DEF TInv, TransportType

LEMMA ReachKeeps ==
  ASSUME TInv, NEW k \in Lane, Reach(k) \/ ReachAgain(k)
  PROVE  TInv'
<1> DEFINE r == Request("reach", FALSE, TRUE)
<1>1. r \in CallRecord
  BY RequestOK
<1>2. Ready(k, r) /\ (~Busy(k) \/ At(k, "pause")) /\ UNCHANGED <<conn, sftpChannel, faults, running>>
  BY DEF Reach, ReachAgain, Sound
<1>3. ~running[k]
  BY <1>2 DEF TInv, NoOrphanCommand, At, Busy, Unsettled
<1> HIDE DEF r
<1> QED
  BY <1>1, <1>2, <1>3, BusyLane, RequestKeeps DEF TInv, TransportType

LEMMA SftpRequestKeeps ==
  ASSUME TInv, NEW k \in Lane, NEW more \in BOOLEAN, SftpRequest(k, more)
  PROVE  TInv'
<1> DEFINE r == Request("sftp", more, FALSE)
<1>1. r \in CallRecord /\ r.op = "sftp"
  BY RequestOK
<1>2. Sftp(k, r) /\ ~Busy(k) /\ UNCHANGED <<faults, running>>
  BY DEF SftpRequest, Sound
<1>3. ~running[k]
  BY <1>2 DEF TInv, NoOrphanCommand, At, Busy, Unsettled
<1> HIDE DEF r
<1> QED
  BY <1>1, <1>2, <1>3, BusyLane, SftpKeeps DEF TInv, TransportType

LEMMA CloseKeeps ==
  ASSUME TInv, Close
  PROVE  TInv'
<1>1. /\ net' \in [Conn -> NetState] /\ conn' = None /\ connecting' = None /\ sftpChannel' = None
      /\ UNCHANGED <<call, faults>>
      /\ running' \in [Lane -> BOOLEAN] /\ \A k \in Lane : running'[k] => running[k]
  BY DEF Close, TInv, TransportType, NetState
<1> QED
  BY <1>1 DEF TInv, TransportType, Placed, NothingStale, NoOrphanCommand, At

LEMMA ConnectedKeeps ==
  ASSUME TInv, NEW c \in Conn, Connected(c)
  PROVE  TInv'
<1> DEFINE onto == {k \in Lane : At(k, "ready") /\ call[k].on = c}
           to == [k \in Lane |-> IF call[k].op = "reach" THEN Settled("done") ELSE Place(call[k], "opening", c)]
<1>1. \A k \in Lane : /\ to[k] \in CallRecord
                      /\ call[k].op = "reach" => to[k].pc = "done"
                      /\ call[k].op # "reach" => to[k].pc = "opening" /\ to[k].on = c /\ to[k].op = call[k].op
  <2> SUFFICES ASSUME NEW k \in Lane
               PROVE  /\ to[k] \in CallRecord
                      /\ call[k].op = "reach" => to[k].pc = "done"
                      /\ call[k].op # "reach" => to[k].pc = "opening" /\ to[k].on = c /\ to[k].op = call[k].op
    OBVIOUS
  <2>1. call[k] \in CallRecord
    BY DEF TInv, TransportType
  <2> DEFINE moved == Place(call[k], "opening", c)
  <2>2. moved \in CallRecord /\ moved.pc = "opening" /\ moved.on = c /\ moved.op = call[k].op
    <3>1. "opening" \in CallState /\ c \in Conn \cup {None} /\ TransportType
      BY DEF CallState, Unsettled, TInv
    <3> QED
      BY <3>1, MoveOK
  <2>3. Settled("done") \in CallRecord /\ Settled("done").pc = "done"
    BY SettledOK DEF CallState
  <2>4. to[k] = IF call[k].op = "reach" THEN Settled("done") ELSE moved
    OBVIOUS
  <2> HIDE DEF moved, to
  <2> QED
    BY <2>2, <2>3, <2>4
<1>2. /\ net[c] = "dialing" /\ net' = [net EXCEPT ![c] = "open"]
      /\ conn' = c /\ connecting' = None /\ UNCHANGED <<sftpChannel, running, faults>>
      /\ call' = [k \in Lane |-> IF k \in onto THEN to[k] ELSE call[k]]
  BY DEF Connected, Sound
<1>o. \A k \in onto : k \in Lane /\ call[k].pc = "ready"
  BY DEF At
<1> HIDE DEF onto, to
<1>3. \A k \in Lane : call'[k] = IF k \in onto THEN to[k] ELSE call[k]
  BY <1>2
<1>4. TransportType'
  BY <1>1, <1>2 DEF TInv, TransportType, NetState
<1>5. \A k \in Lane : Placed(k)'
  BY <1>1, <1>3 DEF TInv, Placed
<1>6. NothingStale'
  BY <1>1, <1>2, <1>3, <1>o DEF TInv, TransportType, NothingStale
<1>7. NoOrphanCommand'
  BY <1>1, <1>2, <1>3, <1>o DEF TInv, NoOrphanCommand, At
<1> QED
  BY <1>4, <1>5, <1>6, <1>7 DEF TInv

LEMMA RefusedKeeps ==
  ASSUME TInv, NEW c \in Conn, NEW hostKey \in BOOLEAN, Refused(c, hostKey), Sound \/ Faulty
  PROVE  TInv'
<1> DEFINE opening == On(c, "sftp", "ready")
           S == {k \in Lane : At(k, "ready") /\ call[k].on = c} \cup Joined(opening)
           to == [k \in Lane |->
                   IF At(k, "ready") /\ call[k].on = c /\ call[k].op = "reach" /\ ~hostKey
                   THEN Place(call[k], "pause", None) ELSE Settled("failed")]
<1>1. to \in [Lane -> CallRecord] /\ \A k \in Lane : to[k].pc \in {"done", "failed", "pause"}
  <2> SUFFICES ASSUME NEW k \in Lane
               PROVE  to[k] \in CallRecord /\ to[k].pc \in {"done", "failed", "pause"}
    OBVIOUS
  <2>1. call[k] \in CallRecord
    BY DEF TInv, TransportType
  <2> DEFINE paused == Place(call[k], "pause", None)
  <2>2. paused \in CallRecord /\ paused.pc = "pause"
    <3>1. "pause" \in CallState /\ None \in Conn \cup {None} /\ TransportType
      BY DEF CallState, Unsettled, TInv
    <3> QED
      BY <3>1, MoveOK
  <2>3. Settled("failed") \in CallRecord /\ Settled("failed").pc = "failed"
    BY SettledOK DEF CallState
  <2>4. to[k] = paused \/ to[k] = Settled("failed")
    OBVIOUS
  <2> HIDE DEF paused, to
  <2> QED
    BY <2>2, <2>3, <2>4
<1>2. /\ net[c] = "dialing" /\ net' = [net EXCEPT ![c] = "broken"]
      /\ connecting' = None /\ UNCHANGED <<conn, running>>
      /\ sftpChannel' = IF sftpChannel \in opening THEN Rejected ELSE sftpChannel
  BY DEF Refused, Errored
<1>3. call' = [k \in Lane |-> IF k \in S THEN to[k] ELSE call[k]]
  BY DEF Refused, At, Joined
<1>4. \A k \in S : k \in Lane /\ call[k].pc \in {"ready", "joined"}
  BY DEF Joined, At
<1>5. sftpChannel' \in Lane => sftpChannel' \notin S
  BY <1>2 DEF TInv, TransportType, NothingStale, On, Joined, At
<1>6. faults' \in 0 .. MaxFaults
  BY FaultsType
<1> HIDE DEF opening, S, to
<1>7. \A k \in Lane : running'[k] => running[k] /\ k \notin S
  BY <1>2, <1>4 DEF TInv, NoOrphanCommand, At
<1>8. S \in SUBSET Lane
  BY <1>4
<1>9. /\ net' \in [Conn -> NetState]
      /\ conn # None => net'[conn] \in {"open", "broken"}
      /\ sftpChannel' \in Conn => net'[sftpChannel] \in {"open", "broken"}
      /\ sftpChannel' = Rejected => \E d \in Conn : net'[d] \in {"broken", "ended"}
      /\ running' \in [Lane -> BOOLEAN]
  BY <1>2 DEF TInv, TransportType, NothingStale, NetState
<1> QED
  BY <1>1, <1>2, <1>3, <1>5, <1>6, <1>7, <1>8, <1>9, SettleKeeps

LEMMA BrokenKeeps ==
  ASSUME TInv, NEW c \in Conn, Broken(c), Sound \/ Faulty
  PROVE  TInv'
<1>1. /\ net[c] = "open" /\ net' = [net EXCEPT ![c] = "broken"]
      /\ connecting' \in {connecting, None} /\ UNCHANGED <<conn, sftpChannel, call>>
      /\ running' \in [Lane -> BOOLEAN] /\ \A k \in Lane : running'[k] => running[k]
  BY DEF Broken, Errored, TInv, TransportType
<1>2. faults' \in 0 .. MaxFaults
  BY FaultsType
<1> QED
  BY <1>1, <1>2 DEF TInv, TransportType, Placed, NothingStale, NoOrphanCommand, At, NetState

LEMMA ClosedKeeps ==
  ASSUME TInv, NEW c \in Conn, Closed(c)
  PROVE  TInv'
<1> DEFINE S == {k \in Lane : call[k].on = c} \cup Joined(On(c, "sftp", "opening"))
           to == [k \in Lane |->
                   IF call[k].on = c /\ call[k].pc = "running" /\ call[k].op = "exec" /\ ~call[k].more
                   THEN Settled("done") ELSE Settled("failed")]
<1>1. to \in [Lane -> CallRecord] /\ \A k \in Lane : to[k].pc \in {"done", "failed", "pause"}
  <2>1. /\ Settled("done") \in CallRecord /\ Settled("done").pc = "done"
        /\ Settled("failed") \in CallRecord /\ Settled("failed").pc = "failed"
    BY SettledOK DEF CallState
  <2> QED
    BY <2>1
<1>2. /\ net[c] \in {"broken", "ended"} /\ net' = [net EXCEPT ![c] = "unused"]
      /\ conn' = None /\ sftpChannel' = None /\ UNCHANGED <<connecting, faults>>
      /\ running' = [k \in Lane |-> running[k] /\ call[k].on # c]
  BY DEF Closed, Uncached, Sound
<1>3. call' = [k \in Lane |-> IF k \in S THEN to[k] ELSE call[k]]
  BY DEF Closed
<1>4. \A k \in S : call[k].on = c \/ call[k].pc = "joined"
  BY DEF Joined, At
<1> HIDE DEF S, to
<1>5. \A k \in Lane : call'[k] = IF k \in S THEN to[k] ELSE call[k]
  BY <1>3
<1>6. TransportType'
  BY <1>1, <1>2, <1>3 DEF TInv, TransportType, NetState
<1>7. \A k \in Lane : Placed(k)'
  BY <1>1, <1>5 DEF TInv, Placed
<1>8. NothingStale'
  BY <1>2 DEF TInv, TransportType, NothingStale
<1>9. NoOrphanCommand'
  BY <1>2, <1>4, <1>5 DEF TInv, NoOrphanCommand, At
<1> QED
  BY <1>6, <1>7, <1>8, <1>9 DEF TInv

LEMMA ExecOpensKeeps ==
  ASSUME TInv, NEW k \in Lane, ExecOpens(k)
  PROVE  TInv'
<1> DEFINE r == Collects(k)
<1>1. /\ r \in CallRecord /\ r.pc \in {"failed", "running"}
      /\ r.pc = "running" => r.on \in Conn /\ r.op = "exec" /\ ~r.aborted
  <2>1. call[k] \in CallRecord /\ call[k].on \in Conn /\ call[k].op = "exec"
    BY DEF TInv, TransportType, ExecOpens, Placed, At
  <2> DEFINE goes == Place(call[k], "running", call[k].on)
  <2>2. /\ goes \in CallRecord /\ goes.pc = "running" /\ goes.on = call[k].on /\ goes.op = call[k].op
        /\ goes.aborted = call[k].aborted
    <3>1. "running" \in CallState /\ call[k].on \in Conn \cup {None} /\ TransportType
      BY <2>1 DEF CallState, Unsettled, TInv
    <3> QED
      BY <3>1, MoveOK
  <2>3. Settled("failed") \in CallRecord /\ Settled("failed").pc = "failed"
    BY SettledOK DEF CallState
  <2>4. r = IF call[k].aborted THEN Settled("failed") ELSE goes
    BY DEF Collects
  <2> HIDE DEF goes, r
  <2> QED
    BY <2>1, <2>2, <2>3, <2>4
<1>2. /\ call' = [call EXCEPT ![k] = r] /\ running' = [running EXCEPT ![k] = r.pc = "running"]
      /\ UNCHANGED <<conn, connecting, sftpChannel, net, faults>>
      /\ call[k].op = "exec"
  BY DEF ExecOpens, cached, Sound
<1> HIDE DEF r
<1>3. sftpChannel # k
  BY <1>2, BusyLane
<1>4. running' \in [Lane -> BOOLEAN] /\ running'[k] = (r.pc = "running") /\ \A j \in Lane \ {k} : running'[j] = running[j]
  BY <1>2, Zenon DEF TInv, TransportType
<1>5. call' \in [Lane -> CallRecord] /\ call'[k] = r /\ \A j \in Lane \ {k} : call'[j] = call[j]
  BY <1>1, <1>2 DEF TInv, TransportType
<1> QED
  BY <1>1, <1>2, <1>3, <1>4, <1>5 DEF TInv, TransportType, Placed, NothingStale, NoOrphanCommand, At

LEMMA SftpOpensKeeps ==
  ASSUME TInv, NEW k \in Lane, SftpOpens(k)
  PROVE  TInv'
<1> DEFINE S == {k} \cup Joined({k})
           to == [j \in Lane |-> Place(call[j], "running", call[k].on)]
<1>1. call[k].pc = "opening" /\ call[k].op = "sftp" /\ call[k].on \in Conn /\ net[call[k].on] = "open"
  BY DEF SftpOpens, TInv, Placed, At
<1>2. \A j \in Lane : to[j] \in CallRecord /\ to[j].pc = "running" /\ to[j].on = call[k].on
  <2> SUFFICES ASSUME NEW j \in Lane
               PROVE  to[j] \in CallRecord /\ to[j].pc = "running" /\ to[j].on = call[k].on
    OBVIOUS
  <2> DEFINE c == call[k].on
  <2>1. c \in Conn /\ call[j] \in CallRecord /\ to[j] = Place(call[j], "running", c)
    BY <1>1 DEF TInv, TransportType
  <2> HIDE DEF c, to
  <2>2. to[j] \in CallRecord /\ to[j].pc = "running" /\ to[j].on = c
    <3>1. "running" \in CallState /\ c \in Conn \cup {None} /\ TransportType
      BY <2>1 DEF CallState, Unsettled, TInv
    <3> QED
      BY <2>1, <3>1, MoveOK
  <2> QED
    BY <2>2 DEF c
<1>3. /\ sftpChannel' = IF sftpChannel = k THEN call[k].on ELSE sftpChannel
      /\ call' = [j \in Lane |-> IF j \in S THEN to[j] ELSE call[j]]
      /\ UNCHANGED <<conn, connecting, net, running, faults>>
  BY DEF SftpOpens, Sound
<1>4. \A j \in S : j = k \/ call[j].pc = "joined"
  BY DEF Joined, At
<1> HIDE DEF S, to
<1>5. \A j \in Lane : call'[j] = IF j \in S THEN to[j] ELSE call[j]
  BY <1>3
<1>6. TransportType'
  BY <1>1, <1>2, <1>3 DEF TInv, TransportType
<1>7. \A j \in Lane : Placed(j)'
  BY <1>1, <1>2, <1>5 DEF TInv, Placed
<1>8. NothingStale'
  BY <1>1, <1>3, <1>4, <1>5 DEF TInv, TransportType, NothingStale
<1>9. NoOrphanCommand'
  BY <1>1, <1>3, <1>4, <1>5 DEF TInv, NoOrphanCommand, At
<1> QED
  BY <1>6, <1>7, <1>8, <1>9 DEF TInv

LEMMA OpenFailsKeeps ==
  ASSUME TInv, NEW k \in Lane, OpenFails(k)
  PROVE  TInv'
<1> DEFINE S == {k} \cup Joined({k})
           to == [j \in Lane |-> Settled("failed")]
<1>1. to \in [Lane -> CallRecord] /\ \A j \in Lane : to[j].pc \in {"done", "failed", "pause"}
  <2>1. Settled("failed") \in CallRecord /\ Settled("failed").pc = "failed"
    BY SettledOK DEF CallState
  <2> QED
    BY <2>1
<1>2. /\ call[k].pc = "opening" /\ UNCHANGED <<conn, connecting, net, running>>
      /\ sftpChannel' = IF call[k].op = "sftp" THEN None ELSE sftpChannel
  BY DEF OpenFails, At
<1>3. call' = [j \in Lane |-> IF j \in S THEN to[j] ELSE call[j]]
  BY DEF OpenFails
<1>4. \A j \in S : j = k \/ call[j].pc = "joined"
  BY DEF Joined, At
<1>5. S \in SUBSET Lane
  BY DEF Joined
<1>6. faults' \in 0 .. MaxFaults
  BY FaultsType DEF OpenFails
<1> HIDE DEF S, to
<1>7. sftpChannel' \in Lane => sftpChannel' \notin S
  BY <1>2, <1>4 DEF TInv, NothingStale
<1>8. \A j \in Lane : running'[j] => running[j] /\ j \notin S
  BY <1>2, <1>4 DEF TInv, NoOrphanCommand, At
<1>9. /\ sftpChannel' \in {sftpChannel, None, Rejected} /\ connecting' \in {connecting, None}
      /\ net' \in [Conn -> NetState] /\ running' \in [Lane -> BOOLEAN]
      /\ conn # None => net'[conn] \in {"open", "broken"}
      /\ connecting' # None => net'[connecting] = "dialing"
      /\ sftpChannel' \in Conn => net'[sftpChannel] \in {"open", "broken"}
      /\ sftpChannel' = Rejected => \E c \in Conn : net'[c] \in {"broken", "ended"}
  BY <1>2 DEF TInv, TransportType, NothingStale
<1> QED
  BY <1>1, <1>2, <1>3, <1>5, <1>6, <1>7, <1>8, <1>9, SettleKeeps

LEMMA SftpClosesKeeps ==
  ASSUME TInv, NEW c \in Conn, SftpCloses(c)
  PROVE  TInv'
<1> DEFINE to == [j \in Lane |-> Settled("failed")]
<1>1. to \in [Lane -> CallRecord] /\ \A j \in Lane : to[j].pc \in {"done", "failed", "pause"}
  <2>1. Settled("failed") \in CallRecord /\ Settled("failed").pc = "failed"
    BY SettledOK DEF CallState
  <2> QED
    BY <2>1
<1>2. PICK S \in SUBSET On(c, "sftp", "running") :
        call' = [k \in Lane |-> IF k \in S THEN Settled("failed") ELSE call[k]]
  BY DEF SftpCloses
<1>3. S \in SUBSET Lane /\ \A k \in S : call[k].op = "sftp"
  BY <1>2 DEF On
<1>4. sftpChannel' = None /\ UNCHANGED <<conn, connecting, net, running>>
  BY DEF SftpCloses
<1>5. faults' \in 0 .. MaxFaults
  BY FaultsType DEF SftpCloses
<1>6. call' = [k \in Lane |-> IF k \in S THEN to[k] ELSE call[k]]
  BY <1>2, <1>3
<1> HIDE DEF to
<1>7. \A j \in Lane : running'[j] => running[j] /\ j \notin S
  BY <1>3, <1>4 DEF TInv, NoOrphanCommand
<1>8. /\ connecting' \in {connecting, None}
      /\ net' \in [Conn -> NetState] /\ running' \in [Lane -> BOOLEAN]
      /\ conn # None => net'[conn] \in {"open", "broken"}
      /\ connecting' # None => net'[connecting] = "dialing"
  BY <1>4 DEF TInv, TransportType, NothingStale
<1> QED
  BY <1>1, <1>3, <1>4, <1>5, <1>6, <1>7, <1>8, SettleKeeps DEF TInv, TransportType

(* One call settles, and nothing else of the transport changes. *)
LEMMA OneSettles ==
  ASSUME TInv, NEW k \in Lane, NEW pc \in {"done", "failed"}, sftpChannel # k,
         call' = [call EXCEPT ![k] = Settled(pc)], UNCHANGED <<cached, net, faults>>,
         running' \in [Lane -> BOOLEAN], ~running'[k], \A j \in Lane : running'[j] => running[j]
  PROVE  TInv'
<1> DEFINE r == Settled(pc)
<1>1. r \in CallRecord /\ r.pc = pc
  BY SettledOK DEF CallState
<1> HIDE DEF r
<1>2. call' \in [Lane -> CallRecord] /\ call'[k] = r /\ \A j \in Lane \ {k} : call'[j] = call[j]
  BY <1>1 DEF TInv, TransportType, r
<1>3. UNCHANGED <<conn, connecting, sftpChannel, net, faults>>
  BY DEF cached
<1> QED
  BY <1>1, <1>2, <1>3 DEF TInv, TransportType, Placed, NothingStale, NoOrphanCommand, At

LEMMA AnswersKeep ==
  ASSUME TInv, NEW k \in Lane, Exits(k) \/ Answered(k)
  PROVE  TInv'
<1> DEFINE r == Request("sftp", FALSE, FALSE)
<1>1. r \in CallRecord /\ r.op = "sftp"
  BY RequestOK
<1>2. At(k, "running") /\ UNCHANGED faults
  BY DEF Exits, Answered, Sound
<1>3. running' \in [Lane -> BOOLEAN] /\ ~running'[k] /\ \A j \in Lane : running'[j] => running[j]
  <2>1. CASE Exits(k)
    <3>1. running' = [running EXCEPT ![k] = FALSE]
      BY <2>1 DEF Exits
    <3> QED
      BY <3>1 DEF TInv, TransportType
  <2>2. CASE Answered(k)
    <3>1. UNCHANGED running /\ call[k].op = "sftp"
      BY <2>2 DEF Answered
    <3> QED
      BY <3>1 DEF TInv, TransportType, NoOrphanCommand
  <2> QED
    BY <2>1, <2>2
<1>4. \/ \E pc \in {"done", "failed"} : call' = [call EXCEPT ![k] = Settled(pc)] /\ UNCHANGED <<cached, net>>
      \/ Sftp(k, r)
  BY DEF Exits, Answered
<1> HIDE DEF r
<1>5. sftpChannel # k
  BY <1>2, BusyLane
<1> QED
  BY <1>1, <1>2, <1>3, <1>4, <1>5, OneSettles, SftpKeeps

LEMMA TimersKeep ==
  ASSUME TInv, NEW k \in Lane, TimesOut(k) \/ ReachEnds(k)
  PROVE  TInv'
<1>1. (At(k, "running") \/ At(k, "pause")) /\ UNCHANGED <<cached, net, faults>>
      /\ call' = [call EXCEPT ![k] = Settled("failed")]
  BY DEF TimesOut, ReachEnds, Sound
<1>2. running' \in [Lane -> BOOLEAN] /\ ~running'[k] /\ \A j \in Lane : running'[j] => running[j]
  <2>1. CASE TimesOut(k)
    <3>1. running' = [running EXCEPT ![k] = FALSE]
      BY <2>1 DEF TimesOut, Killed
    <3> QED
      BY <3>1 DEF TInv, TransportType
  <2>2. CASE ReachEnds(k)
    BY <2>2 DEF ReachEnds, TInv, TransportType, NoOrphanCommand, At
  <2> QED
    BY <2>1, <2>2
<1> QED
  BY <1>1, <1>2, BusyLane, OneSettles

LEMMA AbortsKeep ==
  ASSUME TInv, NEW k \in Lane, Aborts(k)
  PROVE  TInv'
<1>1. call[k].op = "exec" /\ UNCHANGED <<cached, net, faults>>
  BY DEF Aborts, Sound
<1>2. CASE At(k, "running")
  <2>1. call' = [call EXCEPT ![k] = Settled("failed")] /\ running' = [running EXCEPT ![k] = FALSE]
    BY <1>2 DEF Aborts, Killed
  <2>2. running' \in [Lane -> BOOLEAN] /\ ~running'[k] /\ \A j \in Lane : running'[j] => running[j]
    BY <2>1 DEF TInv, TransportType
  <2> QED
    BY <1>1, <1>2, <2>1, <2>2, BusyLane, OneSettles
<1>3. CASE ~At(k, "running")
  <2>1. call' = [call EXCEPT ![k].aborted = TRUE] /\ UNCHANGED running
    BY <1>3 DEF Aborts
  <2>2. call[k] \in CallRecord
    BY DEF TInv, TransportType
  <2>3. /\ call' \in [Lane -> CallRecord] /\ \A j \in Lane \ {k} : call'[j] = call[j]
        /\ call'[k].pc = call[k].pc /\ call'[k].op = call[k].op /\ call'[k].on = call[k].on
    BY <2>1, <2>2 DEF TInv, TransportType, CallRecord
  <2>4. UNCHANGED <<conn, connecting, sftpChannel, net, faults>>
    BY <1>1 DEF cached
  <2> QED
    BY <1>1, <1>3, <2>1, <2>3, <2>4 DEF TInv, TransportType, Placed, NothingStale, NoOrphanCommand, At
<1> QED
  BY <1>2, <1>3

LEMMA TimePassesKeeps ==
  ASSUME TInv, NEW k \in Lane, TimePasses(k)
  PROVE  TInv'
<1>1. call' = [call EXCEPT ![k].timed = FALSE] /\ UNCHANGED <<conn, connecting, sftpChannel, net, running, faults>>
  BY DEF TimePasses, cached, Sound
<1>2. call[k] \in CallRecord
  BY DEF TInv, TransportType
<1>3. /\ call' \in [Lane -> CallRecord] /\ \A j \in Lane \ {k} : call'[j] = call[j]
      /\ call'[k].pc = call[k].pc /\ call'[k].op = call[k].op /\ call'[k].on = call[k].on
      /\ call'[k].aborted = call[k].aborted
  BY <1>1, <1>2 DEF TInv, TransportType, CallRecord
<1> QED
  BY <1>1, <1>3 DEF TInv, TransportType, Placed, NothingStale, NoOrphanCommand, At

LEMMA StillKeeps ==
  ASSUME TInv, Calm \/ Fault
  PROVE  TInv'
<1>1. UNCHANGED <<conn, connecting, sftpChannel, net, call, running>> /\ (UNCHANGED faults \/ Faulty)
  BY DEF Calm, Fault, transport, cached
<1>2. faults' \in 0 .. MaxFaults
  BY <1>1, FaultsType DEF Sound
<1> QED
  BY <1>1, <1>2 DEF TInv, TransportType, Placed, NothingStale, NoOrphanCommand, At

------------------------------------------------------------------------------
(* The steps of the platform. *)

LEMMA TaskTypes ==
  ASSUME NEW op \in {"create", "set", "unset", "expose", "unexpose", "delete"}, NEW pc \in Steps,
         NEW names \in SUBSET (Var \cup Label)
  PROVE  /\ Task(op, pc, names) \in TaskRecord
         /\ Task(op, pc, names).op = op /\ Task(op, pc, names).pc = pc
         /\ Task(op, pc, names).names = names
  BY DEF Task, TaskRecord

LEMMA NoTaskType == NoTask \in TaskRecord /\ NoTask.op = "none" /\ NoTask.pc = "idle"
  BY DEF NoTask, TaskRecord

LEMMA Moves ==
  ASSUME PlatformType, NEW k \in Lane, NEW pc \in Steps, Goes(k, pc)
  PROVE  /\ task' \in [Lane -> TaskRecord] /\ \A j \in Lane \ {k} : task'[j] = task[j]
         /\ task'[k].op = task[k].op /\ task'[k].pc = pc /\ task'[k].seen = task[k].seen
         /\ task'[k].names = task[k].names
<1>1. task[k] \in TaskRecord
  BY DEF PlatformType
<1> QED
  BY <1>1 DEF Goes, PlatformType, TaskRecord

LEMMA Ended ==
  ASSUME PlatformType, NEW k \in Lane, Ends(k)
  PROVE  /\ task' \in [Lane -> TaskRecord] /\ \A j \in Lane \ {k} : task'[j] = task[j]
         /\ task'[k].op = "none" /\ task'[k].pc = "idle"
  BY NoTaskType DEF Ends, PlatformType

(* A task goes on, or ends, while the app and its object stay. *)
LEMMA GoesKeeps ==
  ASSUME PInv, NEW k \in Lane, NEW pc \in Steps, Goes(k, pc), pc \notin {"put", "post"},
         task[k].op = "create" => pc \in CreateSteps /\ task[k].pc # "post",
         task[k].op # "none",
         UNCHANGED <<app, env, made, orderly, calls>>,
         endpoints' \in SUBSET Label, pinned' \in {"none", "this", "other"}
  PROVE  PInv'
<1>1. PlatformType'
  BY Moves DEF PInv, PlatformType
<1>2. \A j \in Lane : TaskOK(j)'
  BY Moves DEF PInv, TaskOK
<1>3. OneCreate'
  BY Moves DEF PInv, OneCreate
<1>4. Retrievable'
  BY Moves DEF PInv, Retrievable, Exists
<1> QED
  BY <1>1, <1>2, <1>3, <1>4 DEF PInv

LEMMA EndsKeeps ==
  ASSUME PInv, NEW k \in Lane, Ends(k), task[k].op # "create" \/ ~Exists \/ ~orderly',
         UNCHANGED <<app, env, made, calls>>, orderly' \in BOOLEAN, orderly' => orderly,
         endpoints' \in SUBSET Label, pinned' \in {"none", "this", "other"}
  PROVE  PInv'
<1>1. PlatformType'
  BY Ended DEF PInv, PlatformType
<1>2. \A j \in Lane : TaskOK(j)'
  BY Ended DEF PInv, TaskOK
<1>3. OneCreate'
  BY Ended DEF PInv, OneCreate
<1>4. Retrievable'
  BY Ended DEF PInv, Retrievable, Exists
<1> QED
  BY <1>1, <1>2, <1>3, <1>4 DEF PInv

LEMMA FailsKeeps ==
  ASSUME PInv, NEW k \in Lane, Fails(k), task[k].pc # "post", task[k].op # "none",
         UNCHANGED <<app, env, made, orderly, calls>>,
         endpoints' \in SUBSET Label, pinned' \in {"none", "this", "other"}
  PROVE  PInv'
<1>1. CASE task[k].op = "create"
  BY <1>1, GoesKeeps DEF Fails, Steps, CreateSteps
<1>2. CASE task[k].op # "create"
  BY <1>2, EndsKeeps DEF Fails, PInv, PlatformType
<1> QED
  BY <1>1, <1>2

(* The work of create is done: the object is there. *)
LEMMA MadeKeeps ==
  ASSUME PInv, NEW k \in Lane, Ends(k), task[k].pc \notin {"post", "idle"}, made' = TRUE,
         UNCHANGED <<app, env, endpoints, pinned, orderly, calls>>
  PROVE  PInv'
<1>1. PlatformType'
  BY Ended DEF PInv, PlatformType
<1>2. \A j \in Lane \ {k} : task[j].op # "create"
  BY DEF PInv, TaskOK, OneCreate
<1>3. \A j \in Lane : TaskOK(j)'
  BY <1>2, Ended DEF PInv, TaskOK
<1>4. OneCreate'
  BY <1>2, Ended DEF PInv, OneCreate
<1>5. Retrievable' /\ app' # "none"
  BY DEF PInv, Retrievable, Exists, TaskOK
<1> QED
  BY <1>1, <1>3, <1>4, <1>5 DEF PInv

(* A call that changes the app, once the object is there. *)
LEMMA AppKeeps ==
  ASSUME PInv, NEW k \in Lane, Goes(k, "forget") \/ Ends(k), made,
         app' \in {"starting", "up", "gone"}, env' \in SUBSET (Var \cup {Token}),
         app' \in {"starting", "up"} => Token \in env',
         task[k].op # "none", UNCHANGED <<endpoints, pinned, made, orderly, calls>>
  PROVE  PInv'
<1>0. \A j \in Lane : task[j].op # "create"
  BY DEF PInv, TaskOK
<1>1. /\ task' \in [Lane -> TaskRecord] /\ \A j \in Lane \ {k} : task'[j] = task[j]
      /\ \/ task'[k].op = "none" /\ task'[k].pc = "idle"
         \/ task'[k].op = task[k].op /\ task'[k].pc = "forget" /\ task'[k].names = task[k].names
            /\ task[k].op # "none"
  BY Ended, Moves DEF PInv, TaskOK, Steps, Goes, PlatformType
<1>2. PlatformType'
  BY <1>1 DEF PInv, PlatformType
<1>3. \A j \in Lane : TaskOK(j)'
  BY <1>0, <1>1 DEF PInv, TaskOK
<1>4. OneCreate'
  BY <1>0, <1>1 DEF OneCreate
<1>5. Retrievable'
  BY DEF Retrievable, Exists
<1> QED
  BY <1>2, <1>3, <1>4, <1>5 DEF PInv

(* A call begins. *)
LEMMA BegunKeeps ==
  ASSUME PInv, NEW k \in Lane, made, Begins,
         NEW op \in {"set", "unset", "expose", "unexpose", "delete"}, NEW pc \in Steps \ {"put"},
         NEW names \in SUBSET (Var \cup Label), op = "set" => names \subseteq Var,
         task' = [task EXCEPT ![k] = Task(op, pc, names)],
         UNCHANGED <<service, pinned, made, orderly>>
  PROVE  PInv'
<1> DEFINE t == Task(op, pc, names)
<1>1. t \in TaskRecord /\ t.op = op /\ t.pc = pc /\ t.names = names
  BY TaskTypes
<1> HIDE DEF t
<1>2. /\ task' \in [Lane -> TaskRecord] /\ \A j \in Lane \ {k} : task'[j] = task[j]
      /\ task'[k] = t
  BY <1>1 DEF PInv, PlatformType, t
<1>3. calls' \in 0 .. MaxCalls
  BY DEF Begins, PInv, PlatformType
<1>4. UNCHANGED <<app, env, endpoints, pinned, made, orderly>>
  BY DEF service
<1>5. PlatformType'
  BY <1>2, <1>3, <1>4 DEF PInv, PlatformType
<1>6. \A j \in Lane : TaskOK(j)'
  BY <1>1, <1>2, <1>4 DEF PInv, TaskOK
<1>7. OneCreate'
  BY <1>1, <1>2 DEF PInv, OneCreate
<1>8. Retrievable'
  BY <1>4 DEF PInv, Retrievable, Exists
<1> QED
  BY <1>4, <1>5, <1>6, <1>7, <1>8 DEF PInv

(* The tasks and the app stay as they are. *)
LEMMA PlatformStays ==
  ASSUME PInv, UNCHANGED <<app, env, endpoints, task, made, orderly>>,
         pinned' \in {"none", "this", "other"}, calls' \in 0 .. MaxCalls
  PROVE  PInv'
BY DEF PInv, PlatformType, TaskOK, OneCreate, Retrievable, Exists

LEMMA CreateKeeps ==
  ASSUME PInv, NEW k \in Lane, NEW ports \in SUBSET Label, Create(k, ports)
  PROVE  PInv'
<1> DEFINE t == Task("create", "post", ports)
<1>1. t \in TaskRecord /\ t.op = "create" /\ t.pc = "post" /\ t.names = ports
  <2>1. "post" \in Steps /\ ports \in SUBSET (Var \cup Label)
    BY DEF Steps
  <2> QED
    BY <2>1, TaskTypes
<1>2. task' = [task EXCEPT ![k] = t]
  BY DEF Create
<1> HIDE DEF t
<1>3. \A j \in Lane : task[j].op = "none" /\ task[j].pc = "idle"
  BY NoTaskType DEF Create, Idle
<1>4. /\ UNCHANGED <<app, env, endpoints, pinned, made, orderly>> /\ app = "none"
      /\ calls' \in 0 .. MaxCalls
  BY DEF Create, service, Begins, PInv, PlatformType
<1>5. /\ task' \in [Lane -> TaskRecord] /\ task'[k] = t
      /\ \A j \in Lane \ {k} : task'[j] = task[j]
  BY <1>1, <1>2 DEF PInv, PlatformType
<1>6. PlatformType'
  BY <1>4, <1>5 DEF PInv, PlatformType
<1>7. ~made'
  BY <1>4, Zenon DEF PInv
<1>8. \A j \in Lane : TaskOK(j)'
  BY <1>1, <1>3, <1>4, <1>5, <1>7 DEF PInv, TaskOK, CreateSteps
<1>9. OneCreate'
  BY <1>3, <1>5 DEF OneCreate
<1>10. Retrievable'
  BY <1>4 DEF Retrievable, Exists
<1> QED
  BY <1>6, <1>7, <1>8, <1>9, <1>10 DEF PInv

LEMMA PostKeeps ==
  ASSUME PInv, NEW k \in Lane, Post(k)
  PROVE  PInv'
<1>1. /\ task[k].op = "create" /\ task[k].pc = "post"
      /\ app' = "starting" /\ env' = Initial \cup {Token} /\ UNCHANGED <<endpoints, pinned, made, calls>>
  BY DEF Post, Does
<1>2. \/ Goes(k, "host") /\ UNCHANGED orderly
      \/ Ends(k) /\ orderly' = FALSE
  BY DEF Post
<1>3. \A j \in Lane \ {k} : task[j].op # "create"
  BY <1>1 DEF PInv, OneCreate
<1>4. /\ task' \in [Lane -> TaskRecord] /\ \A j \in Lane \ {k} : task'[j] = task[j]
      /\ \/ task'[k].op = "create" /\ task'[k].pc = "host" /\ UNCHANGED orderly
         \/ task'[k].op = "none" /\ task'[k].pc = "idle" /\ orderly' = FALSE
  <2>1. CASE Goes(k, "host")
    BY <1>1, <1>2, <2>1, Moves, Ended DEF PInv, Steps
  <2>2. CASE Ends(k) /\ orderly' = FALSE
    BY <2>2, Ended DEF PInv
  <2> QED
    BY <1>2, <2>1, <2>2
<1>5. PlatformType'
  BY <1>1, <1>4 DEF PInv, PlatformType
<1>6. \A j \in Lane : TaskOK(j)'
  BY <1>1, <1>3, <1>4 DEF PInv, TaskOK, CreateSteps
<1>7. OneCreate'
  BY <1>3, <1>4 DEF OneCreate
<1>8. Retrievable'
  BY <1>1, <1>4 DEF Retrievable, Exists
<1> QED
  BY <1>1, <1>5, <1>6, <1>7, <1>8 DEF PInv

LEMMA CleanupKeeps ==
  ASSUME PInv, NEW k \in Lane, Cleanup(k)
  PROVE  PInv'
<1>1. /\ task[k].op = "create" /\ Ends(k) /\ UNCHANGED <<env, endpoints, pinned, made, calls>>
      /\ \/ app' = "gone" /\ UNCHANGED orderly
         \/ UNCHANGED app /\ orderly' = FALSE
  BY DEF Cleanup, Does
<1>2. CASE app' = "gone" /\ UNCHANGED orderly
  <2>1. \A j \in Lane \ {k} : task[j].op # "create"
    BY <1>1 DEF PInv, OneCreate
  <2>2. PlatformType'
    BY <1>1, <1>2, Ended DEF PInv, PlatformType
  <2>3. \A j \in Lane : TaskOK(j)'
    BY <1>1, <1>2, <2>1, Ended DEF PInv, TaskOK
  <2> QED
    BY <1>1, <1>2, <2>1, <2>2, <2>3, Ended DEF PInv, OneCreate, Retrievable, Exists
<1>3. CASE UNCHANGED app /\ orderly' = FALSE
  BY <1>1, <1>3, EndsKeeps DEF PInv, PlatformType
<1> QED
  BY <1>1, <1>2, <1>3

LEMMA EarlyKeep ==
  ASSUME PInv, NEW k \in Lane, PostFails(k) \/ Host(k) \/ Reached(k)
  PROVE  PInv'
<1>1. CASE PostFails(k)
  <2>1. task[k].op = "create" /\ task[k].pc = "post" /\ (task' = task \/ Ends(k))
        /\ UNCHANGED <<app, env, endpoints, pinned, made, orderly, calls>>
    BY <1>1 DEF PostFails, Does, Same, service
  <2>2. CASE task' = task
    BY <2>1, <2>2, PlatformStays DEF PInv, PlatformType
  <2>3. CASE Ends(k)
    <3>1. ~Exists
      BY <2>1 DEF PInv, TaskOK, Exists
    <3> QED
      BY <2>1, <2>3, <3>1, EndsKeeps DEF PInv, PlatformType
  <2> QED
    BY <2>1, <2>2, <2>3
<1>2. CASE Host(k)
  <2>1. task[k].op = "create" /\ task[k].pc = "host" /\ (Goes(k, "reach") \/ Fails(k))
        /\ UNCHANGED <<app, env, endpoints, pinned, made, orderly, calls>>
    BY <1>2 DEF Host, Does, Same, service
  <2>2. "reach" \in Steps /\ "reach" \in CreateSteps
    BY DEF Steps, CreateSteps
  <2> QED
    BY <2>1, <2>2, GoesKeeps, FailsKeeps DEF PInv, PlatformType
<1>3. CASE Reached(k)
  <2>1. task[k].op = "create" /\ task[k].pc = "reach"
        /\ UNCHANGED <<app, env, endpoints, pinned, orderly, calls>>
        /\ (((Goes(k, "find") \/ Fails(k)) /\ UNCHANGED made) \/ (Ends(k) /\ made' = TRUE))
    BY <1>3 DEF Reached, Does, service
  <2>2. "find" \in Steps /\ "find" \in CreateSteps
    BY DEF Steps, CreateSteps
  <2> QED
    BY <2>1, <2>2, GoesKeeps, FailsKeeps, MadeKeeps DEF PInv, PlatformType
<1> QED
  BY <1>1, <1>2, <1>3

LEMMA ExposeKeeps ==
  ASSUME PInv, NEW k \in Lane, FindEndpoint(k) \/ AddEndpoint(k) \/ PublicHost(k)
  PROVE  PInv'
<1>0. /\ {"wait", "add"} \subseteq Steps /\ {"wait", "add"} \subseteq CreateSteps
      /\ task[k].pc # "idle" => task[k].op # "none"
      /\ endpoints \in SUBSET Label /\ pinned \in {"none", "this", "other"}
  BY DEF Steps, CreateSteps, PInv, PlatformType, TaskOK
<1>1. CASE FindEndpoint(k)
  <2>1. task[k].pc = "find" /\ UNCHANGED <<app, env, endpoints, pinned, made, orderly, calls>>
        /\ (Goes(k, "wait") \/ Goes(k, "add") \/ Fails(k))
    BY <1>1 DEF FindEndpoint, Same, service
  <2> QED
    BY <1>0, <2>1, GoesKeeps, FailsKeeps
<1>2. CASE AddEndpoint(k)
  <2>1. task[k].pc = "add" /\ UNCHANGED <<app, env, pinned, made, orderly, calls>>
        /\ (Goes(k, "wait") \/ Fails(k))
    BY <1>2 DEF AddEndpoint
  <2>2. endpoints' \in SUBSET Label
    BY <1>0, <1>2 DEF AddEndpoint, Ports
  <2> QED
    BY <1>0, <2>1, <2>2, GoesKeeps, FailsKeeps
<1>3. CASE PublicHost(k)
  <2>1. task[k].pc = "wait" /\ UNCHANGED <<app, env, endpoints, pinned, orderly, calls>>
        /\ ((Ends(k) /\ made' = TRUE) \/ (Fails(k) /\ UNCHANGED made))
    BY <1>3 DEF PublicHost, service
  <2> QED
    BY <1>0, <2>1, MadeKeeps, FailsKeeps
<1> QED
  BY <1>1, <1>2, <1>3

LEMMA UnexposeKeeps ==
  ASSUME PInv, NEW k \in Lane, ListEndpoints(k) \/ RemoveEndpoint(k)
  PROVE  PInv'
<1>0. /\ "remove" \in Steps /\ task[k].op # "none" /\ task[k].op # "create"
      /\ endpoints \in SUBSET Label /\ pinned \in {"none", "this", "other"} /\ orderly \in BOOLEAN
  BY DEF Steps, CreateSteps, PInv, PlatformType, TaskOK, ListEndpoints, RemoveEndpoint
<1>1. CASE ListEndpoints(k)
  <2>1. UNCHANGED <<app, env, endpoints, pinned, made, orderly, calls>> /\ (Goes(k, "remove") \/ Ends(k))
    BY <1>1 DEF ListEndpoints, Same, service
  <2> QED
    BY <1>0, <2>1, GoesKeeps, EndsKeeps
<1>2. CASE RemoveEndpoint(k)
  <2>1. UNCHANGED <<app, env, pinned, made, orderly, calls>> /\ Ends(k)
    BY <1>2 DEF RemoveEndpoint
  <2>2. endpoints' \in SUBSET Label
    BY <1>0, <1>2 DEF RemoveEndpoint
  <2> QED
    BY <1>0, <2>1, <2>2, EndsKeeps
<1> QED
  BY <1>1, <1>2

LEMMA EnvKeeps ==
  ASSUME PInv, NEW k \in Lane, Fetch(k) \/ Put(k)
  PROVE  PInv'
<1>0. /\ task[k].op # "none" /\ task[k].op # "create" /\ made
      /\ endpoints \in SUBSET Label /\ pinned \in {"none", "this", "other"} /\ orderly \in BOOLEAN
  BY DEF CreateSteps, PInv, PlatformType, TaskOK, Fetch, Put
<1>1. CASE Fetch(k)
  <2>1. UNCHANGED <<app, env, endpoints, pinned, made, orderly, calls>>
    BY <1>1 DEF Fetch, Same, service
  <2>2. CASE Ends(k)
    BY <1>0, <2>1, <2>2, EndsKeeps
  <2>3. CASE Exists /\ task' = [task EXCEPT ![k].pc = "put", ![k].seen = env]
    <3>1. task[k] \in TaskRecord /\ env \in SUBSET (Var \cup {Token}) /\ Token \in env
      BY <2>3 DEF PInv, PlatformType, Retrievable
    <3>2. /\ task' \in [Lane -> TaskRecord] /\ \A j \in Lane \ {k} : task'[j] = task[j]
          /\ task'[k].op = task[k].op /\ task'[k].pc = "put" /\ task'[k].seen = env
          /\ task'[k].names = task[k].names
      BY <2>3, <3>1 DEF PInv, PlatformType, TaskRecord, Steps
    <3>3. PlatformType'
      BY <2>1, <3>2 DEF PInv, PlatformType
    <3>4. \A j \in Lane : TaskOK(j)'
      BY <1>0, <2>1, <3>1, <3>2 DEF PInv, TaskOK
    <3>5. OneCreate'
      BY <3>2 DEF PInv, OneCreate
    <3>6. Retrievable'
      BY <2>1, <3>2 DEF PInv, Retrievable, Exists
    <3> QED
      BY <2>1, <3>3, <3>4, <3>5, <3>6 DEF PInv
  <2> QED
    BY <1>1, <2>2, <2>3 DEF Fetch
<1>2. CASE Put(k)
  <2>1. task[k].pc = "put" /\ Ends(k) /\ UNCHANGED <<endpoints, pinned, made, orderly, calls>>
        /\ ((app' = "starting" /\ env' = Replacement(task[k])) \/ UNCHANGED <<app, env>>)
    BY <1>2 DEF Put
  <2>2. task[k] \in TaskRecord /\ Token \in task[k].seen /\ (task[k].op = "set" => task[k].names \subseteq Var)
    BY <2>1 DEF PInv, PlatformType, TaskOK
  <2>3. Token \in Replacement(task[k]) /\ Replacement(task[k]) \in SUBSET (Var \cup {Token})
    BY <2>2 DEF TaskRecord, Replacement
  <2>4. CASE app' = "starting" /\ env' = Replacement(task[k])
    BY <1>0, <2>1, <2>3, <2>4, AppKeeps
  <2>5. CASE UNCHANGED <<app, env>>
    BY <1>0, <2>1, <2>5, EndsKeeps
  <2> QED
    BY <2>1, <2>4, <2>5
<1> QED
  BY <1>1, <1>2

LEMMA DeleteKeeps ==
  ASSUME PInv, NEW k \in Lane, DeleteApp(k) \/ Forget(k)
  PROVE  PInv'
<1>0. /\ task[k].op # "none" /\ task[k].op # "create" /\ made
      /\ endpoints \in SUBSET Label /\ pinned \in {"none", "this", "other"} /\ orderly \in BOOLEAN
      /\ env \in SUBSET (Var \cup {Token})
  BY DEF CreateSteps, PInv, PlatformType, TaskOK, DeleteApp, Forget
<1>1. CASE DeleteApp(k)
  <2>1. /\ UNCHANGED <<env, endpoints, pinned, made, orderly, calls>>
        /\ \/ app' = "gone" /\ (Goes(k, "forget") \/ Ends(k))
           \/ UNCHANGED app /\ Ends(k)
    BY <1>1 DEF DeleteApp
  <2>2. CASE app' = "gone" /\ (Goes(k, "forget") \/ Ends(k))
    BY <1>0, <2>1, <2>2, AppKeeps
  <2>3. CASE UNCHANGED app /\ Ends(k)
    BY <1>0, <2>1, <2>3, EndsKeeps
  <2> QED
    BY <2>1, <2>2, <2>3
<1>2. CASE Forget(k)
  <2>1. Ends(k) /\ pinned' = "none" /\ UNCHANGED <<app, env, endpoints, made, orderly, calls>>
    BY <1>2 DEF Forget, service
  <2> QED
    BY <1>0, <2>1, EndsKeeps
<1> QED
  BY <1>1, <1>2

LEMMA StartsKeep ==
  ASSUME PInv, NEW k \in Lane, Starts(k)
  PROVE  PInv'
<1>1. CASE \E ports \in SUBSET Label : Create(k, ports)
  BY <1>1, CreateKeeps
<1>2. ASSUME NEW ports \in SUBSET Label, StartExpose(k, ports) \/ StartUnexpose(k, ports)
      PROVE  PInv'
  <2>1. {"find", "list"} \subseteq Steps \ {"put"} /\ ports \in SUBSET (Var \cup Label)
    BY DEF Steps
  <2>2. CASE StartExpose(k, ports)
    BY <2>1, <2>2, BegunKeeps DEF StartExpose
  <2>3. CASE StartUnexpose(k, ports)
    BY <2>1, <2>3, BegunKeeps DEF StartUnexpose
  <2> QED
    BY <1>2, <2>2, <2>3
<1>3. ASSUME NEW op \in {"set", "unset"}, NEW names \in SUBSET (Var \cup {Token}), StartEnv(k, op, names)
      PROVE  PInv'
  <2>1. "fetch" \in Steps \ {"put"} /\ names \in SUBSET (Var \cup Label) /\ names \subseteq Var
    BY <1>3 DEF Steps, StartEnv
  <2> QED
    BY <1>3, <2>1, BegunKeeps DEF StartEnv
<1>4. CASE StartDelete(k)
  <2>1. "delete" \in Steps \ {"put"} /\ {} \in SUBSET (Var \cup Label)
    BY DEF Steps
  <2> QED
    BY <1>4, <2>1, BegunKeeps DEF StartDelete
<1>5. CASE StartCall(k)
  BY <1>5, PlatformStays DEF StartCall, service, Begins, PInv, PlatformType
<1> QED
  BY <1>1, <1>2, <1>3, <1>4, <1>5 DEF Starts

LEMMA WorksKeep ==
  ASSUME PInv, NEW k \in Lane, Works(k)
  PROVE  PInv'
BY PostKeeps, CleanupKeeps, EarlyKeep, ExposeKeeps, UnexposeKeeps, EnvKeeps, DeleteKeeps DEF Works

LEMMA PlatformKeeps ==
  ASSUME PInv, [SandboxNext]_sandbox
  PROVE  PInv'
<1>1. ASSUME NEW k \in Lane, Starts(k) \/ Works(k)
      PROVE  PInv'
  BY <1>1, StartsKeep, WorksKeep
<1>2. CASE UNCHANGED platform
  BY <1>2, PlatformStays DEF platform, PInv, PlatformType
<1>3. ASSUME NEW k \in Lane, Channel(k)
      PROVE  PInv'
  BY <1>2, <1>3 DEF Channel, Opens, Answers, Exit, Timeout, Abort, Wait, Deadline
<1>4. ASSUME NEW c \in Conn, Connection(c)
      PROVE  PInv'
  <2>1. CASE Accept(c) \/ Refuse(c)
    BY <2>1, PlatformStays DEF Accept, Refuse, service, PInv, PlatformType
  <2>2. CASE Break(c) \/ Gone(c) \/ Shut(c)
    BY <1>2, <2>2 DEF Break, Gone, Shut
  <2> QED
    BY <1>4, <2>1, <2>2 DEF Connection
<1>5. CASE Disconnect
  BY <1>5, PlatformStays DEF Disconnect, service, Begins, PInv, PlatformType
<1>6. CASE AgentStarts
  BY <1>6 DEF AgentStarts, PInv, PlatformType, TaskOK, OneCreate, Retrievable, Exists
<1>7. CASE UNCHANGED sandbox
  BY <1>2, <1>7 DEF sandbox
<1> QED
  BY <1>1, <1>3, <1>4, <1>5, <1>6, <1>7 DEF SandboxNext

LEMMA TransportKeeps ==
  ASSUME TInv, [SandboxNext]_sandbox
  PROVE  TInv'
<1>0. CASE Calm \/ Fault
  BY <1>0, StillKeeps
<1>1. ASSUME NEW k \in Lane, Starts(k)
      PROVE  TInv'
  <2>1. CASE StartDelete(k)
    BY <2>1, CloseKeeps DEF StartDelete
  <2>2. CASE StartCall(k)
    BY <2>2, ExecKeeps, SftpRequestKeeps DEF StartCall
  <2>3. CASE ~StartDelete(k) /\ ~StartCall(k)
    BY <1>0, <1>1, <2>3 DEF Starts, Create, StartExpose, StartUnexpose, StartEnv
  <2> QED
    BY <2>1, <2>2, <2>3
<1>2. ASSUME NEW k \in Lane, Works(k)
      PROVE  TInv'
  <2>1. CASE Host(k)
    BY <1>0, <2>1, ReachKeeps DEF Host
  <2>2. CASE ~Host(k)
    BY <1>0, <1>2, <2>2 DEF Works, Post, PostFails, Reached, Cleanup, FindEndpoint, AddEndpoint, PublicHost,
       ListEndpoints, RemoveEndpoint, Fetch, Put, DeleteApp, Forget
  <2> QED
    BY <2>1, <2>2
<1>3. ASSUME NEW k \in Lane, Channel(k)
      PROVE  TInv'
  BY <1>3, ExecOpensKeeps, SftpOpensKeeps, OpenFailsKeeps, AnswersKeep, TimersKeep, AbortsKeep, ReachKeeps,
     TimePassesKeeps DEF Channel, Opens, Answers, Exit, Timeout, Abort, Wait, Deadline
<1>4. ASSUME NEW c \in Conn, Connection(c)
      PROVE  TInv'
  <2>1. CASE Accept(c)
    BY <2>1, ConnectedKeeps DEF Accept
  <2>2. CASE Refuse(c)
    BY <2>2, RefusedKeeps DEF Refuse
  <2>3. CASE Break(c)
    BY <2>3, BrokenKeeps DEF Break
  <2>4. CASE Gone(c) \/ Shut(c)
    BY <2>4, ClosedKeeps, SftpClosesKeeps DEF Gone, Shut
  <2> QED
    BY <1>4, <2>1, <2>2, <2>3, <2>4 DEF Connection
<1>5. CASE Disconnect
  BY <1>5, CloseKeeps DEF Disconnect
<1>6. CASE AgentStarts
  BY <1>0, <1>6 DEF AgentStarts
<1>7. CASE UNCHANGED sandbox
  BY <1>0, <1>7 DEF sandbox, Calm
<1> QED
  BY <1>1, <1>2, <1>3, <1>4, <1>5, <1>6, <1>7 DEF SandboxNext

------------------------------------------------------------------------------
LEMMA InvInit ==
  ASSUME SandboxInit
  PROVE  IInv
<1>1. NoCall \in CallRecord /\ NoCall.pc = "done"
  BY DEF NoCall, CallRecord, CallState
<1>2. /\ conn = None /\ connecting = None /\ sftpChannel = None /\ net = [c \in Conn |-> "unused"]
      /\ call = [k \in Lane |-> NoCall] /\ running = [k \in Lane |-> FALSE] /\ faults = 0
  BY DEF SandboxInit, TransportInit
<1>3. TInv
  BY <1>1, <1>2 DEF TInv, TransportType, NetState, Placed, NothingStale, NoOrphanCommand
<1>4. PInv
  <2>1. \A k \in Lane : task[k] = NoTask
    BY DEF SandboxInit
  <2>2. PlatformType
    <3>1. task \in [Lane -> TaskRecord]
      BY NoTaskType DEF SandboxInit
    <3>2. made \in BOOLEAN /\ orderly \in BOOLEAN
      BY Zenon DEF SandboxInit
    <3>3. calls \in 0 .. MaxCalls
      BY DEF SandboxInit
    <3> QED
      BY <3>1, <3>2, <3>3 DEF SandboxInit, PlatformType
  <2>3. (\A k \in Lane : TaskOK(k)) /\ OneCreate
    BY <2>1, NoTaskType DEF TaskOK, OneCreate
  <2>4. Retrievable /\ ~made
    BY DEF SandboxInit, Retrievable, Exists
  <2> QED
    BY <2>2, <2>3, <2>4 DEF PInv
<1> QED
  BY <1>3, <1>4 DEF IInv

LEMMA InvSpec == SandboxSpec => []IInv
<1>1. IInv /\ [SandboxNext]_sandbox => IInv'
  BY PlatformKeeps, TransportKeeps DEF IInv
<1> QED
  BY <1>1, InvInit, PTL DEF SandboxSpec

(* The variables of the transport and of the platform have their types: a call awaits a connection or    *)
(* the lane whose promise it shares, and a task is at a step of its operation.                           *)
THEOREM SandboxTypeCorrect == SandboxSpec => []SandboxTypeOK
<1>1. IInv => SandboxTypeOK
  BY DEF IInv, TInv, PInv, TransportType, PlatformType, SandboxTypeOK
<1> QED
  BY <1>1, InvSpec, PTL

(* No call reuses a connection, an attempt or an SFTP channel that is over for good, however the events  *)
(* of old and new connections interleave (transport.ts:314).                                             *)
THEOREM CachesFresh == SandboxSpec => []NothingStale
<1>1. IInv => NothingStale
  BY DEF IInv, TInv
<1> QED
  BY <1>1, InvSpec, PTL

(* A command whose call was aborted or timed out does not go on running (transport.ts:48).               *)
THEOREM NoOrphans == SandboxSpec => []NoOrphanCommand
<1>1. IInv => NoOrphanCommand
  BY DEF IInv, TInv
<1> QED
  BY <1>1, InvSpec, PTL

(* An app that exists keeps its token and is known or cleaned up, whatever calls overlap, unless an      *)
(* answer to its creation or its cleanup was lost (sandbox.ts:119, provision.ts:90).                     *)
THEOREM AlwaysRetrievable == SandboxSpec => []Retrievable
<1>1. IInv => Retrievable
  BY DEF IInv, PInv
<1> QED
  BY <1>1, InvSpec, PTL
=============================================================================
