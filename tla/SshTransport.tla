----------------------------- MODULE SshTransport -----------------------------
(***************************************************************************)
(* One SSH connection to a sandbox, reused by all calls of a Sandbox       *)
(* object (packages/sandbox/src/transport.ts).  Calls are asynchronous and *)
(* overlap: they share the cached connection, the attempt under way and    *)
(* the cached SFTP channel, which the events of every connection, old ones *)
(* too, update.  The library ssh2 and the network are modelled by their    *)
(* events: an attempt ends in `ready` or `error`, a connection that failed,*)
(* broke or was ended is closed later, and channels open, answer and fail. *)
(***************************************************************************)
EXTENDS Naturals

CONSTANTS
  Lane,       \* calls that may be under way at one time
  Conn,       \* connections there may be at one time
  None,
  Rejected,   \* an SFTP promise that was rejected and is still cached
  MaxFaults   \* bound: connections that fail, break or are ended, channels refused or closed

ASSUME TransportAssumption ==
  /\ Lane \cap Conn = {} /\ None \notin Lane \cup Conn
  /\ Rejected \notin Lane \cup Conn \cup {None}
  /\ MaxFaults \in Nat

VARIABLES
  conn,         \* the connection calls reuse
  connecting,   \* the attempt whose promise callers share
  sftpChannel,  \* the cached promise: of the lane that opens the channel, or resolved on a connection
  net,          \* what became of each connection
  call,         \* the latest call of each lane
  running,      \* running[k]: the command of k runs in a session of an open connection
  faults

cached == <<conn, connecting, sftpChannel>>
transport == <<conn, connecting, sftpChannel, net, call, running, faults>>

NetState == {"unused", "dialing", "open", "broken", "ended"}
Unsettled == {"ready", "joined", "opening", "running", "pause"}
CallState == Unsettled \cup {"done", "failed"}

(* op: what the call asks of the connection now; on: the connection, or the lane whose SFTP promise it   *)
(* awaits; more: an SFTP request follows (writeFiles after its mkdir, rename after its lstat); timed: it *)
(* has a timeout, or a wait for the sandbox has time left; aborted: its signal was aborted.              *)
CallRecord == [op : {"exec", "sftp", "reach"}, pc : CallState, on : Conn \cup Lane \cup {None},
               more : BOOLEAN, timed : BOOLEAN, aborted : BOOLEAN]
NoCall == [op |-> "exec", pc |-> "done", on |-> None, more |-> FALSE, timed |-> FALSE, aborted |-> FALSE]

TransportInit ==
  /\ conn = None /\ connecting = None /\ sftpChannel = None
  /\ net = [c \in Conn |-> "unused"]
  /\ call = [k \in Lane |-> NoCall]
  /\ running = [k \in Lane |-> FALSE]
  /\ faults = 0

------------------------------------------------------------------------------
At(k, pc) == call[k].pc = pc
Busy(k) == call[k].pc \in Unsettled
On(c, op, pc) == {k \in Lane : call[k].on = c /\ call[k].op = op /\ call[k].pc = pc}
Joined(S) == {j \in Lane : At(j, "joined") /\ call[j].on \in S}
Place(r, pc, on) == [r EXCEPT !.pc = pc, !.on = on]
Settled(pc) == [NoCall EXCEPT !.pc = pc]
Sound == UNCHANGED faults
Faulty == faults < MaxFaults /\ faults' = faults + 1

(* ready(), and what follows at once on a connection that is there: a channel is asked for, which ssh2   *)
(* refuses by throwing when the socket is gone, or the wait for the sandbox is over.                     *)
Served(r, c) ==
  IF r.op = "reach" THEN Settled("done")
  ELSE IF net[c] = "open" THEN Place(r, "opening", c) ELSE Settled("failed")
NewConn == CHOOSE c \in Conn : net[c] = "unused"
Ready(k, r) ==
  \/ /\ conn # None
     /\ call' = [call EXCEPT ![k] = Served(r, conn)]
     /\ UNCHANGED <<connecting, net>>
  \/ /\ conn = None /\ connecting # None
     /\ call' = [call EXCEPT ![k] = Place(r, "ready", connecting)]
     /\ UNCHANGED <<connecting, net>>
  \/ /\ conn = None /\ connecting = None
     /\ \E c \in Conn : net[c] = "unused"
     /\ LET c == NewConn
        IN  /\ net' = [net EXCEPT ![c] = "dialing"]
            /\ connecting' = c
            /\ call' = [call EXCEPT ![k] = Place(r, "ready", c)]

(* sftp(): the cached promise whatever became of it, else one that waits for ready(). *)
Sftp(k, r) ==
  \/ /\ sftpChannel \in Conn
     /\ call' = [call EXCEPT ![k] = Place(r, "running", sftpChannel)]
     /\ UNCHANGED <<cached, net>>
  \/ /\ sftpChannel \in Lane
     /\ call' = [call EXCEPT ![k] = Place(r, "joined", sftpChannel)]
     /\ UNCHANGED <<cached, net>>
  \/ /\ sftpChannel = Rejected
     /\ call' = [call EXCEPT ![k] = Settled("failed")]
     /\ UNCHANGED <<cached, net>>
  \/ /\ sftpChannel = None
     /\ Ready(k, r)
     /\ sftpChannel' = IF conn # None /\ net[conn] # "open" THEN Rejected ELSE k
     /\ UNCHANGED conn

(* A lane that others still wait for has its promise pending, so it is busy. *)
Request(op, more, timed) ==
  [op |-> op, pc |-> "ready", on |-> None, more |-> more, timed |-> timed, aborted |-> FALSE]
Exec(k, timed, more) ==
  /\ ~Busy(k)
  /\ Ready(k, Request("exec", more, timed))
  /\ UNCHANGED <<conn, sftpChannel, running>> /\ Sound
SftpRequest(k, more) ==
  /\ ~Busy(k)
  /\ Sftp(k, Request("sftp", more, FALSE))
  /\ UNCHANGED running /\ Sound
Reach(k) ==
  /\ ~Busy(k)
  /\ Ready(k, Request("reach", FALSE, TRUE))
  /\ UNCHANGED <<conn, sftpChannel, running>> /\ Sound

(* close(): only the connection that is established is ended; an attempt under way goes on. *)
Close ==
  /\ net' = IF conn = None THEN net ELSE [net EXCEPT ![conn] = IF @ = "open" THEN "ended" ELSE @]
  /\ running' = [k \in Lane |-> running[k] /\ (conn = None \/ call[k].on # conn)]
  /\ conn' = None /\ connecting' = None /\ sftpChannel' = None
  /\ UNCHANGED <<call, faults>>

------------------------------------------------------------------------------
(* Events of a connection. *)

Connected(c) ==
  /\ net[c] = "dialing"
  /\ net' = [net EXCEPT ![c] = "open"]
  /\ conn' = c /\ connecting' = None
  /\ call' = [k \in Lane |->
       IF ~(At(k, "ready") /\ call[k].on = c) THEN call[k]
       ELSE IF call[k].op = "reach" THEN Settled("done") ELSE Place(call[k], "opening", c)]
  /\ UNCHANGED <<sftpChannel, running>> /\ Sound

(* Mutant: the rejected attempt stays cached. *)
ErroredOnly == UNCHANGED connecting
(* An `error` event, of whichever connection, forgets the attempt under way. *)
Errored == connecting' = None

(* The attempt ends in an error; a wait for the sandbox goes on unless the host key was refused. *)
Refused(c, hostKey) ==
  LET opening == On(c, "sftp", "ready") IN
  /\ net[c] = "dialing"
  /\ net' = [net EXCEPT ![c] = "broken"]
  /\ Errored
  /\ sftpChannel' = IF sftpChannel \in opening THEN Rejected ELSE sftpChannel
  /\ call' = [k \in Lane |->
       IF At(k, "ready") /\ call[k].on = c
       THEN IF call[k].op = "reach" /\ ~hostKey THEN Place(call[k], "pause", None) ELSE Settled("failed")
       ELSE IF k \in Joined(opening) THEN Settled("failed") ELSE call[k]]
  /\ UNCHANGED <<conn, running>>

(* The socket of an open connection is gone, with an `error` event or without. *)
Broken(c) ==
  /\ net[c] = "open"
  /\ net' = [net EXCEPT ![c] = "broken"]
  /\ Errored \/ UNCHANGED connecting
  /\ running' = [k \in Lane |-> running[k] /\ call[k].on # c]
  /\ UNCHANGED <<conn, sftpChannel, call>>

(* Mutant: the SFTP channel of a closed connection stays cached. *)
UncachedConn == conn' = None /\ UNCHANGED sftpChannel
(* `close`, whichever connection is in use by now; then ssh2 settles what was still open on this one: a  *)
(* command ends without an exit code, which is no success for mkdir, and everything else fails.          *)
Uncached == conn' = None /\ sftpChannel' = None
Closed(c) ==
  LET opening == On(c, "sftp", "opening") IN
  /\ net[c] \in {"broken", "ended"}
  /\ net' = [net EXCEPT ![c] = "unused"]
  /\ Uncached
  /\ call' = [k \in Lane |->
       IF call[k].on = c /\ call[k].pc = "running" /\ call[k].op = "exec" /\ ~call[k].more
       THEN Settled("done")
       ELSE IF call[k].on = c \/ k \in Joined(opening) THEN Settled("failed") ELSE call[k]]
  /\ running' = [k \in Lane |-> running[k] /\ call[k].on # c]
  /\ UNCHANGED connecting /\ Sound

------------------------------------------------------------------------------
(* Events of a channel. *)

(* Mutant: only an abort that comes later is listened for. *)
CollectsAborted(k) == Place(call[k], "running", call[k].on)
(* collectExec: an abort while the channel was opening is seen here and kills what it started. *)
Collects(k) == IF call[k].aborted THEN Settled("failed") ELSE Place(call[k], "running", call[k].on)
ExecOpens(k) ==
  /\ At(k, "opening") /\ call[k].op = "exec" /\ net[call[k].on] = "open"
  /\ call' = [call EXCEPT ![k] = Collects(k)]
  /\ running' = [running EXCEPT ![k] = Collects(k).pc = "running"]
  /\ UNCHANGED <<cached, net>> /\ Sound

SftpOpens(k) ==
  /\ At(k, "opening") /\ call[k].op = "sftp" /\ net[call[k].on] = "open"
  /\ sftpChannel' = IF sftpChannel = k THEN call[k].on ELSE sftpChannel
  /\ call' = [j \in Lane |-> IF j = k \/ j \in Joined({k}) THEN Place(call[j], "running", call[k].on) ELSE call[j]]
  /\ UNCHANGED <<conn, connecting, net, running>> /\ Sound

(* The sandbox refuses the channel; a refused SFTP channel clears the cache, whatever it holds. *)
OpenFails(k) ==
  /\ At(k, "opening") /\ net[call[k].on] = "open" /\ Faulty
  /\ sftpChannel' = IF call[k].op = "sftp" THEN None ELSE sftpChannel
  /\ call' = [j \in Lane |-> IF j = k \/ j \in Joined({k}) THEN Settled("failed") ELSE call[j]]
  /\ UNCHANGED <<conn, connecting, net, running>>

(* The SFTP channel is closed while its connection stays; which requests used it is left open. *)
SftpCloses(c) ==
  /\ net[c] = "open" /\ Faulty
  /\ sftpChannel' = None
  /\ \E S \in SUBSET On(c, "sftp", "running") :
       call' = [k \in Lane |-> IF k \in S THEN Settled("failed") ELSE call[k]]
  /\ UNCHANGED <<conn, connecting, net, running>>

(* The command ends; after mkdir the file is written. *)
Exits(k) ==
  /\ At(k, "running") /\ call[k].op = "exec" /\ net[call[k].on] = "open"
  /\ running' = [running EXCEPT ![k] = FALSE]
  /\ \/ ~call[k].more /\ call' = [call EXCEPT ![k] = Settled("done")] /\ UNCHANGED <<cached, net>>
     \/ call[k].more /\ call' = [call EXCEPT ![k] = Settled("failed")] /\ UNCHANGED <<cached, net>>
     \/ call[k].more /\ Sftp(k, Request("sftp", FALSE, FALSE))
  /\ Sound

Answered(k) ==
  /\ At(k, "running") /\ call[k].op = "sftp" /\ net[call[k].on] = "open"
  /\ \/ ~call[k].more /\ call' = [call EXCEPT ![k] = Settled("done")] /\ UNCHANGED <<cached, net>>
     \/ call' = [call EXCEPT ![k] = Settled("failed")] /\ UNCHANGED <<cached, net>>
     \/ call[k].more /\ Sftp(k, Request("sftp", FALSE, FALSE))
  /\ UNCHANGED running /\ Sound

------------------------------------------------------------------------------
(* Timers and signals of the caller. *)

(* cleanup and kill: the promise rejects and, where the socket is still there, the command is killed. *)
Killed(k) == running' = [running EXCEPT ![k] = FALSE]
TimesOut(k) ==
  /\ At(k, "running") /\ call[k].op = "exec" /\ call[k].timed
  /\ call' = [call EXCEPT ![k] = Settled("failed")]
  /\ Killed(k)
  /\ UNCHANGED <<cached, net>> /\ Sound

Aborts(k) ==
  /\ Busy(k) /\ call[k].op = "exec" /\ ~call[k].more /\ ~call[k].aborted
  /\ IF At(k, "running")
     THEN call' = [call EXCEPT ![k] = Settled("failed")] /\ Killed(k)
     ELSE call' = [call EXCEPT ![k].aborted = TRUE] /\ UNCHANGED running
  /\ UNCHANGED <<cached, net>> /\ Sound

(* waitUntilReachable: another attempt after its pause, until the time is over. *)
TimePasses(k) ==
  /\ Busy(k) /\ call[k].op = "reach" /\ call[k].timed
  /\ call' = [call EXCEPT ![k].timed = FALSE]
  /\ UNCHANGED <<cached, net, running>> /\ Sound
ReachAgain(k) ==
  /\ At(k, "pause") /\ call[k].timed
  /\ Ready(k, Request("reach", FALSE, TRUE))
  /\ UNCHANGED <<conn, sftpChannel, running>> /\ Sound
ReachEnds(k) ==
  /\ At(k, "pause") /\ ~call[k].timed
  /\ call' = [call EXCEPT ![k] = Settled("failed")]
  /\ UNCHANGED <<cached, net, running>> /\ Sound
=============================================================================
