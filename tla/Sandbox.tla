------------------------------- MODULE Sandbox -------------------------------
(***************************************************************************)
(* A sandbox of packages/sandbox: its app is created and waited for,       *)
(* reached over SSH, configured by replacing its whole environment,        *)
(* exposed on ports and deleted (sandbox.ts, provision.ts), while calls of *)
(* the same program share one SshTransport.  The host key a first          *)
(* connection trusts is pinned until the sandbox is deleted                *)
(* (known-hosts.ts).                                                       *)
(***************************************************************************)
EXTENDS SshTransport

CONSTANTS
  Var,       \* names of environment variables of the user
  Initial,   \* the variables create is given
  Token,     \* AGENT_TOKEN, the root password the transport logs in with
  Label,     \* names of CDN endpoints
  MaxCalls   \* bound: calls begun

ASSUME SandboxAssumption == Token \notin Var \cup Label /\ Initial \subseteq Var /\ MaxCalls \in Nat

VARIABLES
  app,        \* the app at Magic Containers
  env,        \* the environment of its container
  endpoints,  \* its CDN endpoints
  pinned,     \* the key known_hosts has for the address: of this sandbox or of another before it
  task,       \* task[k]: the API call of lane k
  made,       \* create returned the Sandbox object
  orderly,    \* history: no answer to the creation was lost and no cleanup failed
  calls

service == <<app, env, endpoints>>
platform == <<app, env, endpoints, pinned, task, made, orderly, calls>>
sandbox == <<transport, platform>>

Steps == {"post", "host", "reach", "find", "add", "wait", "cleanup", "fetch", "put", "list", "remove", "delete", "forget"}
NoTask == [op |-> "none", pc |-> "idle", names |-> {}, seen |-> {}]
TaskRecord == [op : {"none", "create", "set", "unset", "expose", "unexpose", "delete"}, pc : Steps \cup {"idle"},
               names : SUBSET (Var \cup Label), seen : SUBSET (Var \cup {Token})]

SandboxTypeOK ==
  /\ conn \in Conn \cup {None} /\ connecting \in Conn \cup {None}
  /\ sftpChannel \in Conn \cup Lane \cup {None, Rejected}
  /\ net \in [Conn -> NetState]
  /\ call \in [Lane -> CallRecord]
  /\ running \in [Lane -> BOOLEAN]
  /\ faults \in 0 .. MaxFaults
  /\ app \in {"none", "starting", "up", "gone"}
  /\ env \in SUBSET (Var \cup {Token}) /\ endpoints \in SUBSET Label
  /\ pinned \in {"none", "this", "other"}
  /\ task \in [Lane -> TaskRecord]
  /\ made \in BOOLEAN /\ orderly \in BOOLEAN
  /\ calls \in 0 .. MaxCalls

SandboxInit ==
  /\ TransportInit
  /\ app = "none" /\ env = {} /\ endpoints = {}
  /\ pinned \in {"none", "other"}
  /\ task = [k \in Lane |-> NoTask]
  /\ made = FALSE /\ orderly = TRUE
  /\ calls = 0

------------------------------------------------------------------------------
Exists == app \in {"starting", "up"}
Idle(k) == task[k] = NoTask /\ ~Busy(k)
Begins == calls < MaxCalls /\ calls' = calls + 1
Task(op, pc, names) == [op |-> op, pc |-> pc, names |-> names, seen |-> {}]
Does(k, op, pc) == task[k].op = op /\ task[k].pc = pc
Goes(k, pc) == task' = [task EXCEPT ![k].pc = pc]
Ends(k) == task' = [task EXCEPT ![k] = NoTask]
Same == UNCHANGED <<service, pinned, made, orderly, calls>>

(* Mutant: nothing is cleaned up. *)
FailsOnly(k) == Ends(k)
(* A failure ends the task; one of create deletes the app first. *)
Fails(k) == IF task[k].op = "create" THEN Goes(k, "cleanup") ELSE Ends(k)

Calm == UNCHANGED transport
Fault == Faulty /\ UNCHANGED <<cached, net, call, running>>

(* Sandbox.create: an app with the token in its environment. *)
Create(k, ports) ==
  /\ app = "none" /\ \A j \in Lane : Idle(j)
  /\ Begins
  /\ task' = [task EXCEPT ![k] = Task("create", "post", ports)]
  /\ UNCHANGED <<service, pinned, made, orderly>> /\ Calm

(* Without the answer create has no ID to clean up by. *)
Post(k) ==
  /\ Does(k, "create", "post")
  /\ app' = "starting"
  /\ env' = Initial \cup {Token}
  /\ \/ Goes(k, "host") /\ UNCHANGED orderly /\ Calm
     \/ Ends(k) /\ orderly' = FALSE /\ Fault
  /\ UNCHANGED <<endpoints, pinned, made, calls>>
(* The registry error is retried; any other, and the third of its kind, is not. *)
PostFails(k) ==
  /\ Does(k, "create", "post")
  /\ task' = task \/ Ends(k)
  /\ Fault /\ Same

(* waitForSshHost, then waitUntilReachable on a transport of its own. *)
Host(k) ==
  /\ Does(k, "create", "host")
  /\ \/ Reach(k) /\ Goes(k, "reach")
     \/ Fault /\ Fails(k)
  /\ Same
Ports(k) == task[k].names \cap Label
Reached(k) ==
  /\ Does(k, "create", "reach") /\ ~Busy(k)
  /\ IF ~At(k, "done") THEN Fails(k) /\ UNCHANGED made
     ELSE IF Ports(k) # {} THEN Goes(k, "find") /\ UNCHANGED made
     ELSE Ends(k) /\ made' = TRUE
  /\ UNCHANGED <<service, pinned, orderly, calls>> /\ Calm

(* deleteApp, whose own failure is ignored. *)
Cleanup(k) ==
  /\ Does(k, "create", "cleanup")
  /\ \/ app' = "gone" /\ UNCHANGED orderly /\ Calm
     \/ UNCHANGED app /\ orderly' = FALSE /\ Fault
  /\ Ends(k)
  /\ UNCHANGED <<env, endpoints, pinned, made, calls>>

------------------------------------------------------------------------------
(* exposePort, of create or by itself. *)

StartExpose(k, ports) ==
  /\ made /\ Idle(k) /\ Begins
  /\ task' = [task EXCEPT ![k] = Task("expose", "find", ports)]
  /\ UNCHANGED <<service, pinned, made, orderly>> /\ Calm

(* A failed GET of the app fails the call, one of its endpoints counts as none; a name is given once. *)
Addable(k) == Exists /\ ~(Ports(k) \subseteq endpoints)
FindEndpoint(k) ==
  /\ task[k].pc = "find"
  /\ \/ Exists /\ Goes(k, IF Ports(k) \subseteq endpoints THEN "wait" ELSE "add") /\ Calm
     \/ ~Exists /\ Fails(k) /\ Calm
     \/ Fault /\ (Fails(k) \/ (Exists /\ Goes(k, "add")))
  /\ Same
AddEndpoint(k) ==
  /\ task[k].pc = "add"
  /\ \/ Addable(k) /\ endpoints' = endpoints \cup Ports(k) /\ Goes(k, "wait") /\ Calm
     \/ ~Addable(k) /\ UNCHANGED endpoints /\ Fails(k) /\ Calm
     \/ endpoints' \in {endpoints, endpoints \cup Ports(k)} /\ Fault /\ Fails(k)
  /\ UNCHANGED <<app, env, pinned, made, orderly, calls>>
PublicHost(k) ==
  /\ task[k].pc = "wait"
  /\ \/ Exists /\ Ports(k) \subseteq endpoints /\ Ends(k) /\ made' = TRUE /\ Calm
     \/ ~(Exists /\ Ports(k) \subseteq endpoints) /\ Fails(k) /\ UNCHANGED made /\ Calm
     \/ Fault /\ Fails(k) /\ UNCHANGED made
  /\ UNCHANGED <<service, pinned, orderly, calls>>

(* `url remove`: the endpoint is looked up by name, then deleted. *)
StartUnexpose(k, ports) ==
  /\ made /\ Idle(k) /\ Begins
  /\ task' = [task EXCEPT ![k] = Task("unexpose", "list", ports)]
  /\ UNCHANGED <<service, pinned, made, orderly>> /\ Calm
ListEndpoints(k) ==
  /\ task[k].pc = "list"
  /\ IF Exists /\ Ports(k) \subseteq endpoints THEN Goes(k, "remove") ELSE Ends(k)
  /\ Same /\ Calm
RemoveEndpoint(k) ==
  /\ task[k].pc = "remove" /\ Ends(k)
  /\ \/ endpoints' = (IF Exists THEN endpoints \ Ports(k) ELSE endpoints) /\ Calm
     \/ UNCHANGED endpoints /\ Fault
  /\ UNCHANGED <<app, env, pinned, made, orderly, calls>>

------------------------------------------------------------------------------
(* setEnv and unsetEnv: the whole environment is read, changed and put back. *)

StartEnv(k, op, names) ==
  /\ made /\ Idle(k) /\ Begins
  /\ Token \notin names
  /\ task' = [task EXCEPT ![k] = Task(op, "fetch", names)]
  /\ UNCHANGED <<service, pinned, made, orderly>> /\ Calm
Fetch(k) ==
  /\ task[k].pc = "fetch"
  /\ \/ Exists /\ (task[k].op = "set" \/ task[k].names \cap env # {})
        /\ task' = [task EXCEPT ![k].pc = "put", ![k].seen = env] /\ Calm
     \/ ~(Exists /\ (task[k].op = "set" \/ task[k].names \cap env # {})) /\ Ends(k) /\ Calm
     \/ Fault /\ Ends(k)
  /\ Same

Replacement(t) == IF t.op = "set" THEN t.seen \cup t.names ELSE t.seen \ t.names
(* The container is deployed anew and its connections break; or the request fails, with or without effect. *)
Put(k) ==
  /\ task[k].pc = "put" /\ Ends(k)
  /\ \/ Exists /\ app' = "starting" /\ env' = Replacement(task[k]) /\ (Calm \/ Fault)
     \/ UNCHANGED <<app, env>> /\ (Fault \/ (~Exists /\ Calm))
  /\ UNCHANGED <<endpoints, pinned, made, orderly, calls>>

------------------------------------------------------------------------------
(* delete: close the connection, delete the app, forget its host key. *)
StartDelete(k) ==
  /\ made /\ Idle(k) /\ Begins
  /\ Close
  /\ task' = [task EXCEPT ![k] = Task("delete", "delete", {})]
  /\ UNCHANGED <<service, pinned, made, orderly>>
DeleteApp(k) ==
  /\ task[k].pc = "delete"
  /\ \/ Exists /\ app' = "gone" /\ Goes(k, "forget") /\ Calm
     \/ ~Exists /\ UNCHANGED app /\ Ends(k) /\ Calm
     \/ app' \in {app, "gone"} /\ Ends(k) /\ Fault
  /\ UNCHANGED <<env, endpoints, pinned, made, orderly, calls>>
Forget(k) ==
  /\ task[k].pc = "forget"
  /\ pinned' = "none" /\ Ends(k)
  /\ UNCHANGED <<service, made, orderly, calls>> /\ Calm

Disconnect ==
  /\ made /\ Begins /\ Close
  /\ UNCHANGED <<service, pinned, task, made, orderly>>

------------------------------------------------------------------------------
(* The sandbox itself, and the transport over it. *)

AgentStarts ==
  /\ app = "starting" /\ app' = "up"
  /\ UNCHANGED <<env, endpoints, pinned, task, made, orderly, calls>> /\ Calm

StartCall(k) ==
  /\ made /\ Idle(k) /\ Begins
  /\ \/ \E timed \in BOOLEAN : Exec(k, timed, FALSE)
     \/ Exec(k, FALSE, TRUE)
     \/ \E more \in BOOLEAN : SftpRequest(k, more)
  /\ UNCHANGED <<service, pinned, task, made, orderly>>

(* hostVerifier: an unknown key is trusted and pinned before anything else can fail; another is refused. *)
Accept(c) ==
  /\ app = "up" /\ pinned # "other"
  /\ Connected(c)
  /\ pinned' = "this"
  /\ UNCHANGED <<service, task, made, orderly, calls>>
Refuse(c) ==
  /\ \/ app = "up" /\ pinned = "other" /\ Refused(c, TRUE) /\ Sound /\ UNCHANGED pinned
     \/ app # "up" /\ Refused(c, FALSE) /\ Sound /\ UNCHANGED pinned
     \/ app = "up" /\ pinned # "other" /\ Refused(c, FALSE) /\ Faulty /\ pinned' \in {pinned, "this"}
  /\ UNCHANGED <<service, task, made, orderly, calls>>
Break(c) ==
  /\ Broken(c)
  /\ IF app = "up" THEN Faulty ELSE Sound
  /\ UNCHANGED platform
Gone(c) == Closed(c) /\ UNCHANGED platform

(* What an open channel does, as long as something answers at its other end. *)
Opens(k) == (ExecOpens(k) \/ SftpOpens(k) \/ OpenFails(k)) /\ UNCHANGED platform
Answers(k) == Answered(k) /\ UNCHANGED platform
Exit(k) == Exits(k) /\ UNCHANGED platform
Shut(c) == SftpCloses(c) /\ UNCHANGED platform
Timeout(k) == TimesOut(k) /\ UNCHANGED platform
Abort(k) == Aborts(k) /\ UNCHANGED platform
Wait(k) == (ReachAgain(k) \/ ReachEnds(k)) /\ UNCHANGED platform
Deadline(k) == TimePasses(k) /\ UNCHANGED platform

Starts(k) ==
  \/ \E ports \in SUBSET Label : Create(k, ports)
  \/ \E ports \in SUBSET Label \ {{}} : StartExpose(k, ports) \/ StartUnexpose(k, ports)
  \/ \E op \in {"set", "unset"}, names \in SUBSET (Var \cup {Token}) \ {{}} : StartEnv(k, op, names)
  \/ StartDelete(k) \/ StartCall(k)
Works(k) ==
  \/ Post(k) \/ PostFails(k) \/ Host(k) \/ Reached(k) \/ Cleanup(k)
  \/ FindEndpoint(k) \/ AddEndpoint(k) \/ PublicHost(k) \/ ListEndpoints(k) \/ RemoveEndpoint(k)
  \/ Fetch(k) \/ Put(k) \/ DeleteApp(k) \/ Forget(k)
Channel(k) == Opens(k) \/ Answers(k) \/ Exit(k) \/ Timeout(k) \/ Abort(k) \/ Wait(k) \/ Deadline(k)
Connection(c) == Accept(c) \/ Refuse(c) \/ Break(c) \/ Gone(c) \/ Shut(c)

SandboxNext ==
  \/ \E k \in Lane : Starts(k) \/ Works(k) \/ Channel(k)
  \/ \E c \in Conn : Connection(c)
  \/ Disconnect \/ AgentStarts
SandboxSpec == SandboxInit /\ [][SandboxNext]_sandbox

(* The program goes on, timers fire and ssh2 reports what became of a connection or a request; a command *)
(* of the user may run for ever, mkdir does not.  A lane waits for one of these things at a time.        *)
GoesOn(k) == Works(k) \/ Opens(k) \/ Answers(k) \/ (call[k].more /\ Exit(k)) \/ Timeout(k) \/ Wait(k)
SandboxFair ==
  /\ SandboxSpec
  /\ WF_sandbox(AgentStarts) /\ WF_sandbox(\E k \in Lane : Deadline(k))
  /\ \A k \in Lane : WF_sandbox(GoesOn(k))
  /\ \A c \in Conn : WF_sandbox(Accept(c) \/ Refuse(c) \/ Gone(c))

------------------------------------------------------------------------------
(* What is cached is in use or its close is still to come: a connection that is not yet closed, an       *)
(* attempt under way, a channel on such a connection, and a rejected promise only while the close that   *)
(* clears it is due (transport.ts:314, transport.ts:348).                                                *)
NothingStale ==
  /\ conn # None => net[conn] \in {"open", "broken"}
  /\ connecting # None => net[connecting] = "dialing"
  /\ sftpChannel \in Conn => net[sftpChannel] \in {"open", "broken"}
  /\ sftpChannel \in Lane => call[sftpChannel].op = "sftp" /\ call[sftpChannel].pc \in {"ready", "opening"}
  /\ sftpChannel = Rejected => \E c \in Conn : net[c] \in {"broken", "ended"}

(* A command runs only while its call collects it: one that timed out or was aborted, even while its     *)
(* channel was still opening, is killed (transport.ts:96, transport.ts:171).                             *)
NoOrphanCommand == \A k \in Lane : running[k] => call[k].op = "exec" /\ At(k, "running") /\ ~call[k].aborted

(* An app that exists can be got back: every replacement of its environment put the token back, without *)
(* which no later process recovers its credentials (provision.ts:90, sandbox.ts:347), and somebody knows *)
(* it, as a create that fails deletes it, unless the answer to the creation was lost or the cleanup      *)
(* failed (sandbox.ts:119).                                                                              *)
Retrievable ==
  Exists => Token \in env /\ (orderly => made \/ \E k \in Lane : task[k].op = "create")

(* Every call ends, unless it is a command of the user without a limit that has begun: no answer,        *)
(* attempt, cached promise or pause leaves one waiting for ever (transport.ts:164, transport.ts:295).    *)
Limited(k) ==
  Busy(k) /\ (call[k].op = "exec" /\ At(k, "running") => call[k].more \/ call[k].timed \/ call[k].aborted)
CallsEnd == \A k \in Lane : (Limited(k) \/ task[k] # NoTask) ~> ~(Limited(k) \/ task[k] # NoTask)
=============================================================================
