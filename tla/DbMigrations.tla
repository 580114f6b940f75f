----------------------------- MODULE DbMigrations -----------------------------
(***************************************************************************)
(* `bunny db migrations apply` and `db create --template`: commands that   *)
(* apply migration files to one database, each file as one batch of        *)
(* conditional steps (packages/database-client/src/client.ts) that the     *)
(* server runs while other commands run theirs.  The two foreign key       *)
(* pragmas around a batch are left out: nothing below depends on them.     *)
(***************************************************************************)
EXTENDS Naturals, Sequences, FiniteSets

CONSTANTS
  Proc,        \* commands that may run at one time
  Name,        \* file names, as numbers in filename order
  Body,        \* what a file may say
  Statements,  \* statements of a body; 0 is a file that does not parse or is empty
  None,
  MaxRuns,     \* bound: commands started
  MaxEdits     \* bound: changes of the migrations directory

ASSUME NamesOrdered == Name \subseteq Nat
ASSUME StatementsCounted == Statements \in [Body -> Nat]
ASSUME NoneIsNoBody == None \notin Body
ASSUME BoundsAreNat == MaxRuns \in Nat /\ MaxEdits \in Nat

VARIABLES
  dir,   \* the migrations directory: the body of each file, None where there is no file
  db,    \* the committed database: tracking table, its rows, the statements run
  req,   \* req[p]: the batch p sent, while the server works on it
  run,   \* run[p]: the command of p
  tidy,  \* history: the directory has only grown at its end, and every file parses
  runs,
  edits

vars == <<dir, db, req, run, tidy, runs, edits>>

H == INSTANCE MigrationHistory WITH log <- db.rows, schema <- db.done

Migration == [name : Name, body : Body]
Files(d) == {n \in Name : d[n] # None}
Effects(m, k) == [i \in 1..k |-> <<m.name, m.body, i>>]
Recorded(rows) == {rows[i].name : i \in DOMAIN rows}
Committed == [rows |-> db.rows, done |-> db.done]

NoRequest == [state |-> "none"]
Idle == [pc |-> "idle", files |-> [n \in Name |-> None], left |-> {}, mine |-> {}, well |-> FALSE]

Init ==
  /\ dir = [n \in Name |-> None]
  /\ db = [table |-> FALSE, rows |-> <<>>, done |-> <<>>]
  /\ req = [p \in Proc |-> NoRequest]
  /\ run = [p \in Proc |-> Idle]
  /\ tidy = TRUE
  /\ runs = 0
  /\ edits = 0

-------------------------------------------------------------------------------
(* The migrations directory, edited by its developers. *)

AtEnd(n) == \A m \in Files(dir) : m < n

EditFile(n, b) ==
  /\ edits < MaxEdits
  /\ dir[n] # b
  /\ dir' = [dir EXCEPT ![n] = b]
  /\ tidy' = (tidy /\ b # None /\ Statements[b] > 0 /\ AtEnd(n))
  /\ edits' = edits + 1
  /\ UNCHANGED <<db, req, run, runs>>

-------------------------------------------------------------------------------
(* The server.  A batch is BEGIN IMMEDIATE, the statements of the file, the INSERT of its tracking row, COMMIT and ROLLBACK. *)

BeginStep == 1
LastStep(m) == BeginStep + Statements[m.body] + 1
CommitStep(m) == LastStep(m) + 1
RollbackStep(m) == LastStep(m) + 2

(* Without the conditions on the statements every one of them runs. *)
DueUnchained(r) ==
  \/ r.step <= CommitStep(r.m)
  \/ r.step = RollbackStep(r.m) /\ BeginStep \in r.ok /\ CommitStep(r.m) \notin r.ok

(* The condition #batch puts on each step, over the steps that succeeded. *)
Due(r) ==
  LET ok == r.ok IN
  \/ r.step = BeginStep
  \/ r.step \in BeginStep + 1 .. LastStep(r.m) /\ r.step - 1 \in ok
  \/ r.step = CommitStep(r.m) /\ LastStep(r.m) \in ok
  \/ r.step = RollbackStep(r.m) /\ BeginStep \in ok /\ CommitStep(r.m) \notin ok

Working(p) == req[p].state = "working"
InTransaction(p) == Working(p) /\ req[p].open
LockFree(p) == \A q \in Proc \ {p} : ~InTransaction(q)

Sent(m) == [state |-> "working", m |-> m, step |-> BeginStep, ok |-> {}, open |-> FALSE, work |-> Committed]

(* Step r.step went well, or did not; either way the next one is looked at. *)
Stepped(r, well) == [r EXCEPT !.step = @ + 1, !.ok = IF well THEN @ \cup {r.step} ELSE @]

(* A write goes to the transaction when one is open, and is its own transaction otherwise. *)
Write(p, change) ==
  LET r == req[p] IN
  IF r.open
    THEN /\ req' = [req EXCEPT ![p] = [Stepped(r, TRUE) EXCEPT !.work = change]]
         /\ UNCHANGED db
    ELSE /\ LockFree(p)
         /\ req' = [req EXCEPT ![p] = Stepped(r, TRUE)]
         /\ db' = [db EXCEPT !.rows = change.rows, !.done = change.done]

Base(p) == IF req[p].open THEN req[p].work ELSE Committed

Begin(p) ==
  /\ Working(p) /\ Due(req[p]) /\ req[p].step = BeginStep
  /\ LockFree(p)
  /\ req' = [req EXCEPT ![p] = [Stepped(@, TRUE) EXCEPT !.open = TRUE, !.work = Committed]]
  /\ UNCHANGED db

Statement(p) ==
  LET r == req[p] IN
  /\ Working(p) /\ Due(r) /\ r.step \in BeginStep + 1 .. LastStep(r.m) - 1
  /\ Write(p, [Base(p) EXCEPT !.done = Append(@, <<r.m.name, r.m.body, r.step - BeginStep>>)])

(* The column name is UNIQUE. *)
InsertRow(p) ==
  LET r == req[p] IN
  /\ Working(p) /\ Due(r) /\ r.step = LastStep(r.m)
  /\ db.table /\ r.m.name \notin Recorded(Base(p).rows)
  /\ Write(p, [Base(p) EXCEPT !.rows = Append(@, r.m)])

Commit(p) ==
  LET r == req[p] IN
  /\ Working(p) /\ Due(r) /\ r.step = CommitStep(r.m) /\ r.open
  /\ req' = [req EXCEPT ![p] = [Stepped(r, TRUE) EXCEPT !.open = FALSE]]
  /\ db' = [db EXCEPT !.rows = r.work.rows, !.done = r.work.done]

(* Any step but the ROLLBACK may fail: the lock is busy, a statement is wrong, the row exists, the disk is full. *)
StepFails(p) ==
  /\ Working(p) /\ Due(req[p]) /\ req[p].step < RollbackStep(req[p].m)
  /\ req' = [req EXCEPT ![p] = Stepped(@, FALSE)]
  /\ UNCHANGED db

StepSkipped(p) ==
  /\ Working(p) /\ ~Due(req[p]) /\ req[p].step <= RollbackStep(req[p].m)
  /\ req' = [req EXCEPT ![p] = Stepped(@, FALSE)]
  /\ UNCHANGED db

Rollback(p) ==
  /\ Working(p) /\ Due(req[p]) /\ req[p].step = RollbackStep(req[p].m)
  /\ req' = [req EXCEPT ![p] = [Stepped(@, TRUE) EXCEPT !.open = FALSE]]
  /\ UNCHANGED db

(* The stream closes with the request, and with it a transaction left open; the answer names the first step that failed. *)
EndRequest(p) ==
  /\ Working(p) /\ req[p].step > RollbackStep(req[p].m)
  /\ req' = [req EXCEPT ![p] =
       IF run[p].pc # "wait" THEN NoRequest
       ELSE [state |-> IF CommitStep(req[p].m) \in req[p].ok THEN "well" ELSE "failed"]]
  /\ UNCHANGED db

Server(p) ==
  /\ \/ Begin(p) \/ Statement(p) \/ InsertRow(p) \/ Commit(p)
     \/ StepFails(p) \/ StepSkipped(p) \/ Rollback(p) \/ EndRequest(p)
  /\ UNCHANGED <<dir, run, tidy, runs, edits>>
-------------------------------------------------------------------------------
(* The commands. *)

(* What a command learned goes with it, unless it reported success. *)
Ends(p, well) ==
  run' = [run EXCEPT ![p] = IF well THEN [@ EXCEPT !.pc = "idle", !.left = {}, !.well = TRUE] ELSE Idle]
Goes(p, pc) == run' = [run EXCEPT ![p].pc = pc]
Busy(p) == run[p].pc # "idle"

CanStart(p) == ~Busy(p) /\ ~Working(p) /\ runs < MaxRuns

(* discoverMigrations: an empty directory is an error before anything is read. *)
Start(p) ==
  /\ CanStart(p)
  /\ Files(dir) # {}
  /\ run' = [run EXCEPT ![p] = [Idle EXCEPT !.pc = "read", !.files = dir]]
  /\ runs' = runs + 1
  /\ UNCHANGED <<dir, db, req, tidy, edits>>

(* readApplied: no rows where there is no table. *)
Applied == IF db.table THEN db.rows ELSE <<>>

PendingNewer(files, applied) == {n \in Files(files) : \A m \in Recorded(applied) : m < n}
Pending(files, applied) == Files(files) \ Recorded(applied)

(* The states of migrationStatuses that assertMigrationHistorySafe refuses. *)
Modified(files, applied) == \E i \in DOMAIN applied : files[applied[i].name] \notin {applied[i].body, None}
Missing(files, applied) == \E i \in DOMAIN applied : files[applied[i].name] = None
OutOfOrder(files, applied) == \E n \in Pending(files, applied), m \in Recorded(applied) : n < m

HistorySafe(files, applied) ==
  ~Modified(files, applied) /\ ~Missing(files, applied) /\ ~OutOfOrder(files, applied)

(* Read what is applied and decide: up to date, refused, or go on; a dry run and a "no" at the prompt end as Dies does. *)
ReadHistory(p, drift) ==
  LET files == run[p].files
      left == Pending(files, Applied)
      parses == \A n \in left : Statements[files[n]] > 0
  IN
  /\ run[p].pc = "read"
  /\ \/ left = {} /\ Ends(p, TRUE)
     \/ left # {} /\ ~(HistorySafe(files, Applied) \/ drift) /\ Ends(p, FALSE)
     \/ left # {} /\ (HistorySafe(files, Applied) \/ drift) /\ ~parses /\ Ends(p, FALSE)
     \/ left # {} /\ (HistorySafe(files, Applied) \/ drift) /\ parses
        /\ run' = [run EXCEPT ![p].pc = "ensure", ![p].left = left]
  /\ tidy' = (tidy /\ ~drift)
  /\ UNCHANGED <<dir, db, req, runs, edits>>

(* db create --template: the directory held no file when it was looked at, and the database is its own. *)
TemplateStart(p) ==
  /\ CanStart(p)
  /\ Files(dir) = {} /\ ~db.table /\ \A q \in Proc : ~Busy(q) /\ ~Working(q)
  /\ run' = [run EXCEPT ![p] = [Idle EXCEPT !.pc = "template"]]
  /\ runs' = runs + 1
  /\ UNCHANGED <<dir, db, req, tidy, edits>>

(* writeTemplateMigration overwrites 0001_<template>.sql; nothing is read back from the database. *)
WriteTemplate(p, n, b) ==
  /\ run[p].pc = "template"
  /\ Statements[b] > 0
  /\ \A m \in Name : n <= m
  /\ dir' = [dir EXCEPT ![n] = b]
  /\ tidy' = (tidy /\ Files(dir) = {})
  /\ run' = [run EXCEPT ![p].pc = "ensure", ![p].left = {n},
               ![p].files = [[m \in Name |-> None] EXCEPT ![n] = b]]
  /\ UNCHANGED <<db, req, runs, edits>>

EnsureTable(p) ==
  /\ run[p].pc = "ensure"
  /\ db' = [db EXCEPT !.table = TRUE]
  /\ Goes(p, "next")
  /\ UNCHANGED <<dir, req, tidy, runs, edits>>

(* applyMigration for the first file left, in filename order. *)
SendBatch(p, n) ==
  /\ run[p].pc = "next"
  /\ n \in run[p].left /\ \A m \in run[p].left : n <= m
  /\ req' = [req EXCEPT ![p] = Sent([name |-> n, body |-> run[p].files[n]])]
  /\ run' = [run EXCEPT ![p].pc = "wait", ![p].left = @ \ {n}, ![p].mine = @ \cup {n}]
  /\ UNCHANGED <<dir, db, tidy, runs, edits>>

Answered(p) ==
  /\ run[p].pc = "wait" /\ req[p].state = "well"
  /\ Goes(p, "next")
  /\ req' = [req EXCEPT ![p] = NoRequest]
  /\ UNCHANGED <<dir, db, tidy, runs, edits>>

FailedGoesOn(p) ==
  /\ run[p].pc = "wait" /\ req[p].state = "failed"
  /\ Goes(p, "next")
  /\ req' = [req EXCEPT ![p] = NoRequest]
  /\ UNCHANGED <<dir, db, tidy, runs, edits>>

FailedRetries(p) ==
  /\ run[p].pc = "wait" /\ req[p].state = "failed"
  /\ run' = [run EXCEPT ![p].pc = "next", ![p].left = @ \cup run[p].mine]
  /\ req' = [req EXCEPT ![p] = NoRequest]
  /\ UNCHANGED <<dir, db, tidy, runs, edits>>

(* The first failure ends the command. *)
Failed(p) ==
  /\ run[p].pc = "wait" /\ req[p].state = "failed"
  /\ Ends(p, FALSE)
  /\ req' = [req EXCEPT ![p] = NoRequest]
  /\ UNCHANGED <<dir, db, tidy, runs, edits>>

AllApplied(p) ==
  /\ run[p].pc = "next" /\ run[p].left = {}
  /\ Ends(p, TRUE)
  /\ UNCHANGED <<dir, db, req, tidy, runs, edits>>

(* The process is killed, a query fails, or the answer to a batch never comes; the server goes on with what was sent. *)
Dies(p) ==
  /\ Busy(p)
  /\ Ends(p, FALSE)
  /\ req' = [req EXCEPT ![p] = IF Working(p) THEN @ ELSE NoRequest]
  /\ UNCHANGED <<dir, db, tidy, runs, edits>>

Command(p) ==
  \/ \E drift \in BOOLEAN : ReadHistory(p, drift)
  \/ \E n \in Name, b \in Body : WriteTemplate(p, n, b)
  \/ EnsureTable(p)
  \/ \E n \in Name : SendBatch(p, n)
  \/ Answered(p) \/ Failed(p) \/ AllApplied(p)

Next ==
  \/ \E n \in Name, b \in Body \cup {None} : EditFile(n, b)
  \/ \E p \in Proc : Server(p) \/ Start(p) \/ TemplateStart(p) \/ Command(p) \/ Dies(p)

Spec == Init /\ [][Next]_vars

(* The command and the server go on; nobody has to start, edit or die. *)
FairSpec == Spec /\ \A p \in Proc : WF_vars(Command(p)) /\ WF_vars(Server(p))

-------------------------------------------------------------------------------
CommandState ==
  [pc : {"idle", "read", "template", "ensure", "next", "wait"}, files : [Name -> Body \cup {None}],
   left : SUBSET Name, mine : SUBSET Name, well : BOOLEAN]

Request ==
  [state : {"working"}, m : Migration, step : Nat \ {0}, ok : SUBSET Nat, open : BOOLEAN,
   work : [rows : Seq(Migration), done : Seq(Name \X Body \X Nat)]]

(* Every variable has its type: a file says one thing, a row names a file, a batch is at one of its steps. *)
MigrationsTypeOK ==
  /\ dir \in [Name -> Body \cup {None}]
  /\ db \in [table : BOOLEAN, rows : Seq(Migration), done : Seq(Name \X Body \X Nat)]
  /\ req \in [Proc -> Request \cup [state : {"none", "well", "failed"}]]
  /\ run \in [Proc -> CommandState]
  /\ tidy \in BOOLEAN
  /\ runs \in Nat /\ edits \in Nat

(* "a migration either lands and is recorded or neither happens" (apply.ts:57, cli/README.md:454): however batches fail, overlap or lose their answer, the database only ever changes by one whole migration with its row. *)
LandsWhole == H!Spec

(* As long as files are only added at the end of the directory and nobody asks for --allow-drift, the tracking rows are the first files of the directory in filename order, whoever applies them and however runs overlap: the UNIQUE name stops a run that decided from a stale read (engine.ts:284). *)
HistoryIsPrefix ==
  tidy =>
    /\ \A i, j \in DOMAIN db.rows : i < j => db.rows[i].name < db.rows[j].name
    /\ \A i \in DOMAIN db.rows : dir[db.rows[i].name] = db.rows[i].body
    /\ \A i \in DOMAIN db.rows : \A n \in Files(dir) : n < db.rows[i].name => n \in Recorded(db.rows)

(* A run that reports success leaves every file it saw recorded, and those it reports as applied recorded with what the file said (apply.ts:240-292). *)
SuccessIsApplied ==
  \A p \in Proc :
    run[p].well =>
      /\ Files(run[p].files) \subseteq Recorded(db.rows)
      /\ \A n \in run[p].mine : \E i \in DOMAIN db.rows : db.rows[i] = [name |-> n, body |-> run[p].files[n]]

(* A command ends, and so does what it sent: a failed batch or a lost client leaves no transaction that locks the others out (client.ts:303). *)
ApplyEnds == \A p \in Proc : (Busy(p) \/ Working(p)) ~> (~Busy(p) /\ ~Working(p))
===============================================================================
