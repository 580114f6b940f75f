--------------------------- MODULE MigrationHistory ---------------------------
(***************************************************************************)
(* What `bunny db migrations apply` promises of a database                 *)
(* (packages/cli/README.md:454): a migration and its tracking row land     *)
(* together or not at all, and none lands twice.  DbMigrations implements  *)
(* it with batches of conditional steps.                                   *)
(***************************************************************************)
EXTENDS Naturals, Sequences

CONSTANTS
  Name,       \* file names, in filename order
  Body,       \* what a file may say
  Statements  \* how many statements each body has

VARIABLES
  log,        \* the tracking rows, oldest first
  schema      \* the statements the database has run, in order

(* What the first k statements of a migration do to the schema. *)
Effects(m, k) == [i \in 1..k |-> <<m.name, m.body, i>>]

Recorded(rows) == {rows[i].name : i \in DOMAIN rows}

Init == log = <<>> /\ schema = <<>>

(* One migration lands, whole, with its row. *)
Land(m) ==
  /\ m.name \notin Recorded(log)
  /\ log' = Append(log, m)
  /\ schema' = schema \o Effects(m, Statements[m.body])

Next == \E m \in [name : Name, body : Body] : Land(m)

Spec == Init /\ [][Next]_<<log, schema>>
===============================================================================
