----------------------------- MODULE MCDatabases -----------------------------
(* Model-checking instances of DbMigrations. *)
EXTENDS DbMigrations

CONSTANTS one, two, bad, p1, p2

Lengths == [b \in Body |-> IF b = one THEN 1 ELSE IF b = two THEN 2 ELSE 0]
===============================================================================
