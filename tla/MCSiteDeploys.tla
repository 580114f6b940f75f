---------------------------- MODULE MCSiteDeploys ----------------------------
(* Model-checking instances of SiteDeploys. *)
EXTENDS SiteDeploys, TLC

CONSTANTS a, b, c, x, y, index, app

Sizes == [h \in Hash |-> IF h = x THEN {index, app} ELSE {index}]

Deploy(id, h) == [cmd |-> "deploy", id |-> id, hash |-> h, custom |-> FALSE, force |-> FALSE,
                  spa |-> FALSE, keep |-> 0]
Spa(r) == [r EXCEPT !.spa = TRUE]
Custom(r) == [r EXCEPT !.custom = TRUE]
Forced(r) == [r EXCEPT !.force = TRUE]
On(cmd, id) == [Deploy(id, None) EXCEPT !.cmd = cmd]

(* They add to the state file or publish from it: two of them may overlap. *)
Beside == {Deploy(a, x), Spa(Deploy(a, x)), Custom(Deploy(c, y)),
           On("publish", a), On("publish", c), On("publish", None)}

(* They replace or remove what is there. *)
Alone == {Deploy(b, y), Custom(Deploy(b, x)), Forced(Deploy(b, y)),
          On("delete", a), On("delete", b), On("prune", None), [On("prune", None) EXCEPT !.keep = 1]}

Everything == Beside \cup Alone

Processes == Permutations(Proc)
=============================================================================
