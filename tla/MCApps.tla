------------------------------- MODULE MCApps --------------------------------
(* Model-checking instances of AppDeploy. *)
EXTENDS AppDeploy, TLC

CONSTANTS web, job

Listed == web :> 1 @@ job :> 2
Alike == Permutations(Proc) \cup Permutations(App) \cup Permutations(Built)
=============================================================================
