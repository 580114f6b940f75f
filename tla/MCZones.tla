------------------------------- MODULE MCZones -------------------------------
(* Model-checking instances of SiteProvision. *)
EXTENDS SiteProvision, TLC

CONSTANTS new1, new2, po, pl, p1, p2

Alike == Permutations(Proc) \cup Permutations(Names) \cup Permutations({new1, new2}) \cup Permutations({p1, p2})
=============================================================================
