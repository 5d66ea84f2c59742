---------------------------- MODULE CheckCmdOps -----------------------------
(***************************************************************************)
(* What internal/cli/check.go does to the findings of a report between the *)
(* runner and the renderer.  A finding's Resource is a name behind as many *)
(* "[seen-before] " as runs have put there: [name |-> n, tags |-> k].      *)
(***************************************************************************)
EXTENDS Result

CONSTANTS
  Names,      \* resources a finding may be about, without their prefix
  CheckIDs    \* checks

(* A Resource string: a name behind any number of "[seen-before] ".        *)
Resource == [name : Names, tags : Nat]
FindingSet == [check : CheckIDs, status : Status, resource : Resource]

(* Mutant: warnings count as healthy. *)
OnlyCritical(S, onlyUnhealthy) ==
  IF onlyUnhealthy THEN {f \in S : f.status \notin {"OK", "SKIP", "WARN"}} ELSE S

applyOnlyUnhealthy(S, onlyUnhealthy) ==
  IF onlyUnhealthy THEN {f \in S : f.status \notin {"OK", "SKIP"}} ELSE S

Tagged(f) == [f EXCEPT !.resource.tags = @ + 1]

(* applyBaseline: the persisting findings get the prefix, others are left. *)
applyBaseline(S, saved) ==
  LET persisting == Keys(Compare(saved, S).Persisting)
  IN {IF Key(f) \in persisting THEN Tagged(f) ELSE f : f \in S}
=============================================================================
