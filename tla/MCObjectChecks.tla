--------------------------- MODULE MCObjectChecks ---------------------------
(* Two objects of the kinds that are listed, one lease, one certificate    *)
(* and one API server, one kubelet, and one each of those that only age.   *)
(* The thresholds are a few ticks, in the order of the code, the minute    *)
(* is two ticks, so that rounding shows.                                   *)
EXTENDS ObjectChecks, TLC

CONSTANTS a, b, c

One == {"kubelet", "lease", "certificate", "apiserver", "claim", "volume", "namespace", "job", "event", "pod"}
MCNames == [k \in AllKinds |-> IF k \in One THEN {c} ELSE {a, b}]
MCT == [second |-> 1, minute |-> 2, pending |-> 3, notReady |-> 3, pvc |-> 3,
        nsWarn |-> 2, nsCrit |-> 4, released |-> 4, helm |-> 3, snapWarn |-> 2, snapCrit |-> 4,
        events |-> 2, certWarn |-> 3, certCrit |-> 1, lease |-> 1,
        restartsWarn |-> 4, restartsCrit |-> 5]
MCNumbers == [k \in AllKinds |->
  CASE k = "container" -> {4} [] k = "node" -> {4} [] k = "measured" -> {3, 4}
    [] k = "kubelet" -> {0, 3} [] k \in {"workload", "budget"} -> {0, 2} [] OTHER -> {0}]
MCWants == [k \in AllKinds |->
  CASE k = "node" -> {0, 5} [] k = "measured" -> {0, 4} [] k = "workload" -> {None, 0, 2}
    [] k = "budget" -> {None, 2} [] k = "lease" -> {None, 2} [] OTHER -> {None}]
MCSkews == {-1, 2}
Alike == Permutations({a, b})
=============================================================================
