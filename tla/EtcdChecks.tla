------------------------------ MODULE EtcdChecks ------------------------------
(***************************************************************************)
(* internal/checks/etcd_checks.go: what the four etcd checks make of the   *)
(* answer of etcd.Collect, a Status or an error.  Each check gives one     *)
(* finding.  Sizes are integers, and the comparisons of percentages are    *)
(* stated without the division.                                            *)
(***************************************************************************)
EXTENDS Integers, FiniteSets

(* An error ErrUnavailable is a SKIP, any other an UNKNOWN. *)
FromError(a) == IF a.kind = "unavailable" THEN "SKIP" ELSE "UNKNOWN"

(* Mutant: a status without a leader passes. *)
HealthLeaderless(a) ==
  IF a.kind # "status" THEN FromError(a)
  ELSE IF ~ a.st.reachable \/ a.st.alarms THEN "CRIT" ELSE "OK"

(* etcd.health *)
Health(a) ==
  IF a.kind # "status" THEN FromError(a)
  ELSE IF ~ a.st.reachable \/ ~ a.st.hasLeader \/ a.st.alarms THEN "CRIT" ELSE "OK"

(* part / whole * 100 >= pct; a threshold belongs to the worse verdict, also *)
(* in etcd.defrag, whose comment has it the other way (etcd_checks.go 162).  *)
AtLeast(pct, part, whole) == whole > 0 /\ 100 * part >= pct * whole

(* The two thresholds of a check. *)
Band(part, whole, warn, crit) ==
  IF AtLeast(crit, part, whole) THEN "CRIT"
  ELSE IF AtLeast(warn, part, whole) THEN "WARN" ELSE "OK"

(* etcd.size *)
Size(a) ==
  IF a.kind # "status" THEN FromError(a)
  ELSE IF a.st.size = 0 THEN "SKIP"
  ELSE Band(a.st.size, a.st.quota, 75, 90)

(* etcd.defrag *)
Defrag(a) ==
  IF a.kind # "status" THEN FromError(a)
  ELSE IF a.st.size = 0 \/ a.st.inUse = 0 THEN "SKIP"
  ELSE Band(a.st.size - a.st.inUse, a.st.size, 25, 50)

(* Mutant: members that did not respond are left out of the total. *)
MembersCheckReached(a) ==
  IF a.kind # "status" THEN FromError(a)
  ELSE LET reachable == Cardinality({m \in DOMAIN a.st.members : a.st.members[m] = "reachable"})
       IN IF reachable = 0 THEN "SKIP" ELSE IF reachable < 2 THEN "WARN" ELSE "OK"

(* etcd.members *)
MembersCheck(a) ==
  IF a.kind # "status" THEN FromError(a)
  ELSE LET in(s) == {m \in DOMAIN a.st.members : a.st.members[m] \in s}
           total == Cardinality(in({"reachable", "unreachable"}))
           reachable == Cardinality(in({"reachable"}))
       IN IF total = 0 THEN "SKIP"
          ELSE IF reachable = 0 THEN "CRIT"
          ELSE IF reachable < total \/ total < 3 THEN "WARN"
          ELSE "OK"
=============================================================================
