--------------------------- MODULE ObjectVerdicts ---------------------------
(***************************************************************************)
(* What the checks of internal/checks that judge objects one by one say of *)
(* an object, given the object as it was read and khealth's clock.  "OK"   *)
(* stands for no finding, unless the check has one for a healthy object.   *)
(*                                                                         *)
(* An object has a phase, the time it was created, one more time (stamp),  *)
(* a number (n) and a number it is compared with (want); None where unset. *)
(*                                                                         *)
(*   kind          phase                       stamp          n, want      *)
(*   pod           its phase; Running is       -              -            *)
(*                 Starting until it is Ready                              *)
(*   container     its waiting or its last     -              restarts, -  *)
(*                 terminated state                                        *)
(*   claim, volume, namespace  its phase       deletion       -            *)
(*   job           what became of its pods     -              -            *)
(*   event         its type                    last seen      -            *)
(*   certificate   -                           NotAfter       -            *)
(*   lease         whether it has a holder     renewed        -, duration  *)
(*   node          the condition Ready         -              used, size   *)
(*   measured node -                           -              used, size   *)
(*   kubelet       odd: an unreadable version  -              minor, -     *)
(*   workload      -                           -              ready, wanted*)
(*   budget        -                           -          pods, available  *)
(*   others        the field the check looks at                            *)
(***************************************************************************)
EXTENDS Integers

CONSTANTS
  T,      \* the thresholds of the code, in the units of the model
  None

ASSUME NoneAssumption == None \notin Int
(* What the proportions of the thresholds in the code are: one rounds to a *)
(* divisor of what it compares with, a warning comes before an alarm.      *)
ASSUME ThresholdsAssumption ==
  /\ T.second \in Nat \ {0} /\ T.minute \in Nat \ {0}
  /\ T.nsWarn \in Nat /\ T.nsCrit \in Nat /\ T.nsWarn < T.nsCrit
  /\ T.nsWarn % T.second = 0 /\ T.nsCrit % T.second = 0
  /\ T.snapWarn \in Nat /\ T.snapCrit \in Nat /\ T.snapWarn < T.snapCrit
  /\ T.snapWarn % T.minute = 0 /\ T.snapCrit % T.minute = 0
  /\ T.released \in Nat /\ T.released % T.minute = 0
  /\ T.certCrit \in Nat /\ T.certWarn \in Nat /\ T.certCrit < T.certWarn
  /\ T.restartsWarn \in Nat /\ T.restartsCrit \in Nat /\ T.restartsWarn < T.restartsCrit
  /\ T.pending \in Nat /\ T.notReady \in Nat /\ T.pvc \in Nat /\ T.helm \in Nat
  /\ T.events \in Nat /\ T.lease \in Nat \ {0}

(* time.Duration.Round, for the durations that matter: the multiple of u   *)
(* nearest to a, the larger one of two.                                    *)
Round(a, u) == ((2 * a + u) \div (2 * u)) * u

Graced(bad, age, limit) == IF bad /\ age >= limit THEN "WARN" ELSE "OK"
Staged(age, warn, crit) == IF age >= crit THEN "CRIT" ELSE IF age >= warn THEN "WARN" ELSE "OK"

-----------------------------------------------------------------------------
(* Pods *)
podsPending(o, t) == Graced(o.phase = "Pending", t - o.created, T.pending)
podsNotReady(o, t) == Graced(o.phase = "Starting", t - o.created, T.notReady)
podsBackoff(o) == IF o.phase = "CrashLooping" THEN "CRIT" ELSE "OK"
podsOOMKilled(o) == IF o.phase = "Revived" THEN "WARN" ELSE "OK"
podsRestarts(o) == Staged(o.n, T.restartsWarn, T.restartsCrit)

-----------------------------------------------------------------------------
(* Objects that have been in a state for too long *)
(* Mutant: a claim that was bound and lost its volume is passed over. *)
pvcPendingOnly(o, t) == Graced(o.phase = "Pending", t - o.created, T.pvc)

pvcPending(o, t) == Graced(o.phase # "Bound", t - o.created, T.pvc)
pvReleased(o, t) == Graced(o.phase = "Released", Round(t - o.created, T.minute), T.released)

(* Mutant: a namespace's age is measured from its creation. *)
namespacesTerminatingByAge(o, t) ==
  IF o.phase = "Terminating" THEN Staged(Round(t - o.created, T.second), T.nsWarn, T.nsCrit)
  ELSE "OK"

namespacesTerminating(o, t) ==
  LET since == IF o.stamp # None THEN o.stamp ELSE o.created
  IN IF o.phase = "Terminating" THEN Staged(Round(t - since, T.second), T.nsWarn, T.nsCrit)
     ELSE "OK"

classifyHelmInstallJob(o, t) ==
  CASE o.phase = "Failed" -> "CRIT"      \* some pod failed and none succeeded
    [] o.phase = "Succeeded" -> "OK"
    [] OTHER -> IF t - o.created > T.helm THEN "CRIT" ELSE "WARN"

(* lastEventTime: an event without time stamps is as old as its object. *)
eventsWarnings(o, t) ==
  LET ts == IF o.stamp # None THEN o.stamp ELSE o.created
  IN IF o.phase = "Warning" /\ ts >= t - T.events THEN "WARN" ELSE "OK"

(* Of the snapshots listed the newest counts. *)
snapshotsRecent(list, t) ==
  IF DOMAIN list = {} THEN "CRIT"
  ELSE LET newest == CHOOSE i \in DOMAIN list : \A j \in DOMAIN list :
                       list[j].created <= list[i].created
       IN Staged(Round(t - list[newest].created, T.minute), T.snapWarn, T.snapCrit)

(* Mutant: an expired certificate is in none of the windows. *)
certFindingWindows(o, t) ==
  LET until == o.stamp - t
  IN IF until \in 0..(T.certCrit - 1) THEN "CRIT"
     ELSE IF until \in T.certCrit..(T.certWarn - 1) THEN "WARN" ELSE "OK"

certFinding(o, t) ==
  LET until == o.stamp - t
  IN IF until < T.certCrit THEN "CRIT" ELSE IF until < T.certWarn THEN "WARN" ELSE "OK"

(* What errors.As finds in err, a chain of error types, for a variable of  *)
(* type target.                                                            *)
As(err, target) == \E i \in DOMAIN err : err[i] = target

(* Both variables it tries are pointers to the error. *)
isCertExpiredErr(err) ==
  \/ As(err, "*x509.CertificateInvalidError")
  \/ /\ As(err, "*tls.CertificateVerificationError")
     /\ As(err, "*x509.CertificateInvalidError")

(* Mutant: a lease is stale after one duration. *)
leaseHealthOnce(o, t) ==
  LET dur == IF o.want # None /\ o.want > 0 THEN o.want ELSE T.lease
      renewed == IF o.stamp # None THEN o.stamp ELSE o.created
  IN IF o.phase = "Free" \/ t - renewed > dur THEN "CRIT" ELSE "OK"

leaseHealth(o, t) ==
  LET dur == IF o.want # None /\ o.want > 0 THEN o.want ELSE T.lease
      renewed == IF o.stamp # None THEN o.stamp ELSE o.created
  IN IF o.phase = "Free" \/ t - renewed > 2 * dur THEN "CRIT" ELSE "OK"

-----------------------------------------------------------------------------
(* Nodes *)

(* Mutant: a node whose condition is Unknown passes for a ready one. *)
nodesReadyFalseOnly(o) ==
  CASE o.phase = "False" -> "CRIT" [] o.phase = "missing" -> "UNKNOWN" [] OTHER -> "OK"

nodesReady(o) ==
  CASE o.phase \in {"False", "Unknown"} -> "CRIT"
    [] o.phase = "missing" -> "UNKNOWN"
    [] OTHER -> "OK"

nodeReady(o) == o.phase = "True"

nodesPressure(o) == IF o.phase = "Pressed" THEN "WARN" ELSE "OK"
nodesUnschedulable(o) == IF o.phase = "Cordoned" THEN "WARN" ELSE "OK"

(* The percentage used of size, which is not zero. *)
classifyPct(used, size) == Staged(100 * used, 75 * size, 90 * size)
classifyFS(used, size) == IF size = 0 THEN "OK" ELSE classifyPct(used, size)

(* A kubelet may lag behind the API server, of minor version api, by one.  *)
versionSkew(o, api) ==
  IF o.phase = "odd" THEN "UNKNOWN"
  ELSE IF api - o.n > 3 THEN "CRIT" ELSE IF api - o.n >= 2 THEN "WARN" ELSE "OK"

-----------------------------------------------------------------------------
(* Workloads: unset, the number of replicas wanted counts as zero. *)
desired(o) == IF o.want # None THEN o.want ELSE 0

rollout(o) ==
  IF o.n >= desired(o) THEN "OK" ELSE IF o.n = 0 /\ desired(o) > 0 THEN "CRIT" ELSE "WARN"

corednsReplicas(o) ==
  IF o.n = 0 /\ desired(o) > 0 THEN "CRIT" ELSE IF o.n < desired(o) THEN "WARN" ELSE "OK"

daemonsetsRollout(o) == IF o.n >= desired(o) THEN "OK" ELSE "WARN"

(* A minAvailable that is a number, not a percentage, and leaves no slack. *)
pdbsMisconfigured(o) == IF o.want # None /\ o.n > 0 /\ o.want >= o.n THEN "CRIT" ELSE "OK"

-----------------------------------------------------------------------------
(* Objects judged by one field of their status, unset where it is empty.   *)
apiservicesAvailable(o) == IF o.phase = "Unavailable" THEN "CRIT" ELSE "OK"
volumeAttachmentsFailed(o) == IF o.phase \in {"AttachError", "DetachError"} THEN "CRIT" ELSE "OK"
argocdOutOfSync(o) == IF o.phase \in {"unset", "Synced"} THEN "OK" ELSE "WARN"

argocdUnhealthy(o) ==
  CASE o.phase \in {"unset", "Healthy"} -> "OK"
    [] o.phase \in {"Degraded", "Missing"} -> "CRIT"
    [] OTHER -> "WARN"

longhornVolumes(o) ==
  CASE o.phase = "degraded" -> "WARN"
    [] o.phase \in {"faulted", "unknown"} -> "CRIT"
    [] OTHER -> "OK"

certificatesNotReady(o) ==
  CASE o.phase = "unset" -> "WARN" [] o.phase = "Ready" -> "OK" [] OTHER -> "CRIT"

apiserverHealthz(o) == IF o.phase = "ok" THEN "OK" ELSE "WARN"

(* Over all of them: one StorageClass is the default; default/kubernetes   *)
(* has a ready endpoint.                                                   *)
storageclassDefault(list) ==
  LET defaults == {i \in DOMAIN list : list[i].phase = "default"}
  IN IF defaults = {} THEN "WARN"
     ELSE IF \E i \in defaults : defaults = {i} THEN "OK" ELSE "CRIT"

controlPlaneEndpoints(list) ==
  IF \E i \in DOMAIN list : list[i].phase = "Ready" THEN "OK" ELSE "CRIT"
=============================================================================
