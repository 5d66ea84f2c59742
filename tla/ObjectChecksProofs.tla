-------------------------- MODULE ObjectChecksProofs --------------------------
(***************************************************************************)
(* Proofs about ObjectChecks, for any objects, any thresholds that are in  *)
(* proportion, any clocks and any number of runs.                          *)
(***************************************************************************)
EXTENDS ObjectChecks, FiniteSetTheorems, WellFoundedInduction, TLAPS

-----------------------------------------------------------------------------
(* Arithmetic: division, rounding, and the greatest of bounded numbers.    *)
LEMMA DivBounds ==
  ASSUME NEW x \in Int, NEW d \in Nat \ {0}
  PROVE  x \div d \in Int /\ (x \div d) * d <= x /\ x < (x \div d) * d + d
  BY SMT

LEMMA DivMonotone ==
  ASSUME NEW x \in Int, NEW y \in Int, NEW d \in Nat \ {0}, x <= y
  PROVE  x \div d <= y \div d
  BY DivBounds, SMT

LEMMA TimesMonotone ==
  ASSUME NEW x \in Int, NEW y \in Int, NEW u \in Nat, x <= y
  PROVE  x * u <= y * u
  BY SMT

LEMMA Multiple ==
  ASSUME NEW x \in Int, NEW d \in Nat \ {0}, x % d = 0
  PROVE  x = (x \div d) * d
  BY SMT

(* Rounding is monotone, adds half a unit at most, and does not fall below *)
(* a multiple of the unit that is not above what is rounded.               *)
LEMMA RoundType ==
  ASSUME NEW x \in Int, NEW u \in Nat \ {0}
  PROVE  Round(x, u) \in Int
  BY DivBounds DEF Round

LEMMA RoundMonotone ==
  ASSUME NEW x \in Int, NEW y \in Int, NEW u \in Nat \ {0}, x <= y
  PROVE  Round(x, u) <= Round(y, u)
<1>1. 2 * x + u \in Int /\ 2 * y + u \in Int /\ 2 * u \in Nat \ {0} /\ 2 * x + u <= 2 * y + u
  OBVIOUS
<1>2. (2 * x + u) \div (2 * u) <= (2 * y + u) \div (2 * u)
  BY <1>1, DivMonotone
<1>3. (2 * x + u) \div (2 * u) \in Int /\ (2 * y + u) \div (2 * u) \in Int
  BY <1>1, DivBounds
<1> QED
  BY <1>2, <1>3, TimesMonotone DEF Round

LEMMA RoundAbove ==
  ASSUME NEW x \in Int, NEW u \in Nat \ {0}
  PROVE  2 * Round(x, u) <= 2 * x + u
<1> DEFINE q == (2 * x + u) \div (2 * u)
<1>1. 2 * x + u \in Int /\ 2 * u \in Nat \ {0}
  OBVIOUS
<1>2. q \in Int /\ q * (2 * u) <= 2 * x + u
  BY <1>1, DivBounds
<1> HIDE DEF q
<1>3. q * (2 * u) = 2 * (q * u)
  BY <1>2, SMT
<1> QED
  BY <1>2, <1>3 DEF Round, q

LEMMA RoundReaches ==
  ASSUME NEW x \in Int, NEW u \in Nat \ {0}, NEW limit \in Nat, limit % u = 0, x >= limit
  PROVE  Round(x, u) >= limit
<1> DEFINE k == limit \div u
<1>1. k \in Int /\ limit = k * u
  BY DivBounds, Multiple
<1> HIDE DEF k
<1>2. (2 * limit + u) \div (2 * u) >= k
  <2>1. 2 * limit + u \in Int /\ 2 * u \in Nat \ {0}
    OBVIOUS
  <2> DEFINE q == (2 * limit + u) \div (2 * u)
  <2>2. q \in Int /\ 2 * limit + u < q * (2 * u) + 2 * u
    BY <2>1, DivBounds
  <2> HIDE DEF q
  <2>3. 2 * (k * u) + u < (q + 1) * (2 * u)
    BY <1>1, <2>2, SMT
  <2>4. ASSUME q + 1 <= k PROVE FALSE
    <3>1. (q + 1) * (2 * u) <= k * (2 * u)
      BY <1>1, <2>1, <2>2, <2>4, TimesMonotone
    <3>2. k * (2 * u) = 2 * (k * u)
      BY <1>1, SMT
    <3>3. k * u \in Int /\ (q + 1) * (2 * u) \in Int
      BY <1>1, <2>2
    <3> QED
      BY <2>3, <3>1, <3>2, <3>3
  <2>5. q >= k
    BY <1>1, <2>2, <2>4
  <2> QED
    BY <2>5 DEF q
<1>3. Round(limit, u) >= limit
  <2>1. (2 * limit + u) \div (2 * u) \in Int
    BY DivBounds
  <2>2. k * u <= ((2 * limit + u) \div (2 * u)) * u
    BY <1>1, <1>2, <2>1, TimesMonotone
  <2> QED
    BY <1>1, <2>2 DEF Round
<1>4. Round(limit, u) <= Round(x, u) /\ Round(limit, u) \in Int /\ Round(x, u) \in Int
  BY RoundMonotone, RoundType
<1> QED
  BY <1>3, <1>4

LEMMA Greatest ==
  ASSUME NEW S \in SUBSET Nat, S # {}, NEW n \in Nat, \A k \in S : k <= n
  PROVE  \E m \in S : \A k \in S : k <= m
<1> DEFINE I == {k..n : k \in S}
<1>1. I \subseteq FiniteSubsetsOf(Nat) /\ I # {}
  <2>1. ASSUME NEW k \in S PROVE k..n \in FiniteSubsetsOf(Nat)
    <3>1. k \in Int /\ n \in Int /\ k..n \subseteq Nat
      OBVIOUS
    <3>2. IsFiniteSet(k..n)
      BY <3>1, FS_Interval
    <3> QED
      BY <3>1, <3>2 DEF FiniteSubsetsOf
  <2> QED
    BY <2>1
<1>2. PICK x \in I : \A y \in I : ~ (<<y, x>> \in StrictSubsetOrdering(Nat))
  <2>1. IsWellFoundedOn(StrictSubsetOrdering(Nat), FiniteSubsetsOf(Nat))
    BY FS_StrictSubsetOrderingWellFounded
  <2> HIDE DEF I
  <2> QED
    BY <1>1, <2>1, WFMin
<1>3. PICK m \in S : x = m..n
  OBVIOUS
<1>4. ASSUME NEW k \in S, ~ (k <= m) PROVE FALSE
  <2>1. k..n \subseteq m..n /\ m \in m..n /\ m \notin k..n
    BY <1>4
  <2>2. <<k..n, m..n>> \in StrictSubsetOrdering(Nat)
    <3>1. k..n \in SUBSET Nat /\ m..n \in SUBSET Nat
      OBVIOUS
    <3> QED
      BY <2>1, <3>1 DEF StrictSubsetOrdering
  <2> QED
    BY <1>2, <1>3, <2>2
<1> QED
  BY <1>4
-----------------------------------------------------------------------------
(* The severity of a set of findings. *)
LEMMA WorstIs ==
  ASSUME NEW S, \A f \in S : f.status \in Status
  PROVE  /\ Worst(S) \in Status \ {"SKIP"}
         /\ \A f \in S : rank(f.status) <= rank(Worst(S))
         /\ Worst(S) = "OK" \/ \E f \in S : f.status = Worst(S)
<1> DEFINE Has(s) == \E f \in S : f.status = s
           Fits(s) == /\ \A f \in S : rank(f.status) <= rank(s)
                      /\ s = "OK" \/ \E f \in S : f.status = s
           w == IF Has("CRIT") THEN "CRIT"
                ELSE IF Has("WARN") THEN "WARN"
                ELSE IF Has("UNKNOWN") THEN "UNKNOWN" ELSE "OK"
<1>1. w \in Status \ {"SKIP"} /\ Fits(w)
  BY DEF Status, rank
<1>2. Worst(S) \in Status \ {"SKIP"} /\ Fits(Worst(S))
  BY <1>1 DEF Worst
<1> QED
  BY <1>2

LEMMA RankType == \A s \in Status : rank(s) \in 0..3 /\ (rank(s) = 0 <=> s \in {"OK", "SKIP"})
  BY DEF Status, rank

(* Findings that are matched by findings no less severe are no worse. *)
LEMMA WorstMonotone ==
  ASSUME NEW R, NEW S, \A f \in R : f.status \in Status, \A f \in S : f.status \in Status,
         \A f \in R : rank(f.status) = 0 \/ \E g \in S : rank(f.status) <= rank(g.status)
  PROVE  rank(Worst(R)) <= rank(Worst(S))
<1>1. Worst(R) \in Status /\ Worst(S) \in Status
  BY WorstIs
<1>2. rank(Worst(R)) \in 0..3 /\ rank(Worst(S)) \in 0..3 /\ rank("OK") = 0
  BY <1>1, RankType DEF Status
<1>3. CASE Worst(R) = "OK"
  BY <1>2, <1>3
<1>4. CASE Worst(R) # "OK"
  <2>1. PICK f \in R : f.status = Worst(R)
    BY <1>4, WorstIs
  <2>2. CASE rank(f.status) = 0
    BY <1>2, <2>1, <2>2
  <2>3. CASE \E g \in S : rank(f.status) <= rank(g.status)
    <3>1. PICK g \in S : rank(f.status) <= rank(g.status)
      BY <2>3
    <3>2. rank(g.status) <= rank(Worst(S)) /\ rank(g.status) \in 0..3
      BY WorstIs, RankType
    <3> QED
      BY <1>2, <2>1, <3>1, <3>2
  <2> QED
    BY <2>1, <2>2, <2>3
<1> QED
  BY <1>3, <1>4

(* And none but OK and SKIP means OK. *)
LEMMA WorstOK ==
  ASSUME NEW S, \A f \in S : f.status \in {"OK", "SKIP"}
  PROVE  Worst(S) = "OK"
<1>1. \A f \in S : f.status \in Status
  BY DEF Status
<1> QED
  BY <1>1, WorstIs
-----------------------------------------------------------------------------
(* The checks that judge one object at a time, and all that judge what     *)
(* they listed.                                                            *)
Overall == {"rke2.snapshots.recent", "storageclass.default", "controlplane.endpoints"}
Judging == IDs \ (Overall \cup Asking \cup {"nodes.cpu"})

(* Every verdict is a status, whatever it is about. *)
LEMMA VerdictType ==
  ASSUME NEW c \in Judging, NEW o, NEW t, NEW v
  PROVE  Verdict(c, o, t, v) \in Status
<1>1. \A bad, age, limit : Graced(bad, age, limit) \in Status
  BY DEF Graced, Status
<1>2. \A age, warn, crit : Staged(age, warn, crit) \in Status
  BY DEF Staged, Status
<1>3. /\ podsPending(o, t) \in Status /\ podsNotReady(o, t) \in Status
      /\ podsBackoff(o) \in Status /\ podsOOMKilled(o) \in Status /\ podsRestarts(o) \in Status
      /\ pvcPending(o, t) \in Status /\ pvReleased(o, t) \in Status
      /\ namespacesTerminating(o, t) \in Status
  BY <1>1, <1>2 DEF podsPending, podsNotReady, podsBackoff, podsOOMKilled, podsRestarts, pvcPending,
     pvReleased, namespacesTerminating, Status
<1>4. /\ classifyHelmInstallJob(o, t) \in Status /\ eventsWarnings(o, t) \in Status
      /\ certFinding(o, t) \in Status /\ leaseHealth(o, t) \in Status
  BY DEF classifyHelmInstallJob, eventsWarnings, certFinding, leaseHealth, Status
<1>5. /\ nodesReady(o) \in Status /\ nodesPressure(o) \in Status /\ nodesUnschedulable(o) \in Status
      /\ versionSkew(o, v) \in Status /\ rollout(o) \in Status /\ corednsReplicas(o) \in Status
      /\ daemonsetsRollout(o) \in Status /\ pdbsMisconfigured(o) \in Status
  BY DEF nodesReady, nodesPressure, nodesUnschedulable, versionSkew, rollout, corednsReplicas,
     daemonsetsRollout, pdbsMisconfigured, Status
<1>6. /\ apiservicesAvailable(o) \in Status /\ volumeAttachmentsFailed(o) \in Status
      /\ argocdOutOfSync(o) \in Status /\ argocdUnhealthy(o) \in Status
      /\ longhornVolumes(o) \in Status /\ certificatesNotReady(o) \in Status
      /\ apiserverHealthz(o) \in Status
  BY DEF apiservicesAvailable, volumeAttachmentsFailed, argocdOutOfSync, argocdUnhealthy,
     longhornVolumes, certificatesNotReady, apiserverHealthz, Status
<1> QED
  BY <1>3, <1>4, <1>5, <1>6 DEF Verdict, Judging, Overall, Asking, IDs

LEMMA OverallType ==
  ASSUME NEW l, NEW t
  PROVE  snapshotsRecent(l, t) \in Status /\ storageclassDefault(l) \in Status
         /\ controlPlaneEndpoints(l) \in Status
<1>1. \A age, warn, crit : Staged(age, warn, crit) \in Status
  BY DEF Staged, Status
<1>2. snapshotsRecent(l, t) \in Status
  BY <1>1 DEF snapshotsRecent, Status
<1> QED
  BY <1>2 DEF storageclassDefault, controlPlaneEndpoints, Status

(* What a check that judges one object at a time says. *)
LEMMA FindingsJudging ==
  ASSUME NEW c \in Judging, NEW l, NEW t, NEW v
  PROVE  LET verdicts == {Finding(o, Verdict(c, l[o], t, v)) : o \in DOMAIN l}
         IN Findings(c, l, t, v) =
              IF c \in {"coredns.replicas", "rke2.helmInstallJobs"}
              THEN IF verdicts = {} THEN {Finding(Nothing, "SKIP")} ELSE verdicts
              ELSE OrOK({f \in verdicts : f.status # "OK"})
  BY DEF Findings, Judging, Overall

(* Every finding is about no object, and OK or SKIP, or about a listed one *)
(* and what the check says of it; and every object that is not OK has one. *)
LEMMA FindingsAre ==
  ASSUME NEW c \in Judging, NEW l, NEW t, NEW v
  PROVE  /\ Findings(c, l, t, v) # {}
         /\ \A f \in Findings(c, l, t, v) :
              \/ f = Finding(Nothing, "OK") \/ f = Finding(Nothing, "SKIP")
              \/ \E o \in DOMAIN l : f = Finding(o, Verdict(c, l[o], t, v))
         /\ \A o \in DOMAIN l : Verdict(c, l[o], t, v) # "OK" =>
              Finding(o, Verdict(c, l[o], t, v)) \in Findings(c, l, t, v)
<1> DEFINE V(o) == Verdict(c, l[o], t, v)
           verdicts == {Finding(o, V(o)) : o \in DOMAIN l}
           said == Findings(c, l, t, v)
<1>1. said = IF c \in {"coredns.replicas", "rke2.helmInstallJobs"}
             THEN IF verdicts = {} THEN {Finding(Nothing, "SKIP")} ELSE verdicts
             ELSE OrOK({f \in verdicts : f.status # "OK"})
  BY FindingsJudging
<1> HIDE DEF said, V
<1>2. CASE c \in {"coredns.replicas", "rke2.helmInstallJobs"}
  BY <1>1, <1>2 DEF said, V
<1>3. CASE c \notin {"coredns.replicas", "rke2.helmInstallJobs"}
  <2> DEFINE bad == {f \in verdicts : f.status # "OK"}
  <2>1. said = IF bad = {} THEN {Finding(Nothing, "OK")} ELSE bad
    BY <1>1, <1>3 DEF OrOK
  <2>2. \A o \in DOMAIN l : V(o) # "OK" => Finding(o, V(o)) \in bad
    BY DEF Finding
  <2> QED
    BY <2>1, <2>2 DEF said, V
<1> QED
  BY <1>2, <1>3

LEMMA FindingsOverall ==
  ASSUME NEW c \in Overall, NEW l, NEW t, NEW v
  PROVE  \E s \in Status : Findings(c, l, t, v) = {Finding(Nothing, s)}
<1>1. CASE c = "rke2.snapshots.recent"
  BY <1>1, OverallType DEF Findings
<1>2. CASE c = "storageclass.default"
  BY <1>2, OverallType DEF Findings
<1>3. CASE c = "controlplane.endpoints"
  BY <1>3, OverallType DEF Findings
<1> QED
  BY <1>1, <1>2, <1>3 DEF Overall

LEMMA FindingsType ==
  ASSUME NEW c \in Judging \cup Overall, NEW l, DOMAIN l \subseteq Names[kind], NEW t, NEW v
  PROVE  Findings(c, l, t, v) \subseteq FindingType /\ Findings(c, l, t, v) # {}
<1>1. \A o \in Names[kind] \cup {Nothing}, s \in Status : Finding(o, s) \in FindingType
  BY DEF Finding, FindingType
<1>2. CASE c \in Judging
  <2>1. \A o \in DOMAIN l : Finding(o, Verdict(c, l[o], t, v)) \in FindingType
    BY <1>1, <1>2, VerdictType
  <2>2. Finding(Nothing, "OK") \in FindingType /\ Finding(Nothing, "SKIP") \in FindingType
    BY <1>1 DEF Status
  <2> QED
    BY <1>2, <2>1, <2>2, FindingsAre
<1>3. CASE c \in Overall
  BY <1>1, <1>3, FindingsOverall
<1> QED
  BY <1>2, <1>3

(* What a report says of one object is what the check says of it. *)
LEMMA StatusOfJudging ==
  ASSUME NEW c \in Judging, NEW l, NEW t, NEW v, NEW o \in DOMAIN l, o # Nothing
  PROVE  StatusOf(Findings(c, l, t, v), o) = Verdict(c, l[o], t, v)
<1> DEFINE said == Findings(c, l, t, v)
<1>1. \A f \in said : f.on = o => f.status = Verdict(c, l[o], t, v)
  BY FindingsAre DEF Finding
<1>2. CASE \E f \in said : f.on = o
  BY <1>1, <1>2 DEF StatusOf
<1>3. CASE ~ \E f \in said : f.on = o
  <2>1. Verdict(c, l[o], t, v) = "OK"
    <3>1. \A s : Finding(o, s).on = o
      BY DEF Finding
    <3> HIDE DEF said
    <3> QED
      BY <1>3, <3>1, FindingsAre DEF said
  <2> QED
    BY <1>3, <2>1 DEF StatusOf
<1> QED
  BY <1>2, <1>3

LEMMA StatusOfOverall ==
  ASSUME NEW c \in Overall, NEW l, NEW t, NEW v, NEW o, o # Nothing
  PROVE  StatusOf(Findings(c, l, t, v), o) = "OK"
<1>1. PICK s \in Status : Findings(c, l, t, v) = {Finding(Nothing, s)}
  BY FindingsOverall
<1>2. ~ \E f \in Findings(c, l, t, v) : f.on = o
  BY <1>1 DEF Finding
<1> QED
  BY <1>2 DEF StatusOf
-----------------------------------------------------------------------------
(* As time passes and the server is upgraded, verdicts only get worse.     *)
LEMMA StagedMonotone ==
  ASSUME NEW x \in Int, NEW y \in Int, x <= y, NEW warn \in Int, NEW crit \in Int
  PROVE  rank(Staged(x, warn, crit)) <= rank(Staged(y, warn, crit))
  BY DEF Staged, rank

LEMMA RoundStaged ==
  ASSUME NEW x \in Int, NEW y \in Int, x <= y, NEW u \in Nat \ {0}, NEW warn \in Int, NEW crit \in Int
  PROVE  rank(Staged(Round(x, u), warn, crit)) <= rank(Staged(Round(y, u), warn, crit))
  BY RoundType, RoundMonotone, StagedMonotone

LEMMA VerdictMonotone ==
  ASSUME NEW c \in Judging \ {"events.warnings"}, NEW o,
         o.created \in Int, o.n \in Int, o.stamp \in Int \cup {None}, o.want \in Nat \cup {None},
         c = "apiserver.certExpiry" => o.stamp # None,
         NEW s \in Int, NEW t \in Int, s <= t, NEW u \in Int, NEW v \in Int, u <= v
  PROVE  rank(Verdict(c, o, s, u)) <= rank(Verdict(c, o, t, v))
<1> USE ThresholdsAssumption
<1>1. s - o.created \in Int /\ t - o.created \in Int /\ s - o.created <= t - o.created
  OBVIOUS
<1>2. CASE c = "pods.pending"
  <2>1. rank(podsPending(o, s)) <= rank(podsPending(o, t))
    BY <1>1 DEF podsPending, Graced, rank
  <2> QED
    BY <1>2, <2>1 DEF Verdict
<1>3. CASE c = "pods.notReady"
  <2>1. rank(podsNotReady(o, s)) <= rank(podsNotReady(o, t))
    BY <1>1 DEF podsNotReady, Graced, rank
  <2> QED
    BY <1>3, <2>1 DEF Verdict
<1>4. CASE c = "pvc.pending"
  <2>1. rank(pvcPending(o, s)) <= rank(pvcPending(o, t))
    BY <1>1 DEF pvcPending, Graced, rank
  <2> QED
    BY <1>4, <2>1 DEF Verdict
<1>5. CASE c = "pv.releasedNotReclaimed"
  <2>1. /\ Round(s - o.created, T.minute) \in Int /\ Round(t - o.created, T.minute) \in Int
        /\ Round(s - o.created, T.minute) <= Round(t - o.created, T.minute)
    BY <1>1, RoundType, RoundMonotone
  <2>2. rank(pvReleased(o, s)) <= rank(pvReleased(o, t))
    BY <2>1 DEF pvReleased, Graced, rank
  <2> QED
    BY <1>5, <2>2 DEF Verdict
<1>6. CASE c = "namespaces.stuckTerminating"
  <2> DEFINE since == IF o.stamp # None THEN o.stamp ELSE o.created
  <2>1. since \in Int
    OBVIOUS
  <2> HIDE DEF since
  <2>2. s - since \in Int /\ t - since \in Int /\ s - since <= t - since
    BY <2>1
  <2>3. rank(Staged(Round(s - since, T.second), T.nsWarn, T.nsCrit))
          <= rank(Staged(Round(t - since, T.second), T.nsWarn, T.nsCrit))
    <3>1. T.second \in Nat \ {0} /\ T.nsWarn \in Int /\ T.nsCrit \in Int
      OBVIOUS
    <3> QED
      BY <2>2, <3>1, RoundStaged
  <2>4. rank(namespacesTerminating(o, s)) <= rank(namespacesTerminating(o, t))
    <3>1. CASE o.phase = "Terminating"
      BY <2>3, <3>1 DEF namespacesTerminating, since
    <3>2. CASE o.phase # "Terminating"
      BY <3>2 DEF namespacesTerminating, rank
    <3> QED
      BY <3>1, <3>2
  <2> QED
    BY <1>6, <2>4 DEF Verdict
<1>7. CASE c = "rke2.helmInstallJobs"
  <2>1. rank(classifyHelmInstallJob(o, s)) <= rank(classifyHelmInstallJob(o, t))
    BY <1>1 DEF classifyHelmInstallJob, rank
  <2> QED
    BY <1>7, <2>1 DEF Verdict
<1>8. CASE c = "apiserver.certExpiry"
  <2>1. rank(certFinding(o, s)) <= rank(certFinding(o, t))
    BY <1>8 DEF certFinding, rank
  <2> QED
    BY <1>8, <2>1 DEF Verdict
<1>9. CASE c = "controllerMgr.healthz"
  <2> DEFINE renewed == IF o.stamp # None THEN o.stamp ELSE o.created
             dur == IF o.want # None /\ o.want > 0 THEN o.want ELSE T.lease
  <2>1. renewed \in Int /\ dur \in Int
    OBVIOUS
  <2> HIDE DEF renewed, dur
  <2>2. s - renewed > 2 * dur => t - renewed > 2 * dur
    BY <2>1
  <2>3. rank(leaseHealth(o, s)) <= rank(leaseHealth(o, t))
    BY <2>2 DEF leaseHealth, rank, renewed, dur
  <2> QED
    BY <1>9, <2>3 DEF Verdict
<1>10. CASE c = "nodes.versionSkew"
  <2>1. rank(versionSkew(o, u)) <= rank(versionSkew(o, v))
    BY DEF versionSkew, rank
  <2> QED
    BY <1>10, <2>1 DEF Verdict
<1>11. CASE c \in {"pods.backoff", "pods.oomKilled", "pods.restarts", "nodes.ready", "nodes.pressure",
                   "nodes.unschedulable", "deployments.rollout", "coredns.replicas",
                   "daemonsets.rollout", "pdbs.misconfigured", "apiservices.available",
                   "volumeattachments.failed", "argocd.apps.outOfSync", "argocd.apps.unhealthy",
                   "longhorn.volumes.degraded", "certmanager.certificates.notReady",
                   "apiserver.healthz"}
  <2>1. Verdict(c, o, s, u) = Verdict(c, o, t, v)
    BY <1>11 DEF Verdict
  <2>2. rank(Verdict(c, o, t, v)) \in Nat
    BY VerdictType, RankType
  <2> QED
    BY <2>1, <2>2
<1> QED
  BY <1>2, <1>3, <1>4, <1>5, <1>6, <1>7, <1>8, <1>9, <1>10, <1>11 DEF Judging, Overall, Asking, IDs

(* The newest of the snapshots listed. *)
LEMMA SnapshotsMonotone ==
  ASSUME NEW l, NEW n \in Nat, \A o \in DOMAIN l : l[o].created \in Nat /\ l[o].created <= n,
         NEW s \in Int, NEW t \in Int, s <= t
  PROVE  rank(snapshotsRecent(l, s)) <= rank(snapshotsRecent(l, t))
<1>1. CASE DOMAIN l = {}
  BY <1>1 DEF snapshotsRecent, rank
<1>2. CASE DOMAIN l # {}
  <2> DEFINE S == {l[o].created : o \in DOMAIN l}
             newest == CHOOSE i \in DOMAIN l : \A j \in DOMAIN l : l[j].created <= l[i].created
  <2>1. S \in SUBSET Nat /\ S # {} /\ \A k \in S : k <= n
    BY <1>2
  <2>2. PICK m \in S : \A k \in S : k <= m
    <3> HIDE DEF S
    <3> QED
      BY <2>1, Greatest
  <2>3. \E i \in DOMAIN l : \A j \in DOMAIN l : l[j].created <= l[i].created
    BY <2>2
  <2>4. newest \in DOMAIN l
    BY <2>3
  <2>5. l[newest].created \in Int
    BY <2>4
  <2> DEFINE when == l[newest].created
  <2>6. \A x : snapshotsRecent(l, x) = Staged(Round(x - when, T.minute), T.snapWarn, T.snapCrit)
    BY <1>2 DEF snapshotsRecent
  <2> HIDE DEF newest, when
  <2>7. when \in Int
    BY <2>5 DEF when
  <2>8. s - when \in Int /\ t - when \in Int /\ s - when <= t - when
    BY <2>7
  <2>9. rank(Staged(Round(s - when, T.minute), T.snapWarn, T.snapCrit))
          <= rank(Staged(Round(t - when, T.minute), T.snapWarn, T.snapCrit))
    <3>1. T.minute \in Nat \ {0} /\ T.snapWarn \in Int /\ T.snapCrit \in Int
      BY ThresholdsAssumption
    <3> QED
      BY <2>8, <3>1, RoundStaged
  <2> QED
    BY <2>6, <2>9
<1> QED
  BY <1>1, <1>2
-----------------------------------------------------------------------------
(* What a step of the cluster does: it leaves the run alone, time does not *)
(* go back and versions do not, and an object of which `since' is before   *)
(* the run's beginning is still what it was.                               *)
RunKept ==
  /\ kind' = kind /\ skew' = skew /\ insecure' = insecure
  /\ pc' = pc /\ check' = check /\ at' = at /\ api' = api /\ usage' = usage /\ listed' = listed
  /\ todo' = todo /\ out' = out /\ began' = began /\ then' = then /\ failed' = failed
  /\ asked' = asked /\ before' = before /\ runs' = runs

Kept(x, y) == x.phase = y.phase /\ x.created = y.created /\ x.since = y.since

Fits(o, x, t, live) ==
  /\ x \in ObjectType
  /\ Sound(x, t, live)
  /\ x.since >= began \/ (objs[o] # Absent /\ Kept(x, objs[o]))

Evolves ==
  /\ RunKept
  /\ now' \in 0..Horizon /\ now <= now' /\ (pc # "idle" => now' - began <= Latency)
  /\ server' \in Nat /\ server <= server' /\ alive' \in BOOLEAN /\ changes' \in 0..MaxChanges
  /\ objs' \in [Names[kind] -> ObjectType \cup {Absent}]
  /\ \A o \in Names[kind] : objs'[o] # Absent => Fits(o, objs'[o], now', alive')

(* The leader matters to leases only. *)
LEMMA SoundAlive ==
  ASSUME NEW x, NEW t, NEW live, NEW live2, kind # "lease", Sound(x, t, live)
  PROVE  Sound(x, t, live2)
  BY DEF Sound

(* The objects there are. *)
LEMMA HereType ==
  ASSUME IInv, NEW o \in Names[kind], objs[o] # Absent
  PROVE  objs[o] \in ObjectType /\ Sound(objs[o], now, alive) /\ o \in Here
<1>1. o \in Here
  BY DEF Here
<1>2. objs \in [Names[kind] -> ObjectType \cup {Absent}]
  BY DEF IInv, TypeOK
<1>3. objs[o] \in ObjectType
  BY <1>2
<1> QED
  BY <1>1, <1>3 DEF IInv, AgeInv

LEMMA BasicTypes ==
  ASSUME IInv
  PROVE  /\ now \in Nat /\ began \in Int /\ began <= now /\ server \in Nat /\ api \in Nat
         /\ at \in Int /\ skew \in Int /\ runs \in Nat /\ alive \in BOOLEAN /\ kind \in Kinds
         /\ Horizon \in Nat /\ Latency \in Nat /\ MaxRuns \in Nat /\ MaxChanges \in Nat
<1>1. Horizon \in Nat /\ Latency \in Nat /\ MaxRuns \in Nat /\ MaxChanges \in Nat /\ Skews \subseteq Int
  BY BoundsAssumption
<1> QED
  BY <1>1 DEF IInv, TypeOK, TimeInv

(* One object changes, and with it, for a lease, whether its holder lives. *)
LEMMA OneEvolves ==
  ASSUME IInv, RunKept, now' = now, server' = server, alive' \in BOOLEAN, changes' \in 0..MaxChanges,
         NEW o \in Names[kind], NEW x, x # Absent => Fits(o, x, now, alive'),
         objs' = [objs EXCEPT ![o] = x]
  PROVE  Evolves
<1>1. objs \in [Names[kind] -> ObjectType \cup {Absent}] /\ now \in 0..Horizon /\ server \in Nat
  BY DEF IInv, TypeOK
<1>2. x \in ObjectType \cup {Absent}
  BY DEF Fits
<1>3. objs' \in [Names[kind] -> ObjectType \cup {Absent}]
  BY <1>1, <1>2
<1>4. ASSUME NEW p \in Names[kind], objs'[p] # Absent
      PROVE  Fits(p, objs'[p], now', alive')
  <2>1. CASE p = o
    BY <1>1, <1>4, <2>1
  <2>2. CASE p # o
    <3>1. objs'[p] = objs[p] /\ objs[p] # Absent
      BY <1>1, <1>4, <2>2
    <3>2. objs[p] \in ObjectType /\ Sound(objs[p], now, alive)
      BY <3>1, HereType
    <3>3. kind # "lease"
      BY <2>2, BasicTypes, SingleAssumption
    <3>4. Sound(objs[p], now, alive')
      BY <3>2, <3>3, SoundAlive
    <3> QED
      BY <3>1, <3>2, <3>4 DEF Fits, Kept
  <2> QED
    BY <2>1, <2>2
<1>5. now <= now' /\ server <= server' /\ now' \in 0..Horizon /\ server' \in Nat
  BY <1>1, BasicTypes
<1>6. pc # "idle" => now' - began <= Latency
  BY DEF IInv, TimeInv
<1> QED
  BY <1>3, <1>4, <1>5, <1>6 DEF Evolves

(* Duration is a number. *)
LEMMA DurationType ==
  ASSUME IInv, NEW x \in ObjectType
  PROVE  /\ Duration(x) \in Nat
         /\ x.created \in Nat /\ x.since \in Nat /\ x.n \in Nat
         /\ x.want \in Nat \cup {None} /\ x.stamp \in Nat \cup {None}
<1>1. Wants[kind] \subseteq Nat \cup {None}
  BY BasicTypes, BoundsAssumption
<1>2. x.want \in Nat \cup {None}
  BY <1>1 DEF ObjectType
<1> QED
  BY <1>2, ThresholdsAssumption DEF ObjectType, Duration

LEMMA RunIsKept == UNCHANGED <<run, fixed>> => RunKept
  BY DEF run, fixed, RunKept

LEMMA Changes ==
  ASSUME IInv, NEW o \in Names[kind], NEW x, Change(o, x), alive' \in BOOLEAN,
         x # Absent => Fits(o, x, now, alive')
  PROVE  Evolves
<1>1. changes' \in 0..MaxChanges
  BY BasicTypes DEF Change, IInv, TypeOK
<1>2. RunKept
  BY RunIsKept DEF Change
<1> QED
  BY <1>1, <1>2, OneEvolves DEF Change

LEMMA VanishEvolves ==
  ASSUME IInv, NEW o \in Here, Vanish(o)
  PROVE  Evolves
<1>1. o \in Names[kind] /\ Change(o, Absent) /\ alive' \in BOOLEAN
  BY BasicTypes DEF Here, Vanish
<1> QED
  BY <1>1, Changes

LEMMA AppearEvolves ==
  ASSUME IInv, NEW o \in Names[kind], Appear(o)
  PROVE  Evolves
<1>1. PICK x \in Newborns : Change(o, x) /\ alive' = TRUE
  BY DEF Appear
<1>2. PICK p \in Phases[kind], n \in Numbers[kind], w \in Wants[kind] :
        x = Newborn(p, n, w) /\ (Phases[kind] \cap Young # {} => p \in Young)
  BY DEF Newborns
<1>3. now \in Nat /\ Life \in Nat /\ n \in Nat /\ w \in Nat \cup {None} /\ began <= now /\ began \in Int
  <2>1. Numbers[kind] \subseteq Nat /\ Wants[kind] \subseteq Nat \cup {None}
    BY BasicTypes, BoundsAssumption
  <2> QED
    BY <2>1, BasicTypes, ThresholdsAssumption DEF Life
<1>4. /\ x.phase = p /\ x.created = now /\ x.since = now /\ x.n = n /\ x.want = w
      /\ x.stamp = CASE kind = "lease" -> now [] kind = "certificate" -> now + Life [] OTHER -> None
      /\ x \in [phase : {p}, created : {now}, since : {now}, n : {n}, want : {w}, stamp : {x.stamp}]
  BY <1>2 DEF Newborn
<1>5. x.stamp \in Nat \cup {None}
  BY <1>3, <1>4
<1>6. x \in ObjectType
  BY <1>3, <1>4, <1>5 DEF ObjectType
<1>7. kind = "namespace" => p # "Terminating"
  <2>1. kind = "namespace" => Phases[kind] = {"Active", "Terminating"}
    BY DEF Phases
  <2> QED
    BY <1>2, <2>1 DEF Young
<1>8. Sound(x, now, TRUE)
  <2>1. Duration(x) \in Nat
    BY <1>6, DurationType
  <2> QED
    BY <1>3, <1>4, <1>7, <2>1, NoneAssumption DEF Sound
<1> QED
  BY <1>1, <1>3, <1>4, <1>6, <1>8, Changes DEF Fits

LEMMA MoveEvolves ==
  ASSUME IInv, NEW o \in Here, NEW p \in Phases[kind], Move(o, p)
  PROVE  Evolves
<1> DEFINE x == objs[o]
           s == IF p \in {"Terminating", "Held"} THEN now ELSE x.stamp
           c == IF p = "Held" THEN now ELSE x.created
           y == [x EXCEPT !.phase = p, !.since = now, !.stamp = s, !.created = c]
<1>1. o \in Names[kind] /\ x \in ObjectType /\ Sound(x, now, alive)
  BY HereType DEF Here
<1>2. Change(o, y) /\ alive' = (alive \/ p = "Held") /\ p \notin Young
  BY DEF Move
<1>3. now \in Nat /\ began \in Int /\ began <= now /\ alive' \in BOOLEAN
  BY <1>2, BasicTypes
<1>4. x.stamp \in Nat \cup {None} /\ x.created \in Nat /\ x.since \in Nat
  BY <1>1, DurationType
<1>5. s \in Nat \cup {None} /\ c \in Nat
  BY <1>3, <1>4
<1>6. y \in ObjectType /\ y.phase = p /\ y.since = now /\ y.stamp = s /\ y.created = c
  <2> HIDE DEF s, c, x
  <2> QED
    BY <1>1, <1>3, <1>5 DEF ObjectType
<1>7. Duration(y) \in Nat
  BY <1>6, DurationType
<1> HIDE DEF x, y
<1>8. c <= now
  BY <1>1, <1>3, <1>4 DEF Sound
<1>9. kind \in {"lease", "certificate"} => s # None
  BY <1>1, <1>3, NoneAssumption DEF Sound
<1>10. kind = "lease" => s <= now
  BY <1>1, <1>3 DEF Sound
<1>11. Sound(y, now, alive')
  BY <1>2, <1>3, <1>5, <1>6, <1>7, <1>8, <1>9, <1>10 DEF Sound
<1>12. Fits(o, y, now, alive')
  BY <1>3, <1>6, <1>11 DEF Fits
<1> QED
  BY <1>1, <1>2, <1>3, <1>12, Changes

LEMMA RestampEvolves ==
  ASSUME IInv, NEW o \in Here, Restamp(o)
  PROVE  Evolves
<1> DEFINE x == objs[o]
           s == IF kind = "event" THEN now ELSE now + Life
           y == [x EXCEPT !.stamp = s]
<1>1. o \in Names[kind] /\ x \in ObjectType /\ Sound(x, now, alive) /\ x # Absent
  BY HereType DEF Here
<1>2. Change(o, y) /\ alive' = alive /\ kind \in {"event", "certificate"}
  BY DEF Restamp
<1>3. s \in Nat /\ now \in Nat /\ alive' \in BOOLEAN
  BY <1>2, BasicTypes, ThresholdsAssumption DEF Life
<1>4. y \in ObjectType /\ y.phase = x.phase /\ y.since = x.since /\ y.stamp = s /\ y.created = x.created
  <2>1. x.created \in Nat /\ x.since \in Nat /\ x.phase \in Phases[kind] /\ x.n \in Nat
    BY <1>1 DEF ObjectType
  <2> HIDE DEF s, x
  <2> QED
    BY <1>1, <1>3, <2>1 DEF ObjectType
<1> HIDE DEF s, x, y
<1>5. Fits(o, y, now, alive')
  BY <1>1, <1>2, <1>3, <1>4, NoneAssumption DEF Fits, Sound, Kept, x
<1> QED
  BY <1>1, <1>2, <1>3, <1>5, Changes

LEMMA RecountEvolves ==
  ASSUME IInv, NEW o \in Here, NEW d \in {-1, 1}, Recount(o, d)
  PROVE  Evolves
<1> DEFINE x == objs[o]
           y == [x EXCEPT !.n = x.n + d]
<1>1. o \in Names[kind] /\ x \in ObjectType /\ Sound(x, now, alive) /\ x # Absent
  BY HereType DEF Here
<1>2. Change(o, y) /\ alive' = alive /\ x.n + d >= 0
  BY DEF Recount
<1>3. x.n + d \in Nat /\ alive' \in BOOLEAN
  BY <1>1, <1>2, BasicTypes DEF ObjectType
<1>4. y \in ObjectType /\ y.phase = x.phase /\ y.since = x.since /\ y.stamp = x.stamp
      /\ y.created = x.created /\ y.want = x.want
  <2>1. x.created \in Nat /\ x.since \in Nat /\ x.phase \in Phases[kind] /\ x.stamp \in Nat \cup {None}
    BY <1>1 DEF ObjectType
  <2> HIDE DEF x
  <2> QED
    BY <1>1, <1>3, <2>1 DEF ObjectType
<1> HIDE DEF x, y
<1>5. Fits(o, y, now, alive')
  <2>1. Duration(y) = Duration(x)
    BY <1>4 DEF Duration
  <2> QED
    BY <1>1, <1>2, <1>4, <2>1 DEF Fits, Sound, Kept, x
<1> QED
  BY <1>1, <1>2, <1>3, <1>5, Changes

LEMMA RenewEvolves ==
  ASSUME IInv, NEW o \in Here, Renew(o)
  PROVE  Evolves
<1> DEFINE x == objs[o]
           y == [x EXCEPT !.stamp = now]
<1>1. o \in Names[kind] /\ x \in ObjectType /\ Sound(x, now, alive) /\ x # Absent
  BY HereType DEF Here
<1>2. objs' = [objs EXCEPT ![o] = y]
  BY <1>1 DEF Renew
<1>3. RunKept /\ now' = now /\ server' = server /\ changes' = changes /\ alive' = TRUE /\ kind = "lease"
  BY RunIsKept DEF Renew
<1>4. now \in Nat /\ changes \in 0..MaxChanges
  BY BasicTypes DEF IInv, TypeOK
<1>5. y \in ObjectType /\ y.phase = x.phase /\ y.since = x.since /\ y.stamp = now
      /\ y.created = x.created
  <2>1. x.created \in Nat /\ x.since \in Nat /\ x.phase \in Phases[kind] /\ x.n \in Nat
    BY <1>1 DEF ObjectType
  <2> HIDE DEF x
  <2> QED
    BY <1>1, <1>4, <2>1 DEF ObjectType
<1>6. Duration(y) \in Nat
  BY <1>5, DurationType
<1> HIDE DEF x, y
<1>7. Fits(o, y, now, TRUE)
  BY <1>1, <1>3, <1>4, <1>5, <1>6, NoneAssumption DEF Fits, Sound, Kept, x
<1> QED
  BY <1>1, <1>2, <1>3, <1>4, <1>7, OneEvolves

(* Time passes; a server is upgraded, a leader crashes. *)
LEMMA OthersEvolve ==
  ASSUME IInv, Upgrade \/ Crash \/ Tick
  PROVE  Evolves
<1>1. objs \in [Names[kind] -> ObjectType \cup {Absent}] /\ now \in 0..Horizon /\ changes \in 0..MaxChanges
  BY DEF IInv, TypeOK
<1>2. pc # "idle" => now - began <= Latency
  BY DEF IInv, TimeInv
<1>3. RunKept /\ objs' = objs
  BY RunIsKept DEF Upgrade, Crash, Tick
<1>4. ASSUME NEW t, NEW live,
             \A o \in Names[kind] : objs[o] # Absent => Sound(objs[o], t, live)
      PROVE  \A o \in Names[kind] : objs[o] # Absent => Fits(o, objs[o], t, live)
  BY <1>4, HereType DEF Fits, Kept
<1>5. CASE Upgrade
  <2>1. now' = now /\ alive' = alive /\ server' = server + 1 /\ changes' \in 0..MaxChanges
    BY <1>1, <1>5, BasicTypes DEF Upgrade
  <2>2. \A o \in Names[kind] : objs[o] # Absent => Fits(o, objs[o], now, alive)
    BY <1>4, HereType
  <2> QED
    BY <1>1, <1>2, <1>3, <2>1, <2>2, BasicTypes DEF Evolves
<1>6. CASE Crash
  <2>1. now' = now /\ alive' = FALSE /\ server' = server /\ changes' \in 0..MaxChanges
    BY <1>1, <1>6, BasicTypes DEF Crash
  <2>2. \A o \in Names[kind] : objs[o] # Absent => Sound(objs[o], now, FALSE)
    BY HereType DEF Sound
  <2>3. \A o \in Names[kind] : objs[o] # Absent => Fits(o, objs[o], now, FALSE)
    BY <1>4, <2>2
  <2>4. alive' \in BOOLEAN /\ server' \in Nat /\ server <= server' /\ now' \in 0..Horizon /\ now <= now'
    <3>1. alive' \in BOOLEAN
      BY <2>1, Zenon
    <3>2. server <= server /\ now <= now /\ server \in Nat
      BY BasicTypes
    <3> QED
      BY <1>1, <2>1, <3>1, <3>2, Zenon
  <2>5. \A o \in Names[kind] : objs'[o] # Absent => Fits(o, objs'[o], now', alive')
    BY <1>3, <2>1, <2>3, Zenon
  <2> QED
    BY <1>1, <1>2, <1>3, <2>1, <2>4, <2>5 DEF Evolves
<1>7. CASE Tick
  <2>1. /\ now' = now + 1 /\ alive' = alive /\ server' = server /\ changes' = changes
        /\ now < Horizon /\ (pc # "idle" => now - began < Latency)
    BY <1>7 DEF Tick
  <2>2. ASSUME NEW o \in Names[kind], objs[o] # Absent
        PROVE  Sound(objs[o], now + 1, alive)
    <3>1. objs[o] \in ObjectType /\ Sound(objs[o], now, alive) /\ o \in Here
      BY <2>2, HereType
    <3>2. Duration(objs[o]) \in Nat /\ objs[o].since \in Nat /\ objs[o].stamp \in Nat \cup {None}
      BY <3>1, DurationType
    <3>3. kind = "lease" /\ alive /\ objs[o].phase = "Held" =>
            now - objs[o].stamp < Duration(objs[o])
      BY <1>7, <3>1 DEF Tick
    <3> QED
      BY <3>1, <3>2, <3>3, BasicTypes DEF Sound
  <2>3. \A o \in Names[kind] : objs[o] # Absent => Fits(o, objs[o], now + 1, alive)
    BY <1>4, <2>2
  <2>4. now' \in 0..Horizon /\ now <= now' /\ (pc # "idle" => now' - began <= Latency)
    BY <2>1, BasicTypes
  <2> QED
    BY <1>1, <1>3, <2>1, <2>3, <2>4, BasicTypes DEF Evolves
<1> QED
  BY <1>5, <1>6, <1>7

LEMMA ClusterEvolves ==
  ASSUME IInv, Cluster
  PROVE  Evolves
  BY AppearEvolves, VanishEvolves, MoveEvolves, RestampEvolves, RecountEvolves, RenewEvolves,
     OthersEvolve DEF Cluster

LEMMA Longer ==
  ASSUME NEW a \in Int, NEW n \in Int, NEW m \in Int, NEW s \in Int, n <= m
  PROVE  a..(n + s) \subseteq a..(m + s)
  OBVIOUS

(* A step of the cluster keeps the invariant. *)
LEMMA EvolvesStep ==
  ASSUME IInv, Evolves
  PROVE  IInv'
<1>1. RunKept
  BY DEF Evolves
<1>2. /\ now \in Nat /\ now' \in Nat /\ now <= now' /\ server \in Nat /\ server' \in Nat /\ server <= server'
      /\ skew \in Int /\ at \in Int
  BY BasicTypes DEF Evolves
<1>3. Done' = Done /\ Read' = Read /\ HasListed' = HasListed
  BY <1>1 DEF RunKept, Done, Read, HasListed
<1>4. TypeOK'
  <2>1. ObjectType' = ObjectType /\ FindingType' = FindingType
    BY <1>1 DEF RunKept, ObjectType, FindingType
  <2> QED
    BY <1>1, <2>1 DEF IInv, TypeOK, RunKept, Evolves
<1>5. RunInv'
  BY <1>1, <1>3 DEF IInv, RunInv, RunKept
<1>6. TimeInv'
  <2>1. api \in Nat /\ began \in Int /\ then.now \in Nat
    BY BasicTypes DEF IInv, TypeOK
  <2> QED
    BY <1>1, <1>2, <1>3, <2>1 DEF IInv, TimeInv, RunKept, Evolves
<1>7. \A o \in Here' : /\ o \in Names[kind] /\ objs'[o] # Absent
                       /\ Sound(objs'[o], now', alive')
                       /\ objs'[o].since >= began \/ (objs[o] # Absent /\ Kept(objs'[o], objs[o]))
  BY <1>1 DEF Here, RunKept, Evolves, Fits
<1>8. AgeInv'
  <2>1. \A o \in Here' : Sound(objs[o], now, alive)'
    BY <1>1, <1>7 DEF Sound, Duration, RunKept
  <2>2. HasListed => \A o \in DOMAIN listed : Sound(listed[o], then.now, then.alive)'
    BY <1>1 DEF IInv, AgeInv, Sound, Duration, RunKept
  <2> QED
    BY <1>1, <1>3, <2>1, <2>2 DEF AgeInv, RunKept
<1>9. StayInv'
  <2> SUFFICES ASSUME HasListed, NEW o \in Here', objs'[o].since < began
               PROVE  /\ o \in DOMAIN listed
                      /\ listed[o].phase = objs'[o].phase /\ listed[o].created = objs'[o].created
                      /\ listed[o].since = objs'[o].since
    BY <1>1, <1>3 DEF StayInv, RunKept
  <2>1. objs'[o].since \in Int /\ began \in Int
    <3>1. objs'[o] \in ObjectType
      BY <1>7 DEF Evolves, Fits
    <3> QED
      BY <3>1, BasicTypes DEF ObjectType
  <2>2. objs[o] # Absent /\ Kept(objs'[o], objs[o])
    BY <1>7, <2>1
  <2>3. o \in Here /\ objs[o].since < began
    BY <1>7, <2>2 DEF Here, Kept
  <2> QED
    BY <2>2, <2>3 DEF IInv, StayInv, Kept
<1>10. AskInv'
  BY <1>1, <1>3 DEF IInv, AskInv, RunKept, nodeReady
<1>11. NothingUnsaid'
  BY <1>1, <1>3 DEF IInv, NothingUnsaid, Unexcused, RunKept, desired, Worst
<1>12. ReportInv'
  <2> SUFFICES ASSUME Read, check \notin Asking, kind # "measured"
               PROVE  \E t \in at..(now' + skew) : Judged(t)'
    BY <1>1, <1>3 DEF ReportInv, RunKept, Clock
  <2>4. at..(now + skew) \subseteq at..(now' + skew)
    <3>1. now \in Int /\ now' \in Int /\ now <= now' /\ skew \in Int /\ at \in Int
      BY <1>2
    <3> QED
      BY <3>1, Longer, Zenon
  <2>1. PICK t \in at..(now + skew) : Judged(t)
    BY DEF IInv, ReportInv, Clock
  <2>2. Findings(check, listed, t, api)' = Findings(check, listed, t, api)
    BY <1>1 DEF RunKept, Findings, Verdict, OrOK, Finding
  <2>3. Judged(t)'
    BY <1>1, <2>1, <2>2 DEF RunKept, Judged
  <2>5. t \in at..(now' + skew)
    BY <2>4, Zenon
  <2> QED
    BY <2>3, <2>5, Zenon
<1>13. BeforeInv'
  BY <1>1 DEF IInv, BeforeInv, RunKept
<1> QED
  BY <1>4, <1>5, <1>6, <1>8, <1>9, <1>10, <1>11, <1>12, <1>13 DEF IInv
-----------------------------------------------------------------------------
(* A step of a run leaves the cluster alone. *)
ClusterKept ==
  /\ kind' = kind /\ skew' = skew /\ insecure' = insecure
  /\ now' = now /\ objs' = objs /\ server' = server /\ alive' = alive /\ changes' = changes

LEMMA ClusterIsKept == UNCHANGED <<cluster, fixed>> => ClusterKept
  BY DEF cluster, fixed, ClusterKept

(* The types of what a step of a run leaves alone, and of the rest. *)
RunTypes ==
  /\ pc \in {"idle", "server", "metrics", "list", "each", "judge"}
  /\ check \in IDs \cup {Absent} /\ at \in Int /\ api \in Nat /\ runs \in 0..MaxRuns
  /\ began \in Nat /\ then \in [now : Nat, server : Nat, alive : BOOLEAN]
  /\ DOMAIN usage \subseteq Names[kind] /\ DOMAIN listed \subseteq Names[kind]
  /\ \A o \in DOMAIN listed : listed[o] \in ObjectType
  /\ todo \subseteq Names[kind] /\ asked \subseteq Names[kind] /\ out \subseteq FindingType
  /\ pc = "each" => check \in Asking
  /\ failed \in {"no", "NotFound", "unavailable", "Forbidden", "error", "expired"}

LEMMA KeptCluster ==
  ASSUME IInv, ClusterKept
  PROVE  /\ Here' = Here /\ ObjectType' = ObjectType /\ FindingType' = FindingType
         /\ RunTypes' => TypeOK'
         /\ \A o \in Here' : Sound(objs[o], now, alive)'
<1>1. Here' = Here /\ ObjectType' = ObjectType /\ FindingType' = FindingType
  BY DEF ClusterKept, Here, ObjectType, FindingType
<1>2. RunTypes' => TypeOK'
  BY <1>1 DEF ClusterKept, RunTypes, IInv, TypeOK
<1>3. \A o \in Here' : Sound(objs[o], now, alive)'
  BY <1>1 DEF ClusterKept, IInv, AgeInv, Sound, Duration
<1> QED
  BY <1>1, <1>2, <1>3

(* The objects that were listed, of those a run leaves alone. *)
LEMMA KeptListed ==
  ASSUME IInv, ClusterKept, HasListed, listed' = listed, then' = then, began' = began
  PROVE  /\ \A o \in DOMAIN listed' : Sound(listed[o], then.now, then.alive)'
         /\ StayInv'
<1>1. \A o \in DOMAIN listed' : Sound(listed[o], then.now, then.alive)'
  BY DEF ClusterKept, IInv, AgeInv, Sound, Duration
<1>2. StayInv'
  BY KeptCluster DEF ClusterKept, IInv, StayInv
<1> QED
  BY <1>1, <1>2

LEMMA KeptBefore ==
  ASSUME IInv, kind' = kind, skew' = skew, before' = before, at' = at, api' \in Nat, api <= api'
  PROVE  BeforeInv'
<1>1. CASE before.listed = Empty /\ before.out = {}
  BY <1>1 DEF BeforeInv
<1>2. CASE ~ (before.listed = Empty /\ before.out = {})
  <2>1. 0..api \subseteq 0..api'
    BY BasicTypes
  <2> HIDE <2>1
  <2>2. /\ before.check \in IDs /\ CheckKind[before.check] = kind
        /\ before.failed = "no" =>
             /\ before.check \notin Asking /\ kind # "measured" =>
                  \E t \in skew..at, v \in 0..api :
                    before.out = Findings(before.check, before.listed, t, v)
             /\ before.check = "nodes.disk" =>
                  \A o \in DOMAIN before.listed : nodeReady(before.listed[o]) => o \in before.asked
    BY <1>2, Zenon DEF IInv, BeforeInv
  <2>3. /\ before.failed = "no" /\ before.check \notin Asking /\ kind # "measured" =>
             \E t \in skew..at, v \in 0..api' :
               before.out = Findings(before.check, before.listed, t, v)
    BY <2>1, <2>2, Zenon
  <2> QED
    BY <2>2, <2>3 DEF BeforeInv
<1> QED
  BY <1>1, <1>2
-----------------------------------------------------------------------------
LEMMA InitInv ==
  ASSUME Init
  PROVE  IInv
<1>1. Horizon \in Nat /\ MaxChanges \in Nat /\ MaxRuns \in Nat /\ Latency \in Nat /\ Skews \subseteq Int
  BY BoundsAssumption
<1>2. kind \in Kinds /\ Numbers[kind] \subseteq Nat /\ Wants[kind] \subseteq Nat \cup {None}
  BY BoundsAssumption DEF Init
<1>3. now = 0 /\ alive = TRUE /\ Life \in Nat /\ None \notin Int /\ T.lease \in Nat
  BY ThresholdsAssumption, NoneAssumption DEF Init, Life
<1>4. ASSUME NEW x \in Newborns PROVE x \in ObjectType /\ Sound(x, now, alive)
  <2> DEFINE P == IF Phases[kind] \cap Young = {} THEN Phases[kind] ELSE Phases[kind] \cap Young
             s == CASE kind = "lease" -> now [] kind = "certificate" -> now + Life [] OTHER -> None
  <2>1. PICK p \in P, n \in Numbers[kind], w \in Wants[kind] : x = Newborn(p, n, w)
    BY DEF Newborns
  <2>2. s \in Nat \cup {None} /\ (kind \in {"lease", "certificate"} => s # None) /\ (kind = "lease" => s = now)
    BY <1>3
  <2>3. x = [phase |-> p, created |-> now, since |-> now, n |-> n, want |-> w, stamp |-> s]
    BY <2>1 DEF Newborn
  <2>4. p \in Phases[kind]
    OBVIOUS
  <2>5. kind = "namespace" => p # "Terminating"
    <3>1. Phases["namespace"] = {"Active", "Terminating"}
      BY DEF Phases
    <3>2. "Active" \in Young /\ "Terminating" \notin Young
      BY DEF Young
    <3> QED
      BY <3>1, <3>2
  <2> HIDE DEF s, P
  <2>6. x \in ObjectType
    BY <1>2, <1>3, <2>2, <2>3, <2>4 DEF ObjectType
  <2>7. Duration(x) \in Nat
    BY <1>2, <1>3, <2>3 DEF Duration
  <2>8. Sound(x, now, alive)
    <3>1. x.created = now /\ x.since = now /\ x.stamp = s /\ x.phase = p /\ now \in Int
      BY <1>3, <2>3
    <3> QED
      BY <1>3, <2>2, <2>5, <2>7, <3>1 DEF Sound
  <2> QED
    BY <2>6, <2>8
<1>5. objs \in [Names[kind] -> ObjectType \cup {Absent}]
  BY <1>4 DEF Init
<1>6. TypeOK
  <2>1. DOMAIN Empty = {}
    BY DEF Empty
  <2>2. skew \in Skews \cup {0} /\ server \in Nat
    BY <1>2 DEF Init
  <2>7. insecure \in BOOLEAN
    <3>1. CASE kind = "certificate"
      BY <3>1, Zenon DEF Init
    <3>2. CASE kind # "certificate"
      BY <3>2, Zenon DEF Init
    <3> QED
      BY <3>1, <3>2
  <2>3. /\ now \in 0..Horizon /\ changes \in 0..MaxChanges /\ runs \in 0..MaxRuns
        /\ at \in Int /\ api \in Nat /\ began \in Nat
    BY <1>1 DEF Init
  <2>4. alive \in BOOLEAN /\ then \in [now : Nat, server : Nat, alive : BOOLEAN]
    BY DEF Init
  <2>5. DOMAIN usage = {} /\ DOMAIN listed = {} /\ todo = {} /\ asked = {} /\ out = {}
    BY <2>1 DEF Init
  <2>6. pc = "idle" /\ failed = "no" /\ check \in IDs \cup {Absent}
    BY DEF Init
  <2> QED
    BY <1>2, <1>5, <2>2, <2>3, <2>4, <2>5, <2>6, <2>7 DEF TypeOK
<1>7. ~Read /\ ~Done /\ ~HasListed
  BY DEF Init, HasListed, Read, Done
<1>8. RunInv /\ StayInv /\ AskInv /\ NothingUnsaid /\ ReportInv
  BY <1>7 DEF Init, RunInv, StayInv, AskInv, NothingUnsaid, ReportInv
<1>9. TimeInv
  BY <1>2, <1>7 DEF Init, TimeInv
<1>10. AgeInv
  <2>1. \A o \in Here : objs[o] \in Newborns
    BY DEF Here, Init
  <2> QED
    BY <1>4, <1>7, <2>1 DEF AgeInv
<1>11. BeforeInv
  BY DEF Init, BeforeInv
<1> QED
  BY <1>6, <1>8, <1>9, <1>10, <1>11 DEF IInv
-----------------------------------------------------------------------------
(* The run that ends becomes the one before. *)
LEMMA BecomesBefore ==
  ASSUME IInv, ClusterKept, pc = "idle", at' = Clock, api' = api,
         before' = [check |-> check, listed |-> listed, out |-> out, failed |-> failed, asked |-> asked]
  PROVE  BeforeInv'
<1>1. /\ before'.check = check /\ before'.listed = listed /\ before'.out = out
      /\ before'.failed = failed /\ before'.asked = asked
  OBVIOUS
<1>2. CASE runs = 0
  BY <1>1, <1>2 DEF IInv, RunInv, BeforeInv, Empty
<1>3. CASE runs # 0
  <2>1. check \in IDs /\ CheckKind[check] = kind
    BY <1>3 DEF IInv, RunInv
  <2>2. failed = "no" => Read
    BY <1>3, BasicTypes DEF Read, Done
  <2>3. ASSUME Read, check \notin Asking, kind # "measured"
        PROVE  \E t \in skew..Clock, v \in 0..api : out = Findings(check, listed, t, v)
    <3>1. at..Clock \subseteq skew..Clock /\ api \in 0..api
      BY <2>3, BasicTypes DEF IInv, TypeOK, TimeInv, Clock, Read, Done
    <3>2. PICK t \in at..Clock : Judged(t)
      BY <2>3, Zenon DEF IInv, ReportInv
    <3>3. out = Findings(check, listed, t, api)
      BY <3>2 DEF Judged
    <3> QED
      BY <3>1, <3>2, <3>3, Zenon
  <2>4. ASSUME Read, check = "nodes.disk", NEW o \in DOMAIN listed, nodeReady(listed[o])
        PROVE  o \in asked
    BY <2>4 DEF IInv, AskInv, RunInv, HasListed
  <2>5. skew' = skew /\ kind' = kind
    BY DEF ClusterKept
  <2>6. failed = "no" =>
          /\ check \notin Asking /\ kind # "measured" =>
               \E t \in skew..Clock, v \in 0..api : out = Findings(check, listed, t, v)
          /\ check = "nodes.disk" =>
               \A o \in DOMAIN listed : nodeReady(listed[o]) => o \in asked
    BY <2>2, <2>3, <2>4, Zenon
  <2> QED
    BY <1>1, <2>1, <2>5, <2>6, Zenon DEF BeforeInv
<1> QED
  BY <1>2, <1>3

LEMMA BeginStep ==
  ASSUME IInv, NEW c \in IDs, Begin(c)
  PROVE  IInv'
<1>1. ClusterKept
  BY ClusterIsKept DEF Begin
<1>2. /\ pc' \in {"server", "metrics", "list"} /\ check' = c /\ CheckKind[c] = kind /\ at' = Clock /\ began' = now
      /\ runs < MaxRuns /\ runs' = runs + 1 /\ listed' = Empty /\ usage' = Empty /\ todo' = {} /\ out' = {}
      /\ failed' = "no" /\ asked' = {} /\ api' = api /\ then' = then /\ pc = "idle"
  BY DEF Begin
<1>3. ~HasListed' /\ ~Done' /\ ~Read'
  BY <1>2 DEF HasListed, Read, Done
<1>4. TypeOK'
  <2>1. DOMAIN Empty = {}
    BY DEF Empty
  <2>2. at' \in Int /\ began' \in Nat /\ runs' \in 0..MaxRuns /\ api' \in Nat
    BY <1>2, BasicTypes DEF Clock
  <2>3. then' \in [now : Nat, server : Nat, alive : BOOLEAN]
    BY <1>2 DEF IInv, TypeOK
  <2>4. RunTypes'
    BY <1>2, <2>1, <2>2, <2>3 DEF RunTypes
  <2> QED
    BY <1>1, <2>4, KeptCluster
<1>5. RunInv'
  <2>1. runs' # 0
    BY <1>2, BasicTypes
  <2> QED
    BY <1>1, <1>2, <1>3, <2>1 DEF RunInv, ClusterKept
<1>6. TimeInv'
  BY <1>1, <1>2, <1>3, BasicTypes DEF IInv, TimeInv, ClusterKept, Clock
<1>7. AgeInv' /\ StayInv'
  BY <1>1, <1>3, KeptCluster DEF AgeInv, StayInv
<1>8. AskInv' /\ NothingUnsaid' /\ ReportInv'
  BY <1>2, <1>3 DEF AskInv, NothingUnsaid, ReportInv
<1>9. BeforeInv'
  BY <1>1, <1>2, BecomesBefore DEF Begin
<1> QED
  BY <1>4, <1>5, <1>6, <1>7, <1>8, <1>9 DEF IInv

(* A run that ends with an error. *)
LEMMA FailedStep ==
  ASSUME IInv, ClusterKept, pc \in {"server", "metrics", "list"}, pc' = "idle",
         failed' \in {"NotFound", "unavailable", "error", "expired"},
         NEW s \in Status \ {"OK"}, out' = {Finding(Nothing, s)},
         failed' \in Unexcused /\ check # "rke2.snapshots.recent" => s # "SKIP",
         UNCHANGED <<check, at, api, usage, listed, todo, began, then, asked, before, runs>>
  PROVE  IInv'
<1>1. ~HasListed' /\ ~Read'
  BY DEF HasListed, Read
<1>2. runs # 0 /\ runs' = runs /\ check \in IDs /\ CheckKind[check] = kind
  BY DEF IInv, RunInv
<1>3. TypeOK'
  <2>1. Finding(Nothing, s) \in FindingType
    BY DEF Finding, FindingType
  <2>2. FindingType' = FindingType /\ ObjectType' = ObjectType /\ kind' = kind
    BY KeptCluster DEF ClusterKept
  <2>3. out' \subseteq FindingType'
    BY <2>1, <2>2
  <2>4. RunTypes'
    BY <2>2, <2>3 DEF RunTypes, IInv, TypeOK
  <2> QED
    BY <2>4, KeptCluster
<1>4. RunInv'
  BY <1>1, <1>2 DEF RunInv, ClusterKept
<1>5. TimeInv'
  BY <1>1 DEF IInv, TimeInv, ClusterKept
<1>6. AgeInv' /\ StayInv'
  BY <1>1, KeptCluster DEF AgeInv, StayInv
<1>7. AskInv' /\ ReportInv'
  BY <1>1 DEF AskInv, ReportInv
<1>8. NothingUnsaid'
  <2>1. \A f \in out' : f.status = s
    BY DEF Finding
  <2>2. ASSUME s # "SKIP" PROVE Worst(out') # "OK"
    <3>1. Finding(Nothing, s) \in out' /\ Finding(Nothing, s).status = s
      BY DEF Finding
    <3>2. rank(s) <= rank(Worst(out'))
      BY <2>1, <3>1, WorstIs
    <3>3. rank(s) \in {1, 2, 3} /\ rank("OK") = 0
      BY <2>2 DEF Status, rank
    <3> QED
      BY <3>2, <3>3
  <2>3. Worst(out)' = Worst(out')
    BY DEF Worst
  <2> QED
    BY <2>1, <2>2, <2>3 DEF NothingUnsaid, Unexcused, ClusterKept
<1>9. BeforeInv'
  <2>1. api' \in Nat /\ api <= api'
    BY BasicTypes
  <2> QED
    BY <2>1, KeptBefore DEF ClusterKept
<1> QED
  BY <1>3, <1>4, <1>5, <1>6, <1>7, <1>8, <1>9 DEF IInv

LEMMA FailStep ==
  ASSUME IInv, NEW how \in {"NotFound", "unavailable", "error"}, Fail(how)
  PROVE  IInv'
<1>1. ClusterKept
  BY ClusterIsKept DEF Fail
<1>2. /\ OnError(how) \in Status \ {"OK"}
      /\ how \in Unexcused /\ check # "rke2.snapshots.recent" => OnError(how) # "SKIP"
  BY DEF OnError, nodeUsageSkip, isCRDMissing, Unexcused, Status
<1>3. pc' = "idle" /\ out' = {Finding(Nothing, OnError(how))} /\ failed' = how
  BY DEF Fail, Return
<1> QED
  BY <1>1, <1>2, <1>3, FailedStep DEF Fail

LEMMA DialExpiredStep ==
  ASSUME IInv, DialExpired
  PROVE  IInv'
<1>1. ClusterKept
  BY ClusterIsKept DEF DialExpired
<1>2. pc' = "idle" /\ failed' = "expired"
      /\ \E s \in {"CRIT", "UNKNOWN"} : out' = {Finding(Nothing, s)}
  BY DEF DialExpired, Return
<1> QED
  BY <1>1, <1>2, FailedStep DEF DialExpired, Status

(* The reads before the list. *)
LEMMA ReadStep ==
  ASSUME IInv, ClusterKept, pc \in {"server", "metrics"}, pc' = "list",
         api' \in Nat, api <= api', api' <= server, DOMAIN usage' \subseteq Names[kind],
         UNCHANGED <<check, at, listed, todo, out, began, then, failed, asked, before, runs>>
  PROVE  IInv'
<1>1. ~HasListed' /\ ~Read' /\ ~Done'
  BY DEF HasListed, Read, Done
<1>2. TypeOK'
  <2>1. FindingType' = FindingType /\ ObjectType' = ObjectType /\ kind' = kind
    BY KeptCluster DEF ClusterKept
  <2>2. RunTypes'
    BY <2>1 DEF RunTypes, IInv, TypeOK
  <2> QED
    BY <2>2, KeptCluster
<1>3. RunInv'
  BY <1>1 DEF IInv, RunInv, ClusterKept
<1>4. TimeInv'
  BY <1>1 DEF IInv, TimeInv, ClusterKept
<1>5. AgeInv' /\ StayInv'
  BY <1>1, KeptCluster DEF AgeInv, StayInv
<1>6. AskInv' /\ ReportInv' /\ NothingUnsaid'
  BY <1>1 DEF AskInv, ReportInv, NothingUnsaid
<1>7. BeforeInv'
  BY KeptBefore DEF ClusterKept
<1> QED
  BY <1>2, <1>3, <1>4, <1>5, <1>6, <1>7 DEF IInv

LEMMA ReadServerStep ==
  ASSUME IInv, ReadServer
  PROVE  IInv'
<1>1. ClusterKept
  BY ClusterIsKept DEF ReadServer
<1>2. api' \in Nat /\ api <= api' /\ api' <= server
  BY BasicTypes DEF ReadServer, IInv, TimeInv
<1>3. DOMAIN usage' \subseteq Names[kind]
  BY DEF ReadServer, IInv, TypeOK
<1> QED
  BY <1>1, <1>2, <1>3, ReadStep DEF ReadServer

LEMMA ReadMetricsStep ==
  ASSUME IInv, ReadMetrics
  PROVE  IInv'
<1>1. ClusterKept
  BY ClusterIsKept DEF ReadMetrics
<1>2. api' \in Nat /\ api <= api' /\ api' <= server
  BY BasicTypes DEF ReadMetrics, IInv, TimeInv
<1>3. DOMAIN usage' \subseteq Names[kind]
  BY DEF ReadMetrics, Here
<1> QED
  BY <1>1, <1>2, <1>3, ReadStep DEF ReadMetrics

LEMMA ListStep ==
  ASSUME IInv, List
  PROVE  IInv'
<1>1. ClusterKept
  BY ClusterIsKept DEF List
<1>2. Here \subseteq Names[kind] /\ \A o \in Here : objs[o] \in ObjectType /\ objs[o] # Absent
  BY HereType DEF Here
<1>3. /\ pc = "list" /\ listed' = [o \in Here |-> objs[o]]
      /\ then' = [now |-> now, server |-> server, alive |-> alive]
      /\ UNCHANGED <<check, at, api, usage, out, began, failed, asked, before, runs>>
  BY DEF List
<1>4. /\ \/ pc' = "each" /\ check \in Asking
         \/ pc' = "judge" /\ todo' = {} /\ check # "nodes.disk"
      /\ todo' \subseteq Here
      /\ check = "nodes.disk" => todo' = {o \in Here : nodeReady(objs[o])}
  BY DEF List, Asking
<1>5. DOMAIN listed' = Here /\ \A o \in Here : listed'[o] = objs[o]
  BY <1>3
<1>6. then'.now = now /\ then'.server = server /\ then'.alive = alive
  BY <1>3
<1>7. HasListed' /\ ~Read' /\ ~Done' /\ failed = "no" /\ out = {} /\ runs # 0
  BY <1>3, <1>4 DEF HasListed, Read, Done, IInv, RunInv
<1>8. TypeOK'
  <2>1. FindingType' = FindingType /\ ObjectType' = ObjectType /\ kind' = kind
    BY <1>1, KeptCluster DEF ClusterKept
  <2>2. then' \in [now : Nat, server : Nat, alive : BOOLEAN]
    BY <1>3, BasicTypes
  <2>3. RunTypes'
    BY <1>2, <1>3, <1>4, <1>5, <2>1, <2>2 DEF RunTypes, IInv, TypeOK
  <2> QED
    BY <1>1, <2>3, KeptCluster
<1>9. RunInv'
  BY <1>1, <1>3, <1>4, <1>7 DEF IInv, RunInv, ClusterKept
<1>10. TimeInv'
  BY <1>1, <1>3, <1>6, BasicTypes DEF IInv, TimeInv, ClusterKept
<1>11. AgeInv'
  <2>1. \A o \in Here' : Sound(objs[o], now, alive)'
    BY <1>1, KeptCluster
  <2>2. \A o \in DOMAIN listed' : Sound(listed[o], then.now, then.alive)'
    <3>1. Here' = Here /\ objs' = objs /\ now' = now /\ alive' = alive /\ kind' = kind
      BY <1>1, KeptCluster DEF ClusterKept
    <3> QED
      BY <1>5, <1>6, <2>1, <3>1 DEF Sound, Duration
  <2> QED
    BY <2>1, <2>2 DEF AgeInv
<1>12. StayInv'
  BY <1>1, <1>5, KeptCluster DEF StayInv, ClusterKept
<1>13. AskInv'
  BY <1>3, <1>4, <1>5, <1>7 DEF AskInv, nodeReady
<1>14. ReportInv' /\ NothingUnsaid'
  BY <1>7 DEF ReportInv, NothingUnsaid
<1>15. BeforeInv'
  <2>1. api' \in Nat /\ api <= api'
    BY <1>3, BasicTypes
  <2> QED
    BY <1>1, <1>3, <2>1, KeptBefore DEF ClusterKept
<1> QED
  BY <1>8, <1>9, <1>10, <1>11, <1>12, <1>13, <1>14, <1>15 DEF IInv

(* What the answer of a node, or its failure, adds. *)
LEMMA EachAdds ==
  ASSUME NEW o, Each(o)
  PROVE  \E s \in Status :
           /\ Add(o, s)
           /\ \/ failed' = failed
              \/ failed' = "error" /\ s \in {"UNKNOWN", "CRIT"}
              \/ failed' = "Forbidden" /\ s = "SKIP"
<1>1. \A used, size : classifyFS(used, size) \in Status
  BY DEF classifyFS, classifyPct, Staged, Status
<1>2. CASE check = "nodes.disk"
  BY <1>1, <1>2 DEF Each, AskStats, Status
<1>3. CASE check # "nodes.disk"
  BY <1>3 DEF Each, AskHealthz, Status
<1> QED
  BY <1>2, <1>3

LEMMA EachStep ==
  ASSUME IInv, NEW o \in todo, Each(o)
  PROVE  IInv'
<1>1. ClusterKept
  BY ClusterIsKept DEF Each
<1>2. /\ pc = "each" /\ pc' = "each" /\ todo' = todo \ {o} /\ asked' = asked \cup {o}
      /\ UNCHANGED <<check, at, api, usage, listed, began, then, before, runs>>
  BY DEF Each
<1>3. HasListed /\ HasListed' /\ ~Read' /\ ~Done'
  BY <1>2 DEF HasListed, Read, Done
<1>4. PICK s \in Status :
        /\ Add(o, s)
        /\ \/ failed' = failed
           \/ failed' = "error" /\ s \in {"UNKNOWN", "CRIT"}
           \/ failed' = "Forbidden" /\ s = "SKIP"
  BY EachAdds
<1>5. out \subseteq out' /\ (s # "OK" => Finding(o, s) \in out')
      /\ \A f \in out' : f \in out \/ (f = Finding(o, s) /\ s # "OK")
  BY <1>4 DEF Add
<1>6. o \in Names[kind] /\ Finding(o, s) \in FindingType /\ Finding(o, s).status = s
  BY DEF IInv, TypeOK, Finding, FindingType
<1>7. TypeOK'
  <2>1. FindingType' = FindingType /\ ObjectType' = ObjectType /\ kind' = kind
    BY <1>1, KeptCluster DEF ClusterKept
  <2>2. out' \subseteq FindingType
    BY <1>5, <1>6 DEF IInv, TypeOK
  <2>3. RunTypes'
    BY <1>2, <1>4, <1>6, <2>1, <2>2 DEF RunTypes, IInv, TypeOK
  <2> QED
    BY <1>1, <2>3, KeptCluster
<1>8. RunInv'
  BY <1>1, <1>2, <1>3 DEF IInv, RunInv, ClusterKept
<1>9. TimeInv'
  BY <1>1, <1>2, <1>3 DEF IInv, TimeInv, ClusterKept
<1>10. AgeInv' /\ StayInv'
  BY <1>1, <1>2, <1>3, KeptCluster, KeptListed DEF AgeInv
<1>11. AskInv'
  <2>1. \A f \in out' : f.status # "OK"
    BY <1>2, <1>5, <1>6 DEF IInv, AskInv
  <2>2. failed' # "no" => out' # {}
    BY <1>2, <1>4, <1>5 DEF IInv, AskInv
  <2>3. failed' \notin {"no", "Forbidden"} => \E f \in out' : f.status \in {"UNKNOWN", "CRIT"}
    BY <1>2, <1>4, <1>5, <1>6 DEF IInv, AskInv
  <2>4. check = "nodes.disk" =>
          \A x \in DOMAIN listed : nodeReady(listed[x]) => x \in asked' \cup todo'
    BY <1>2, <1>3 DEF IInv, AskInv
  <2> QED
    BY <1>2, <2>1, <2>2, <2>3, <2>4 DEF AskInv, nodeReady
<1>12. ReportInv' /\ NothingUnsaid'
  BY <1>3 DEF ReportInv, NothingUnsaid
<1>13. BeforeInv'
  <2>1. api' \in Nat /\ api <= api'
    BY <1>2, BasicTypes
  <2> QED
    BY <1>1, <1>2, <2>1, KeptBefore DEF ClusterKept
<1> QED
  BY <1>7, <1>8, <1>9, <1>10, <1>11, <1>12, <1>13 DEF IInv

(* Every check that lists objects and does not ask them judges them. *)
LEMMA CheckIs ==
  ASSUME NEW c \in IDs
  PROVE  /\ CheckKind[c] # "measured" /\ c \notin Asking => c \in Judging \cup Overall
         /\ CheckKind[c] = "measured" => c \notin Asking
  BY DEF IDs, CheckKind, Asking, Judging, Overall

LEMMA UsageType ==
  ASSUME DOMAIN listed \subseteq Names[kind]
  PROVE  /\ UsageFindings \subseteq FindingType
         /\ UsageFindings = {} => \A o \in DOMAIN usage \cap DOMAIN listed : desired(listed[o]) = 0
<1> DEFINE known == DOMAIN usage \cap DOMAIN listed
           F(o) == Finding(o, classifyPct(usage[o], desired(listed[o])))
           sized == {x \in known : desired(listed[x]) # 0}
<1>1. UsageFindings = IF known = {} THEN {Finding(Nothing, "SKIP")} ELSE {F(o) : o \in sized}
  BY DEF UsageFindings
<1>2. Finding(Nothing, "SKIP") \in FindingType /\ \A o \in sized : F(o) \in FindingType
  <2>1. \A used, size : classifyPct(used, size) \in Status
    BY DEF classifyPct, Staged, Status
  <2> QED
    BY <2>1 DEF Finding, FindingType, Status
<1> HIDE DEF F
<1> QED
  BY <1>1, <1>2

(* What a run that has listed its objects reports. *)
LEMMA ReportIs ==
  ASSUME IInv, Judge
  PROVE  /\ Report \subseteq FindingType
         /\ Report = {} => /\ kind = "measured"
                           /\ \A o \in DOMAIN usage \cap DOMAIN listed : desired(listed[o]) = 0
         /\ check \notin Asking => failed = "no"
         /\ check \in Asking => Report = OrOK(out)
         /\ check \notin Asking /\ kind # "measured" => Report = Findings(check, listed, Now, api)
<1>1. check \in IDs /\ CheckKind[check] = kind
  BY DEF Judge, IInv, RunInv
<1>2. DOMAIN listed \subseteq Names[kind] /\ out \subseteq FindingType
  BY DEF IInv, TypeOK
<1>3. check \notin Asking => failed = "no"
  BY DEF Judge, IInv, TypeOK, RunInv
<1>4. CASE kind = "measured"
  <2>1. check \notin Asking /\ Report = UsageFindings
    BY <1>1, <1>4, CheckIs DEF Report
  <2> QED
    BY <1>2, <1>3, <1>4, <2>1, UsageType
<1>5. CASE kind # "measured" /\ check \in Asking
  <2>1. Report = OrOK(out)
    BY <1>5 DEF Report
  <2>2. Finding(Nothing, "OK") \in FindingType
    BY DEF Finding, FindingType, Status
  <2>3. OrOK(out) # {} /\ OrOK(out) \subseteq FindingType
    BY <1>2, <2>2 DEF OrOK
  <2> QED
    BY <1>5, <2>1, <2>3
<1>6. CASE kind # "measured" /\ check \notin Asking
  <2>1. Report = Findings(check, listed, Now, api)
    BY <1>6 DEF Report, apiMinor
  <2>2. check \in Judging \cup Overall
    BY <1>1, <1>6, CheckIs
  <2> QED
    BY <1>2, <1>3, <1>6, <2>1, <2>2, FindingsType
<1> QED
  BY <1>4, <1>5, <1>6

LEMMA JudgeStep ==
  ASSUME IInv, Judge
  PROVE  IInv'
<1>1. ClusterKept
  BY ClusterIsKept DEF Judge
<1>2. /\ pc \in {"each", "judge"} /\ pc' = "idle" /\ out' = Report
      /\ UNCHANGED <<check, at, api, usage, listed, todo, began, then, failed, asked, before, runs>>
  BY DEF Judge, Return
<1>3. runs # 0 /\ check \in IDs /\ CheckKind[check] = kind /\ todo = {}
  BY <1>2 DEF Judge, IInv, RunInv
<1>4. HasListed /\ (HasListed' <=> failed = "no") /\ (Read' <=> failed = "no")
  BY <1>2, <1>3, BasicTypes DEF HasListed, Read, Done
<1>5. TypeOK'
  <2>1. FindingType' = FindingType /\ ObjectType' = ObjectType /\ kind' = kind
    BY <1>1, KeptCluster DEF ClusterKept
  <2>2. RunTypes'
    BY <1>2, <2>1, ReportIs DEF RunTypes, IInv, TypeOK
  <2> QED
    BY <1>1, <2>2, KeptCluster
<1>6. RunInv'
  BY <1>1, <1>2, <1>3 DEF RunInv, ClusterKept
<1>7. TimeInv'
  BY <1>1, <1>2, <1>4 DEF IInv, TimeInv, ClusterKept
<1>8. AgeInv' /\ StayInv'
  BY <1>1, <1>2, <1>4, KeptCluster, KeptListed DEF AgeInv
<1>9. AskInv'
  BY <1>2, <1>4 DEF IInv, AskInv, nodeReady
<1>10. NothingUnsaid'
  <2>1. out' = {} => /\ kind = "measured"
                     /\ \A o \in DOMAIN usage \cap DOMAIN listed : desired(listed[o]) = 0
    BY <1>2, ReportIs
  <2>2. ASSUME failed # "no"
        PROVE  /\ \A f \in out' : f.status # "OK"
               /\ failed \in Unexcused => Worst(out') # "OK"
    <3>1. check \in Asking /\ pc = "each"
      BY <1>2, <2>2, ReportIs DEF IInv, RunInv
    <3>2. /\ out # {} /\ \A f \in out : f.status # "OK"
          /\ failed \notin {"no", "Forbidden"} => \E f \in out : f.status \in {"UNKNOWN", "CRIT"}
      BY <2>2, <3>1 DEF IInv, AskInv
    <3>3. out' = out
      BY <1>2, <3>1, <3>2, ReportIs DEF OrOK
    <3>4. \A f \in out : f.status \in Status
      BY DEF IInv, TypeOK, FindingType
    <3>5. ASSUME failed \in Unexcused PROVE Worst(out) # "OK"
      <4>1. PICK f \in out : f.status \in {"UNKNOWN", "CRIT"}
        BY <3>2, <3>5 DEF Unexcused
      <4>2. rank(f.status) <= rank(Worst(out))
        BY <3>4, WorstIs
      <4>3. rank(f.status) \in {1, 3} /\ rank("OK") = 0
        BY <4>1 DEF rank
      <4> QED
        BY <4>2, <4>3
    <3> QED
      BY <3>2, <3>3, <3>5
  <2>3. Worst(out)' = Worst(out')
    BY DEF Worst
  <2> QED
    BY <1>1, <1>2, <2>1, <2>2, <2>3 DEF NothingUnsaid, Unexcused, ClusterKept, desired
<1>11. ReportInv'
  <2> SUFFICES ASSUME failed = "no", check \notin Asking, kind # "measured"
               PROVE  \E t \in at..Clock : Judged(t)'
    BY <1>1, <1>2, <1>4 DEF ReportInv, ClusterKept, Clock
  <2>1. /\ at = began + skew /\ began <= now /\ now - began <= Latency /\ began <= then.now
        /\ then.now \in Int
    <3>1. runs > 0 /\ pc # "idle"
      BY <1>2, <1>3, BasicTypes
    <3> QED
      BY <1>4, <3>1 DEF IInv, TimeInv, TypeOK
  <2>2. Now \in at..Clock /\ Now <= then.now + Latency + skew /\ (kind = "lease" => Now = at)
    BY <2>1, BasicTypes DEF Now, Clock
  <2>3. out' = Findings(check, listed, Now, api)
    BY <1>2, ReportIs
  <2>4. PICK t : t = Now
    OBVIOUS
  <2>5. Judged(t)'
    BY <1>1, <1>2, <2>2, <2>3, <2>4 DEF Judged, ClusterKept
  <2> QED
    BY <2>2, <2>4, <2>5, Zenon
<1>12. BeforeInv'
  <2>1. api' \in Nat /\ api <= api'
    BY <1>2, BasicTypes
  <2> QED
    BY <1>1, <1>2, <2>1, KeptBefore DEF ClusterKept
<1> QED
  BY <1>5, <1>6, <1>7, <1>8, <1>9, <1>10, <1>11, <1>12 DEF IInv
-----------------------------------------------------------------------------
LEMMA StutterEvolves ==
  ASSUME IInv, UNCHANGED vars
  PROVE  Evolves
<1>1. RunKept /\ now' = now /\ objs' = objs /\ server' = server /\ alive' = alive /\ changes' = changes
  BY DEF vars, RunKept
<1>2. /\ now \in 0..Horizon /\ server \in Nat /\ alive \in BOOLEAN /\ changes \in 0..MaxChanges
      /\ objs \in [Names[kind] -> ObjectType \cup {Absent}]
  BY DEF IInv, TypeOK
<1>3. \A o \in Names[kind] : objs[o] # Absent => Fits(o, objs[o], now, alive)
  BY HereType DEF Fits, Kept
<1>4. pc # "idle" => now - began <= Latency
  BY DEF IInv, TimeInv
<1> QED
  BY <1>1, <1>2, <1>3, <1>4, BasicTypes DEF Evolves

LEMMA RunStep ==
  ASSUME IInv, Run
  PROVE  IInv'
  BY BeginStep, FailStep, ReadServerStep, ReadMetricsStep, ListStep, DialExpiredStep, JudgeStep,
     EachStep DEF Run

(* The inductive invariant: of the clocks, of what a run has read and of   *)
(* what it and the run before made of it, whatever the cluster does while  *)
(* a check of internal/checks is between two of its calls.                 *)
THEOREM Inductive == Spec => []IInv
<1>1. Init => IInv
  BY InitInv
<1>2. IInv /\ [Next]_vars => IInv'
  BY ClusterEvolves, EvolvesStep, RunStep, StutterEvolves DEF Next
<1> QED
  BY <1>1, <1>2, PTL DEF Spec

(* Every run has statuses of internal/result only, about objects of its    *)
(* kind or about none, and nodes are only asked by the checks that do.     *)
THEOREM TypeCorrect == Spec => []TypeOK
<1>1. IInv => TypeOK
  BY DEF IInv
<1> QED
  BY <1>1, Inductive, PTL

(* No run of a check is silent or passes over a failed read: errFinding,   *)
(* skipFinding and okFinding say at least one thing.                       *)
THEOREM NotSilent == Spec => []NothingUnsaid
<1>1. IInv => NothingUnsaid
  BY DEF IInv
<1> QED
  BY <1>1, Inductive, PTL
-----------------------------------------------------------------------------
(* A run that read all it wanted, and judged it. *)
LEMMA ReadIs ==
  ASSUME IInv, Read
  PROVE  /\ HasListed /\ check \in IDs /\ CheckKind[check] = kind /\ todo = {}
         /\ DOMAIN listed \subseteq Names[kind] /\ Nothing \notin Names[kind]
         /\ at = began + skew /\ began \in Nat /\ then.now \in Nat /\ then.server \in Nat
         /\ began <= then.now /\ api <= then.server
         /\ \A o \in DOMAIN listed : /\ listed[o] \in ObjectType
                                     /\ Sound(listed[o], then.now, then.alive)
<1>1. HasListed /\ runs > 0 /\ runs # 0
  BY BasicTypes DEF HasListed, Read, Done
<1>2. check \in IDs /\ CheckKind[check] = kind /\ todo = {}
  BY <1>1 DEF IInv, RunInv
<1>3. Nothing \notin Names[kind]
  BY BasicTypes, KindsAssumption DEF Objects
<1>4. at = began + skew /\ began <= then.now /\ api <= then.server
  BY <1>1 DEF IInv, TimeInv
<1>5. /\ DOMAIN listed \subseteq Names[kind] /\ began \in Nat /\ then.now \in Nat /\ then.server \in Nat
      /\ \A o \in DOMAIN listed : listed[o] \in ObjectType
  BY DEF IInv, TypeOK
<1>6. \A o \in DOMAIN listed : Sound(listed[o], then.now, then.alive)
  BY <1>1 DEF IInv, AgeInv
<1> QED
  BY <1>1, <1>2, <1>3, <1>4, <1>5, <1>6

LEMMA ReadJudged ==
  ASSUME IInv, Read, check \notin Asking, kind # "measured"
  PROVE  \E t \in Int : at <= t /\ Judged(t)
<1>1. at \in Int /\ Clock \in Int
  BY BasicTypes DEF Clock
<1>2. \A t \in at..Clock : t \in Int /\ at <= t
  BY <1>1
<1>3. PICK t \in at..Clock : Judged(t)
  BY Zenon DEF IInv, ReportInv
<1> QED
  BY <1>2, <1>3, Zenon

(* The checks that judge objects of one kind by their age. *)
LEMMA WaitingKinds ==
  /\ CheckKind["pods.pending"] = "pod" /\ CheckKind["pods.notReady"] = "pod"
  /\ CheckKind["pvc.pending"] = "claim" /\ CheckKind["pv.releasedNotReclaimed"] = "volume"
  /\ CheckKind["namespaces.stuckTerminating"] = "namespace"
  /\ DOMAIN Patience \subseteq Judging \ {"events.warnings"}
  BY DEF CheckKind, IDs, Patience, Judging, Overall, Asking

LEMMA PatienceIs ==
  /\ Patience["pods.pending"] = [phases |-> {"Pending"}, limit |-> T.pending]
  /\ Patience["pods.notReady"] = [phases |-> {"Starting"}, limit |-> T.notReady]
  /\ Patience["pvc.pending"] = [phases |-> {"Pending", "Lost"}, limit |-> T.pvc]
  /\ Patience["pv.releasedNotReclaimed"] = [phases |-> {"Released"}, limit |-> T.released]
  /\ Patience["namespaces.stuckTerminating"] = [phases |-> {"Terminating"}, limit |-> T.nsWarn]
  BY DEF Patience

(* What pods.pending and namespaces.stuckTerminating, at time t, mean by   *)
(* an alarm about an object whose times are in order.                      *)
LEMMA Founded ==
  ASSUME IInv, NEW c \in {"pods.pending", "namespaces.stuckTerminating"}, CheckKind[c] = kind,
         NEW x \in ObjectType, NEW m, NEW live, Sound(x, m, live), NEW t \in Int, NEW v,
         Verdict(c, x, t, v) \in {"WARN", "CRIT"}
  PROVE  /\ x.phase \in Patience[c].phases
         /\ 2 * (t - x.since) + T.second >= 2 * Patience[c].limit
<1>1. x.since \in Nat /\ x.created \in Nat
  BY DurationType
<1>2. CASE c = "pods.pending"
  <2>1. x.phase = "Pending" /\ t - x.created >= T.pending
    BY <1>2 DEF Verdict, podsPending, Graced
  <2>2. x.since = x.created
    BY <2>1 DEF Sound, Young
  <2>3. T.pending \in Nat /\ T.second \in Nat
    BY ThresholdsAssumption
  <2>4. 2 * (t - x.since) + T.second >= 2 * T.pending
    BY <1>1, <2>1, <2>2, <2>3
  <2> QED
    BY <1>2, <2>1, <2>4, PatienceIs
<1>3. CASE c = "namespaces.stuckTerminating"
  <2>1. kind = "namespace"
    BY <1>3, WaitingKinds
  <2>2. x.phase = "Terminating"
    BY <1>3 DEF Verdict, namespacesTerminating
  <2>3. x.stamp = x.since /\ x.stamp # None
    BY <1>1, <2>1, <2>2, NoneAssumption DEF Sound
  <2>4. Staged(Round(t - x.since, T.second), T.nsWarn, T.nsCrit) \in {"WARN", "CRIT"}
    BY <1>3, <2>2, <2>3 DEF Verdict, namespacesTerminating
  <2> DEFINE r == Round(t - x.since, T.second)
  <2>5. T.second \in Nat \ {0} /\ T.nsWarn \in Nat /\ T.nsCrit \in Nat /\ T.nsWarn < T.nsCrit
    BY ThresholdsAssumption
  <2>6. r \in Int /\ 2 * r <= 2 * (t - x.since) + T.second
    <3>1. t - x.since \in Int
      BY <1>1
    <3> QED
      BY <2>5, <3>1, RoundType, RoundAbove
  <2> HIDE DEF r
  <2>7. r >= T.nsWarn
    BY <2>4, <2>5, <2>6 DEF Staged, r
  <2>8. 2 * (t - x.since) + T.second >= 2 * T.nsWarn
    BY <1>1, <2>5, <2>6, <2>7
  <2> QED
    BY <1>3, <2>2, <2>8, PatienceIs
<1> QED
  BY <1>2, <1>3

(* pods_pending.go, namespaces_terminating.go: no pod is reported as       *)
(* Pending and no namespace as stuck before its grace period, but for the  *)
(* run's time, the rounding and the clocks.                                *)
THEOREM AlarmsFounded == Spec => []AlarmIsFounded
<1>1. ASSUME IInv PROVE AlarmIsFounded
  <2> SUFFICES ASSUME Read, check \in {"pods.pending", "namespaces.stuckTerminating"},
                      NEW f \in out, f.status \in {"WARN", "CRIT"}
               PROVE  /\ f.on \in DOMAIN listed /\ listed[f.on].phase \in Patience[check].phases
                      /\ 2 * (then.now + Latency + skew - listed[f.on].since) + T.second
                           >= 2 * Patience[check].limit
    BY DEF AlarmIsFounded
  <2>1. check \in Judging /\ check \notin Asking /\ kind # "measured" /\ CheckKind[check] = kind
    BY <1>1, ReadIs, WaitingKinds DEF Judging, Overall, Asking, IDs
  <2>2. PICK t \in Int : at <= t /\ Judged(t)
    BY <1>1, <2>1, ReadJudged
  <2>3. out = Findings(check, listed, t, api) /\ t <= then.now + Latency + skew
    BY <2>2 DEF Judged
  <2>4. PICK o \in DOMAIN listed : f = Finding(o, Verdict(check, listed[o], t, api))
    <3>1. Finding(Nothing, "OK").status = "OK" /\ Finding(Nothing, "SKIP").status = "SKIP"
      BY DEF Finding
    <3> QED
      BY <2>1, <2>3, <3>1, FindingsAre
  <2>5. f.on = o /\ f.status = Verdict(check, listed[o], t, api)
    BY <2>4 DEF Finding
  <2>6. listed[o] \in ObjectType /\ Sound(listed[o], then.now, then.alive)
    BY <1>1, ReadIs
  <2>7. /\ listed[o].phase \in Patience[check].phases
        /\ 2 * (t - listed[o].since) + T.second >= 2 * Patience[check].limit
    BY <1>1, <2>1, <2>5, <2>6, Founded
  <2>8. listed[o].since \in Nat /\ T.second \in Nat /\ Patience[check].limit \in Nat
    BY <1>1, <2>6, DurationType, PatienceIs, ThresholdsAssumption
  <2>9. then.now \in Nat /\ skew \in Int /\ Latency \in Nat
    BY <1>1, ReadIs, BasicTypes
  <2>10. 2 * (then.now + Latency + skew - listed[o].since) + T.second >= 2 * Patience[check].limit
    BY <2>3, <2>7, <2>8, <2>9
  <2> QED
    BY <2>5, <2>7, <2>10
<1> QED
  BY <1>1, Inductive, PTL

(* What the checks that wait say, at time t, of an object that has been in *)
(* a bad phase for long.                                                   *)
LEMMA Reported ==
  ASSUME IInv, NEW c \in DOMAIN Patience, CheckKind[c] = kind,
         NEW x \in ObjectType, NEW m, NEW live, Sound(x, m, live), NEW t \in Int, NEW v,
         x.phase \in Patience[c].phases, t - x.since >= Patience[c].limit
  PROVE  Verdict(c, x, t, v) \in {"WARN", "CRIT"}
<1>1. x.since \in Nat /\ x.created \in Nat /\ x.created <= x.since /\ T.minute \in Nat \ {0} /\ T.second \in Nat \ {0}
  BY DurationType, ThresholdsAssumption DEF Sound
<1>2. t - x.since \in Int /\ t - x.created \in Int /\ t - x.created >= t - x.since
  BY <1>1
<1>3. /\ T.pending \in Nat /\ T.notReady \in Nat /\ T.pvc \in Nat /\ T.released \in Nat
      /\ T.released % T.minute = 0 /\ T.nsWarn \in Nat /\ T.nsWarn % T.second = 0
  BY ThresholdsAssumption
<1>4. CASE c \in {"pods.pending", "pods.notReady", "pvc.pending"}
  BY <1>2, <1>3, <1>4, PatienceIs DEF Verdict, podsPending, podsNotReady, pvcPending, Graced
<1>5. CASE c = "pv.releasedNotReclaimed"
  <2>1. x.phase = "Released" /\ t - x.created >= T.released
    BY <1>2, <1>3, <1>5, PatienceIs
  <2>2. Round(t - x.created, T.minute) >= T.released
    BY <1>1, <1>2, <1>3, <2>1, RoundReaches
  <2> QED
    BY <1>5, <2>1, <2>2 DEF Verdict, pvReleased, Graced
<1>6. CASE c = "namespaces.stuckTerminating"
  <2>1. x.phase = "Terminating" /\ t - x.since >= T.nsWarn
    BY <1>6, PatienceIs
  <2>2. x.stamp = x.since /\ x.stamp # None
    BY <1>1, <1>6, <2>1, WaitingKinds, NoneAssumption DEF Sound
  <2>3. Round(t - x.since, T.second) >= T.nsWarn
    BY <1>1, <1>2, <1>3, <2>1, RoundReaches
  <2>4. Verdict(c, x, t, v) = Staged(Round(t - x.since, T.second), T.nsWarn, T.nsCrit)
    BY <1>6, <2>1, <2>2 DEF Verdict, namespacesTerminating
  <2> QED
    BY <2>3, <2>4 DEF Staged
<1> QED
  BY <1>4, <1>5, <1>6 DEF Patience

(* Every object that is too long in a bad phase when the run begins, and   *)
(* stays in it, is reported by the check that waits for it, wherever that  *)
(* check measures from and however it rounds.                              *)
THEOREM StuckReported == Spec => []StuckIsReported
<1>1. ASSUME IInv PROVE StuckIsReported
  <2> SUFFICES ASSUME Read, check \in DOMAIN Patience, NEW o \in Here,
                      objs[o].phase \in Patience[check].phases, objs[o].since < began,
                      began + skew - objs[o].since >= Patience[check].limit
               PROVE  StatusOf(out, o) \in {"WARN", "CRIT"}
    BY DEF StuckIsReported
  <2>1. check \in Judging /\ check \notin Asking /\ kind # "measured" /\ CheckKind[check] = kind
    BY <1>1, ReadIs, WaitingKinds DEF Patience, Asking
  <2>2. PICK t \in Int : at <= t /\ Judged(t)
    BY <1>1, <2>1, ReadJudged
  <2>3. out = Findings(check, listed, t, api)
    BY <2>2 DEF Judged
  <2>4. o \in DOMAIN listed /\ listed[o].phase = objs[o].phase /\ listed[o].since = objs[o].since
    BY <1>1, ReadIs DEF IInv, StayInv
  <2>5. /\ listed[o] \in ObjectType /\ Sound(listed[o], then.now, then.alive) /\ o # Nothing
        /\ at = began + skew /\ began \in Nat
    BY <1>1, <2>4, ReadIs
  <2>6. t - listed[o].since >= Patience[check].limit
    <3>1. Patience[check].limit \in Nat /\ skew \in Int /\ listed[o].since \in Nat
      BY <1>1, <2>5, PatienceIs, ThresholdsAssumption, BasicTypes, DurationType DEF Patience
    <3> QED
      BY <2>2, <2>4, <2>5, <3>1
  <2>7. Verdict(check, listed[o], t, api) \in {"WARN", "CRIT"}
    BY <1>1, <2>1, <2>4, <2>5, <2>6, Reported
  <2>8. StatusOf(out, o) = Verdict(check, listed[o], t, api)
    BY <2>1, <2>3, <2>4, <2>5, StatusOfJudging
  <2> QED
    BY <2>7, <2>8
<1> QED
  BY <1>1, Inductive, PTL

-----------------------------------------------------------------------------
(* Two runs of a check, of which the later one is not the milder. *)
LEMMA MilderObject ==
  ASSUME IInv, Read, check \notin Asking \cup {"events.warnings"}, kind # "measured",
         NEW l, NEW o \in DOMAIN listed \cap DOMAIN l, listed[o] = l[o],
         NEW s \in Int, NEW t \in Int, s <= t, NEW v \in Int, v <= api
  PROVE  rank(StatusOf(Findings(check, l, s, v), o)) <= rank(StatusOf(Findings(check, listed, t, api), o))
<1>1. o # Nothing /\ listed[o] \in ObjectType /\ Sound(listed[o], then.now, then.alive)
      /\ check \in IDs /\ CheckKind[check] = kind
  BY ReadIs
<1>2. CASE check \in Overall
  BY <1>1, <1>2, StatusOfOverall, RankType DEF Status
<1>3. CASE check \in Judging
  <2>1. /\ StatusOf(Findings(check, l, s, v), o) = Verdict(check, listed[o], s, v)
        /\ StatusOf(Findings(check, listed, t, api), o) = Verdict(check, listed[o], t, api)
    BY <1>1, <1>3, StatusOfJudging
  <2>2. /\ listed[o].created \in Int /\ listed[o].n \in Int /\ listed[o].stamp \in Int \cup {None}
        /\ listed[o].want \in Nat \cup {None} /\ api \in Int
    BY <1>1, DurationType, BasicTypes
  <2>3. check = "apiserver.certExpiry" => listed[o].stamp # None
    BY <1>1 DEF Sound, CheckKind, IDs
  <2> QED
    BY <1>3, <2>1, <2>2, <2>3, VerdictMonotone
<1> QED
  BY <1>1, <1>2, <1>3, CheckIs

LEMMA MilderReport ==
  ASSUME IInv, Read, check \notin Asking \cup {"events.warnings"}, kind # "measured",
         NEW s \in Int, NEW t \in Int, s <= t, NEW v \in Int, v <= api
  PROVE  rank(Worst(Findings(check, listed, s, v))) <= rank(Worst(Findings(check, listed, t, api)))
<1> DEFINE R == Findings(check, listed, s, v)
           S == Findings(check, listed, t, api)
<1>1. check \in Judging \cup Overall /\ check \in IDs /\ CheckKind[check] = kind
      /\ DOMAIN listed \subseteq Names[kind] /\ then.now \in Nat
      /\ \A o \in DOMAIN listed : /\ listed[o] \in ObjectType
                                  /\ Sound(listed[o], then.now, then.alive)
  BY ReadIs, CheckIs
<1>2. (\A f \in R : f.status \in Status) /\ (\A f \in S : f.status \in Status)
  BY <1>1, FindingsType DEF FindingType
<1>3. ASSUME NEW f \in R PROVE rank(f.status) = 0 \/ \E g \in S : rank(f.status) <= rank(g.status)
  <2>1. CASE check \in Judging
    <3>1. CASE f = Finding(Nothing, "OK") \/ f = Finding(Nothing, "SKIP")
      BY <3>1, RankType DEF Finding, Status
    <3>2. ASSUME NEW o \in DOMAIN listed, f = Finding(o, Verdict(check, listed[o], s, v)), rank(f.status) # 0
          PROVE  \E g \in S : rank(f.status) <= rank(g.status)
      <4>1. /\ listed[o].created \in Int /\ listed[o].n \in Int /\ listed[o].stamp \in Int \cup {None}
            /\ listed[o].want \in Nat \cup {None} /\ api \in Int
        BY <1>1, DurationType, BasicTypes
      <4>2. check = "apiserver.certExpiry" => listed[o].stamp # None
        BY <1>1 DEF Sound, CheckKind, IDs
      <4>3. rank(Verdict(check, listed[o], s, v)) <= rank(Verdict(check, listed[o], t, api))
        BY <2>1, <4>1, <4>2, VerdictMonotone
      <4>4. Verdict(check, listed[o], t, api) \in Status /\ f.status = Verdict(check, listed[o], s, v)
        BY <2>1, <3>2, VerdictType DEF Finding
      <4>5. Verdict(check, listed[o], t, api) # "OK"
        BY <1>2, <3>2, <4>3, <4>4, RankType DEF Status
      <4>6. Finding(o, Verdict(check, listed[o], t, api)) \in S
        BY <2>1, <4>5, FindingsAre
      <4> QED
        BY <4>3, <4>4, <4>6 DEF Finding
    <3> QED
      BY <2>1, <3>1, <3>2, FindingsAre
  <2>2. CASE check = "rke2.snapshots.recent"
    <3>1. R = {Finding(Nothing, snapshotsRecent(listed, s))} /\ S = {Finding(Nothing, snapshotsRecent(listed, t))}
      BY <2>2 DEF Findings
    <3>2. \A o \in DOMAIN listed : listed[o].created \in Nat /\ listed[o].created <= then.now
      <4>1. ASSUME NEW o \in DOMAIN listed PROVE listed[o].created \in Nat /\ listed[o].created <= then.now
        <5>1. listed[o].created \in Nat /\ listed[o].since \in Nat
          BY <1>1, DurationType
        <5> QED
          BY <1>1, <5>1 DEF Sound
      <4> QED
        BY <4>1
    <3>3. rank(snapshotsRecent(listed, s)) <= rank(snapshotsRecent(listed, t))
      BY <1>1, <3>2, SnapshotsMonotone
    <3> QED
      BY <3>1, <3>3 DEF Finding
  <2>3. CASE check \in {"storageclass.default", "controlplane.endpoints"}
    <3>1. R = S
      BY <2>3 DEF Findings
    <3>2. rank(f.status) \in 0..3
      BY <1>2, RankType
    <3>3. rank(f.status) <= rank(f.status)
      BY <3>2
    <3> QED
      BY <3>1, <3>3
  <2> QED
    BY <1>1, <2>1, <2>2, <2>3 DEF Overall
<1> HIDE DEF R, S
<1>4. rank(Worst(R)) <= rank(Worst(S))
  BY <1>2, <1>3, WorstMonotone
<1> QED
  BY <1>4 DEF R, S

(* The run before, if it could compare with this one, was no later. *)
LEMMA BeforeJudged ==
  ASSUME IInv, before.failed = "no", before.check \notin Asking, kind # "measured",
         ~ (before.listed = Empty /\ before.out = {})
  PROVE  \E s, v \in Int : /\ s <= at /\ v <= api
                           /\ before.out = Findings(before.check, before.listed, s, v)
<1>1. (\A s \in skew..at : s \in Int /\ s <= at) /\ (\A v \in 0..api : v \in Int /\ v <= api)
  BY BasicTypes
<1>2. \E s \in skew..at, v \in 0..api : before.out = Findings(before.check, before.listed, s, v)
  BY Zenon DEF IInv, BeforeInv
<1> QED
  BY <1>1, <1>2, Zenon

(* A check that runs again on what has not changed, later and with the     *)
(* server possibly upgraded, is not the milder.                            *)
THEOREM LaterIsNotMilder == Spec => []NeverMilder
<1>1. ASSUME IInv PROVE NeverMilder
  <2> SUFFICES ASSUME Read, check = before.check, before.failed = "no",
                      check \notin Asking \cup {"events.warnings"}, kind # "measured"
               PROVE  /\ \A o \in DOMAIN listed \cap DOMAIN before.listed :
                           listed[o] = before.listed[o] =>
                             rank(StatusOf(before.out, o)) <= rank(StatusOf(out, o))
                      /\ listed = before.listed => rank(Worst(before.out)) <= rank(Worst(out))
    BY DEF NeverMilder
  <2>1. CASE before.listed = Empty /\ before.out = {}
    <3>1. DOMAIN before.listed = {}
      BY <2>1 DEF Empty
    <3>2. \A f \in out : f.status \in Status
      BY <1>1 DEF IInv, TypeOK, FindingType
    <3>3. rank(Worst(before.out)) <= rank(Worst(out))
      BY <2>1, <3>2, WorstMonotone
    <3> QED
      BY <3>1, <3>3
  <2>2. CASE ~ (before.listed = Empty /\ before.out = {})
    <3>1. PICK s, v \in Int : /\ s <= at /\ v <= api
                              /\ before.out = Findings(check, before.listed, s, v)
      BY <1>1, <2>2, BeforeJudged
    <3>2. PICK t \in Int : at <= t /\ Judged(t)
      BY <1>1, ReadJudged
    <3>3. out = Findings(check, listed, t, api)
      BY <3>2 DEF Judged
    <3>4. s <= t
      BY <1>1, <3>1, <3>2, BasicTypes
    <3>5. ASSUME NEW o \in DOMAIN listed \cap DOMAIN before.listed, listed[o] = before.listed[o]
          PROVE  rank(StatusOf(before.out, o)) <= rank(StatusOf(out, o))
      BY <1>1, <3>1, <3>3, <3>4, <3>5, MilderObject
    <3>6. ASSUME listed = before.listed
          PROVE  rank(Worst(before.out)) <= rank(Worst(out))
      BY <1>1, <3>1, <3>3, <3>4, <3>6, MilderReport
    <3> QED
      BY <3>5, <3>6
  <2> QED
    BY <2>1, <2>2
<1> QED
  BY <1>1, Inductive, PTL

-----------------------------------------------------------------------------
(* controllermgr_healthz.go, scheduler_healthz.go: a leader that renews in *)
(* time is healthy, if khealth's clock is ahead by no more than its        *)
(* lease's duration.                                                       *)
THEOREM LiveLeader == Spec => []LiveLeaderIsHealthy
<1>1. ASSUME IInv PROVE LiveLeaderIsHealthy
  <2> SUFFICES ASSUME Read, kind = "lease", NEW o \in DOMAIN listed, then.alive,
                      listed[o].phase = "Held", skew <= Duration(listed[o])
               PROVE  Worst(out) = "OK"
    BY DEF LiveLeaderIsHealthy
  <2>1. /\ DOMAIN listed \subseteq Names[kind] /\ listed[o] \in ObjectType
        /\ Sound(listed[o], then.now, then.alive)
        /\ at = began + skew /\ began \in Nat /\ then.now \in Nat /\ began <= then.now
        /\ check \in IDs /\ CheckKind[check] = "lease"
    BY <1>1, ReadIs
  <2>2. check = "controllerMgr.healthz"
    BY <2>1 DEF CheckKind, IDs
  <2>3. check \in Judging /\ check \notin Asking
    BY <2>2 DEF Judging, Overall, Asking, IDs
  <2>4. PICK t \in Int : at <= t /\ Judged(t)
    BY <1>1, <2>3, ReadJudged
  <2>5. out = Findings(check, listed, at, api)
    BY <2>4 DEF Judged
  <2>6. \A p \in DOMAIN listed : p = o
    BY <1>1, <2>1, BasicTypes, SingleAssumption
  <2>7. leaseHealth(listed[o], at) = "OK"
    <3>1. /\ listed[o].stamp # None /\ listed[o].stamp <= then.now
          /\ then.now - listed[o].stamp <= Duration(listed[o])
      BY <2>1 DEF Sound
    <3>2. listed[o].stamp \in Nat /\ Duration(listed[o]) \in Nat /\ skew \in Int
      BY <1>1, <2>1, <3>1, DurationType, BasicTypes
    <3>3. at - listed[o].stamp <= 2 * Duration(listed[o])
      BY <2>1, <3>1, <3>2
    <3>4. ~ (at - listed[o].stamp > 2 * Duration(listed[o]))
      BY <2>1, <3>2, <3>3
    <3> QED
      BY <3>1, <3>4 DEF leaseHealth, Duration
  <2>8. Verdict(check, listed[o], at, api) = "OK"
    BY <2>2, <2>7 DEF Verdict
  <2>9. \A f \in out : f.status \in {"OK", "SKIP"}
    BY <2>3, <2>5, <2>6, <2>8, FindingsAre DEF Finding
  <2> QED
    BY <2>9, WorstOK
<1> QED
  BY <1>1, Inductive, PTL

(* nodes_versionskew.go: read first, the server's version is never newer   *)
(* than the one it has when the nodes are listed.                          *)
THEOREM SkewIsNotOverstated == Spec => []SkewNotOverstated
<1>1. ASSUME IInv PROVE SkewNotOverstated
  <2> SUFFICES ASSUME Read, check = "nodes.versionSkew", NEW f \in out, f.on \in DOMAIN listed
               PROVE  rank(f.status) <= rank(versionSkew(listed[f.on], then.server))
    BY DEF SkewNotOverstated
  <2>1. /\ check \in Judging /\ check \notin Asking /\ CheckKind[check] = "kubelet"
    BY DEF Judging, Overall, Asking, IDs, CheckKind
  <2>2. kind = "kubelet" /\ f.on # Nothing /\ listed[f.on] \in ObjectType /\ api <= then.server
        /\ then.server \in Nat /\ api \in Nat
    BY <1>1, <2>1, ReadIs, BasicTypes
  <2>3. PICK t \in Int : at <= t /\ Judged(t)
    BY <1>1, <2>1, <2>2, ReadJudged
  <2>4. out = Findings(check, listed, t, api)
    BY <2>3 DEF Judged
  <2>5. f.status = Verdict(check, listed[f.on], t, api)
    BY <2>1, <2>2, <2>4, FindingsAre DEF Finding
  <2>6. f.status = versionSkew(listed[f.on], api)
    BY <2>5 DEF Verdict
  <2>7. listed[f.on].n \in Nat
    BY <1>1, <2>2, DurationType
  <2> QED
    BY <2>2, <2>6, <2>7 DEF versionSkew, rank
<1> QED
  BY <1>1, Inductive, PTL

(* nodes_disk.go asks the nodes nodes_ready.go does not report: none is    *)
(* passed over by both.                                                    *)
THEOREM EveryNodeSeen == Spec => []NoNodeUnseen
<1>1. ASSUME IInv PROVE NoNodeUnseen
  <2> SUFFICES ASSUME Read, before.failed = "no", {check, before.check} = {"nodes.ready", "nodes.disk"},
                      NEW o \in DOMAIN listed \cap DOMAIN before.listed, listed[o] = before.listed[o]
               PROVE  \/ o \in asked \cup before.asked
                      \/ StatusOf(IF check = "nodes.ready" THEN out ELSE before.out, o) # "OK"
    BY DEF NoNodeUnseen
  <2>1. ~ (before.listed = Empty /\ before.out = {})
    BY DEF Empty
  <2>2. /\ "nodes.ready" \in Judging /\ "nodes.ready" \notin Asking
        /\ CheckKind["nodes.ready"] = "node" /\ CheckKind["nodes.disk"] = "node"
    BY DEF Judging, Overall, Asking, IDs, CheckKind
  <2>3. kind = "node" /\ o # Nothing /\ listed[o] \in ObjectType /\ HasListed /\ todo = {}
    BY <1>1, <2>2, ReadIs
  <2>4. ~ nodeReady(listed[o]) => nodesReady(listed[o]) # "OK"
    <3>1. listed[o].phase \in Phases["node"]
      BY <2>3 DEF ObjectType
    <3> QED
      BY <3>1 DEF Phases, nodeReady, nodesReady
  <2>5. CASE check = "nodes.ready"
    <3>1. before.check = "nodes.disk"
      BY <2>5
    <3>2. nodeReady(listed[o]) => o \in before.asked
      BY <1>1, <2>1, <3>1, Zenon DEF IInv, BeforeInv
    <3>3. PICK t \in Int : at <= t /\ Judged(t)
      BY <1>1, <2>2, <2>3, <2>5, ReadJudged
    <3>4. StatusOf(out, o) = nodesReady(listed[o])
      BY <2>2, <2>3, <2>5, <3>3, StatusOfJudging DEF Judged, Verdict
    <3> QED
      BY <2>4, <2>5, <3>2, <3>4
  <2>6. CASE check = "nodes.disk"
    <3>1. before.check = "nodes.ready"
      BY <2>6
    <3>2. nodeReady(listed[o]) => o \in asked
      BY <1>1, <2>3, <2>6 DEF IInv, AskInv
    <3>3. PICK s, v \in Int : /\ s <= at /\ v <= api
                              /\ before.out = Findings(before.check, before.listed, s, v)
      BY <1>1, <2>1, <2>2, <2>3, <3>1, BeforeJudged
    <3>4. StatusOf(before.out, o) = nodesReady(listed[o])
      BY <2>2, <2>3, <3>1, <3>3, StatusOfJudging DEF Verdict
    <3> QED
      BY <2>4, <2>6, <3>2, <3>4
  <2> QED
    BY <2>5, <2>6
<1> QED
  BY <1>1, Inductive, PTL
=============================================================================
