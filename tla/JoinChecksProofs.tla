-------------------------- MODULE JoinChecksProofs --------------------------
(***************************************************************************)
(* Proofs about JoinChecks, for all referrers, targets and references and  *)
(* any number of changes of the cluster.                                   *)
(***************************************************************************)
EXTENDS JoinChecks, TLAPS

(* Where each check begins and which read follows which. *)
LEMMA OrderFacts ==
  ASSUME NEW c \in JoinIDs
  PROVE  /\ Order(c).start = IF c = "pdbs.coverage" THEN "pdbs" ELSE "referrers"
         /\ c = "pods.missingRefs" =>
              /\ Order(c)["referrers"] = "cm" /\ Order(c)["cm"] = "secret"
              /\ Order(c)["secret"] = "sa" /\ Order(c)["sa"] = "pvc"
              /\ Order(c)["pvc"] = "report"
         /\ c \in {"ingresses.missingClass", "pvc.lostBoundPV"} =>
              Order(c)["referrers"] = "targets" /\ Order(c)["targets"] = "report"
         /\ c \in EachIDs => Order(c)["referrers"] = "each"
         /\ c = "pdbs.coverage" =>
              /\ Order(c)["pdbs"] = "deployments" /\ Order(c)["deployments"] = "statefulsets"
              /\ Order(c)["statefulsets"] = "pdbs"
BY DEF Order, JoinIDs, EachIDs

LEMMA FollowedTargets == \A r \in Referrers : Followed(r) \subseteq Targets
BY RefsAssumption DEF Followed

LEMMA InitInv == Init => IInv
<1> SUFFICES ASSUME Init PROVE IInv
  OBVIOUS
<1>1. check \in JoinIDs /\ pc = IF check = "pdbs.coverage" THEN "pdbs" ELSE "referrers"
  BY ChecksAssumption, OrderFacts DEF Init
<1>2. TypeOK
  BY <1>1, MaxChangesAssumption DEF Init, TypeOK, Steps, TargetState, Orderly
<1>3. StepInv /\ StartInv /\ KnownInv /\ TodoInv /\ SteadyInv /\ ListsInv
  BY <1>1 DEF Init, StepInv, StartInv, KnownInv, TodoInv, SteadyInv, ListsInv, JoinIDs
<1>4. CalmInv
  BY <1>1 DEF Init, CalmInv, Orderly
<1>5. EachInv /\ CacheInv /\ SaidInv /\ NotYetOK
  BY <1>1 DEF Init, EachInv, CacheInv, SaidInv, NotYetOK
<1>6. CoverageInv
  BY <1>1, NamespaceAssumption DEF Init, CoverageInv
<1>7. AlarmWitnessed /\ QuietWhileGrowing /\ OKWitnessed /\ OneVerdictPerTarget /\ FailureIsSaid
  BY <1>1 DEF Init, AlarmWitnessed, QuietWhileGrowing, OKWitnessed, OneVerdictPerTarget,
     FailureIsSaid, Alarms
<1> QED BY <1>2, <1>3, <1>4, <1>5, <1>6, <1>7 DEF IInv

(* A change of the cluster: what was seen stays seen, and on a calm        *)
(* cluster nothing that resolved stops resolving.                          *)
LEMMA ChangeInv ==
  ASSUME IInv, NEW h \in SUBSET Referrers, NEW tg \in [Targets -> TargetState], Change(h, tg)
  PROVE  IInv'
<1> USE DEF IInv
<1>0. /\ UNCHANGED <<check, pc, listed, known, todo, left, ns, out, lost>>
      /\ here' = h /\ target' = tg /\ steady' = steady \cap h /\ pc # "done"
      /\ \A t \in Targets : seen'[t] = seen[t] \cup {tg[t]}
  BY DEF Change
<1>1. TypeOK'
  BY MaxChangesAssumption DEF TypeOK, Change
<1>2. StepInv' /\ StartInv' /\ TodoInv' /\ SteadyInv' /\ ListsInv' /\ SaidInv' /\ NotYetOK'
  BY <1>0 DEF StepInv, StartInv, TodoInv, SteadyInv, ListsInv, SaidInv, NotYetOK
<1>3. KnownInv'
  BY <1>0 DEF KnownInv
<1>4. CalmInv'
  <2> SUFFICES ASSUME calm' PROVE CalmInv'
    BY DEF CalmInv
  <2>1. calm /\ Orderly(check, h, tg)
        /\ \A t \in Targets : Resolves(check, target[t]) => Resolves(check, tg[t])
    BY DEF Change
  <2>2. Orderly(check, listed, tg)
    BY <2>1, RefsAssumption DEF CalmInv, Orderly, Followed, TypeOK
  <2> QED BY <1>0, <2>1, <2>2 DEF CalmInv, Orderly
<1>5. EachInv' /\ CacheInv'
  BY <1>0, FollowedTargets DEF EachInv, CacheInv, Alarms, TypeOK
<1>6. CoverageInv'
  BY <1>0, FollowedTargets DEF CoverageInv, TypeOK
<1>7. AlarmWitnessed'
  BY <1>0, FollowedTargets DEF AlarmWitnessed, Alarms, TypeOK
<1>8. QuietWhileGrowing'
  BY <1>0 DEF QuietWhileGrowing, Alarms, Change
<1>9. OKWitnessed' /\ OneVerdictPerTarget' /\ FailureIsSaid'
  BY <1>0 DEF OKWitnessed, OneVerdictPerTarget, FailureIsSaid
<1> QED BY <1>1, <1>2, <1>3, <1>4, <1>5, <1>6, <1>7, <1>8, <1>9

(* The step of every read: what becomes of the rest of the invariant when  *)
(* a read fails and the check ends with UNKNOWN.                           *)
LEMMA ReadFailedInv ==
  ASSUME IInv, NEW objects \in SUBSET (Referrers \cup Targets), ReadFailed(objects),
         check # "pdbs.coverage",
         UNCHANGED <<check, cluster, listed, todo, known, left, ns, history>>
  PROVE  IInv'
<1> USE DEF IInv
<1>0. /\ out' = {Finding(Nothing, Nothing, "UNKNOWN")} /\ pc' = "done"
      /\ lost' = lost \cup objects
      /\ UNCHANGED <<check, listed, todo, known, left, ns, here, target, changes, steady, seen, calm>>
  BY DEF ReadFailed, cluster, history
<1>1. Alarms' = {} /\ out' # AllOK' /\ \E f \in out' : f.status = "UNKNOWN"
  <2>1. \A f \in out' : f.status = "UNKNOWN"
    BY <1>0 DEF Finding
  <2>2. \E f \in AllOK' : f.status = "OK"
    BY DEF Finding, AllOK
  <2>3. \E f \in out' : TRUE
    BY <1>0
  <2> QED BY <2>1, <2>2, <2>3 DEF Alarms
<1>2. TypeOK'
  BY <1>0 DEF TypeOK, Finding, Findings, Steps
<1>3. StepInv' /\ StartInv' /\ KnownInv' /\ TodoInv' /\ SteadyInv' /\ ListsInv' /\ NotYetOK'
  BY <1>0 DEF StepInv, StartInv, KnownInv, TodoInv, SteadyInv, ListsInv, NotYetOK
<1>4. CalmInv'
  BY <1>0 DEF CalmInv, Orderly
<1>5. EachInv' /\ CacheInv' /\ SaidInv' /\ CoverageInv'
  BY <1>0, <1>1 DEF EachInv, CacheInv, SaidInv, CoverageInv
<1>6. AlarmWitnessed' /\ QuietWhileGrowing' /\ OKWitnessed' /\ OneVerdictPerTarget' /\ FailureIsSaid'
  BY <1>0, <1>1 DEF AlarmWitnessed, QuietWhileGrowing, OKWitnessed, OneVerdictPerTarget,
     FailureIsSaid
<1> QED BY <1>2, <1>3, <1>4, <1>5, <1>6

LEMMA ListReferrersInv ==
  ASSUME IInv, ListReferrers
  PROVE  IInv'
<1> USE DEF IInv
<1>0. pc = "referrers" /\ check \in JoinIDs \ {"pdbs.coverage"}
  BY ChecksAssumption DEF ListReferrers, TypeOK, StepInv
<1>1. CASE ReadFailed(Referrers) /\ UNCHANGED <<listed, todo>>
  <2>1. Referrers \in SUBSET (Referrers \cup Targets)
    OBVIOUS
  <2>2. UNCHANGED <<check, cluster, listed, todo, known, left, ns, history>>
    BY <1>1 DEF ListReferrers
  <2> QED BY <1>0, <1>1, <2>1, <2>2, ReadFailedInv
<1>2. CASE ~ (ReadFailed(Referrers) /\ UNCHANGED <<listed, todo>>)
  <2>0. /\ listed' = here /\ pc' = Order(check)["referrers"]
        /\ todo' = {p \in here \X Targets : p[2] \in Followed(p[1])}
        /\ UNCHANGED <<out, lost, check, known, left, ns, here, target, changes, steady, seen, calm>>
    BY <1>0, <1>2 DEF ListReferrers, cluster, history
  <2>1. \/ pc' = "cm" /\ check = "pods.missingRefs"
        \/ pc' = "targets" /\ check \in {"ingresses.missingClass", "pvc.lostBoundPV"}
        \/ pc' = "each" /\ check \in EachIDs
    BY <1>0, <2>0, OrderFacts DEF JoinIDs, EachIDs
  <2>2. /\ out = {} /\ lost = {} /\ \A t \in Targets : known[t] = "?"
        /\ check \notin {"pdbs.coverage"}
    BY <1>0 DEF StartInv
  <2>3. TypeOK'
    BY <2>0, <2>1 DEF TypeOK, Steps
  <2>4. \A r \in here : \A t \in Followed(r) : t \in Targets /\ <<r, t>> \in todo'
    BY <2>0, FollowedTargets DEF TypeOK
  <2>5. \A p \in todo' : p[1] \in listed' /\ p[2] \in Followed(p[1])
    BY <2>0
  <2>6. StepInv' /\ StartInv' /\ KnownInv' /\ ListsInv' /\ SaidInv' /\ NotYetOK'
    BY <2>0, <2>1, <2>2 DEF StepInv, StartInv, KnownInv, ListsInv, SaidInv, NotYetOK, EachIDs, ListIDs
  <2>7. TodoInv' /\ SteadyInv'
    BY <2>0, <2>4, <2>5 DEF TodoInv, SteadyInv
  <2>8. CalmInv'
    BY <2>0, <2>2, <2>4 DEF CalmInv, Orderly
  <2>9. EachInv' /\ CacheInv' /\ CoverageInv'
    BY <2>0, <2>2, <2>4 DEF EachInv, CacheInv, CoverageInv, Alarms
  <2>10. AlarmWitnessed' /\ QuietWhileGrowing' /\ OKWitnessed' /\ OneVerdictPerTarget' /\ FailureIsSaid'
    BY <2>0, <2>1, <2>2 DEF AlarmWitnessed, QuietWhileGrowing, OKWitnessed, OneVerdictPerTarget,
       FailureIsSaid, Alarms
  <2> QED BY <2>3, <2>6, <2>7, <2>8, <2>9, <2>10
<1> QED BY <1>1, <1>2

LEMMA ListKindInv ==
  ASSUME IInv, NEW k \in {"cm", "secret", "sa", "pvc"}, ListKind(k)
  PROVE  IInv'
<1> USE DEF IInv
<1>0. /\ pc = k /\ check = "pods.missingRefs" /\ pc' = Order(check)[k]
      /\ UNCHANGED <<check, listed, todo, left, ns, out, here, target, changes, steady, seen, calm>>
  BY DEF ListKind, cluster, history
<1>1. /\ k = "cm" => pc' = "secret"
      /\ k = "secret" => pc' = "sa"
      /\ k = "sa" => pc' = "pvc"
      /\ k = "pvc" => pc' = "report"
  BY <1>0, OrderFacts DEF JoinIDs
<1>2. pc' \in {"secret", "sa", "pvc", "report"}
  BY <1>1
<1>3. /\ known' \in [Targets -> TargetState \cup {"?"}]
      /\ lost \subseteq lost' /\ lost' \subseteq Referrers \cup Targets
      /\ \A t \in Targets :
           IF KindOf[t] = k
           THEN known'[t] = target[t] \/ (known'[t] = "absent" /\ t \in lost')
           ELSE known'[t] = known[t]
  BY DEF ListKind, TypeOK, TargetState
<1>4. TypeOK'
  BY <1>0, <1>2, <1>3 DEF TypeOK, Steps
<1>5. StepInv' /\ StartInv' /\ TodoInv' /\ SteadyInv' /\ SaidInv' /\ NotYetOK'
  BY <1>0, <1>2 DEF StepInv, StartInv, TodoInv, SteadyInv, SaidInv, NotYetOK, ListIDs
<1>6. KnownInv'
  BY <1>0, <1>3 DEF KnownInv, FailureIsAbsence
<1>7. CalmInv'
  BY <1>0, <1>3, FollowedTargets DEF CalmInv, Orderly, TypeOK
<1>8. ListsInv'
  <2> SUFFICES ASSUME NEW t \in Targets, known'[t] = "?"
               PROVE  \/ pc' = "secret" /\ KindOf[t] # "cm"
                      \/ pc' = "sa" /\ KindOf[t] \notin {"cm", "secret"}
                      \/ pc' = "pvc" /\ KindOf[t] = "pvc"
    BY <1>0 DEF ListsInv
  <2>1. KindOf[t] # k /\ known[t] = "?"
    BY <1>3 DEF TypeOK, TargetState
  <2> QED BY <1>0, <1>1, <2>1, KindAssumption DEF ListsInv
<1>9. EachInv' /\ CacheInv' /\ CoverageInv'
  BY <1>0, <1>2 DEF EachInv, CacheInv, CoverageInv
<1>10. Alarms' = {}
  BY <1>0 DEF StartInv, ListIDs, Alarms
<1>11. AlarmWitnessed' /\ QuietWhileGrowing' /\ OKWitnessed' /\ OneVerdictPerTarget' /\ FailureIsSaid'
  BY <1>0, <1>2, <1>10 DEF AlarmWitnessed, QuietWhileGrowing, OKWitnessed, OneVerdictPerTarget,
     FailureIsSaid
<1> QED BY <1>4, <1>5, <1>6, <1>7, <1>8, <1>9, <1>11

LEMMA ListTargetsInv ==
  ASSUME IInv, ListTargets
  PROVE  IInv'
<1> USE DEF IInv
<1>0. /\ pc = "targets" /\ check \in {"ingresses.missingClass", "pvc.lostBoundPV"}
      /\ UNCHANGED <<check, cluster, listed, todo, left, ns, history>>
  BY DEF ListTargets
<1>1. CASE ReadFailed(Targets) /\ UNCHANGED known
  <2>1. Targets \in SUBSET (Referrers \cup Targets)
    OBVIOUS
  <2>2. UNCHANGED <<check, cluster, listed, todo, known, left, ns, history>> /\ check # "pdbs.coverage"
    BY <1>0, <1>1
  <2> QED BY <1>1, <2>1, <2>2, ReadFailedInv
<1>2. CASE ~ (ReadFailed(Targets) /\ UNCHANGED known)
  <2>0. /\ known' = target /\ pc' = "report"
        /\ UNCHANGED <<out, lost, check, listed, todo, left, ns, here, target, changes, steady, seen, calm>>
    BY <1>0, <1>2, OrderFacts DEF ListTargets, JoinIDs, cluster, history
  <2>1. TypeOK'
    BY <2>0 DEF TypeOK, Steps
  <2>2. StepInv' /\ StartInv' /\ KnownInv' /\ TodoInv' /\ SteadyInv' /\ ListsInv' /\ SaidInv' /\ NotYetOK'
    BY <1>0, <2>0 DEF StepInv, StartInv, KnownInv, TodoInv, SteadyInv, ListsInv, SaidInv, NotYetOK,
       ListIDs, TypeOK, TargetState
  <2>3. CalmInv'
    BY <2>0 DEF CalmInv, Orderly
  <2>4. EachInv' /\ CacheInv' /\ CoverageInv'
    BY <1>0, <2>0 DEF EachInv, CacheInv, CoverageInv
  <2>5. Alarms' = {}
    BY <1>0, <2>0 DEF StartInv, ListIDs, Alarms
  <2>6. AlarmWitnessed' /\ QuietWhileGrowing' /\ OKWitnessed' /\ OneVerdictPerTarget' /\ FailureIsSaid'
    BY <2>0, <2>5 DEF AlarmWitnessed, QuietWhileGrowing, OKWitnessed, OneVerdictPerTarget,
       FailureIsSaid
  <2> QED BY <2>1, <2>2, <2>3, <2>4, <2>6
<1> QED BY <1>1, <1>2

(* What the end of a check that looked everything up in lists says.        *)
LEMMA ReportInv ==
  ASSUME IInv, Report
  PROVE  IInv'
<1> USE DEF IInv
<1> DEFINE bad == {q \in todo : ~ Resolves(check, known[q[2]])}
           fs == {Finding(p[1], p[2], "CRIT") : p \in bad}
<1>0. /\ pc = "report" /\ pc' = "done" /\ todo' = {} /\ check \in ListIDs
      /\ out' = OrOK(fs)
      /\ UNCHANGED <<lost, check, listed, known, left, ns, here, target, changes, steady, seen, calm>>
  BY DEF Report, StepInv, cluster, history
<1>1. \A f \in fs : f.status = "CRIT" /\ \E r \in listed : \E t \in Followed(r) :
         /\ f.on = r /\ f.to = t /\ t \in Targets /\ ~ Resolves(check, known[t])
  BY <1>0, FollowedTargets DEF Finding, TodoInv, TypeOK
<1>2. \A r \in listed : \A t \in Followed(r) :
         ~ Resolves(check, known[t]) => Finding(r, t, "CRIT") \in fs
  <2> SUFFICES ASSUME NEW r \in listed, NEW t \in Followed(r), ~ Resolves(check, known[t])
               PROVE  Finding(r, t, "CRIT") \in fs
    OBVIOUS
  <2>1. <<r, t>> \in bad
    BY <1>0 DEF TodoInv
  <2>2. <<r, t>>[1] = r /\ <<r, t>>[2] = t
    OBVIOUS
  <2> QED BY <2>1, <2>2
<1>3. \A f \in AllOK : f.status = "OK"
  BY DEF AllOK, Finding
<1>4. Alarms' = fs
  <2>1. CASE fs = {}
    BY <1>0, <1>3, <2>1 DEF OrOK, Alarms
  <2>2. CASE fs # {}
    BY <1>0, <1>1, <2>2 DEF OrOK, Alarms
  <2> QED BY <2>1, <2>2
<1>5. \A t \in Targets : known[t] # "?"
  BY <1>0 DEF ListsInv, ListIDs
<1>6. TypeOK'
  <2>1. fs \subseteq Findings
    BY <1>0 DEF Finding, Findings, TypeOK
  <2>2. AllOK \subseteq Findings
    BY DEF AllOK, Finding, Findings
  <2> QED BY <1>0, <2>1, <2>2 DEF TypeOK, Steps, OrOK
<1>7. StepInv' /\ StartInv' /\ KnownInv' /\ TodoInv' /\ SteadyInv' /\ ListsInv' /\ NotYetOK'
  BY <1>0 DEF StepInv, StartInv, KnownInv, TodoInv, SteadyInv, ListsInv, NotYetOK
<1>8. CalmInv'
  BY <1>0 DEF CalmInv, Orderly
<1>9. EachInv' /\ CacheInv' /\ SaidInv' /\ CoverageInv'
  BY <1>0 DEF EachInv, CacheInv, SaidInv, CoverageInv, ListIDs
<1>10. AlarmWitnessed'
  BY <1>0, <1>1, <1>4, <1>5 DEF AlarmWitnessed, KnownInv, Resolves
<1>11. QuietWhileGrowing'
  BY <1>0, <1>1, <1>4, <1>5 DEF QuietWhileGrowing, CalmInv, ListIDs
<1>12. OKWitnessed'
  <2> SUFFICES ASSUME out' = AllOK, NEW r \in steady, NEW t \in Followed(r)
               PROVE  \E st \in seen[t] : Resolves(check, st)
    BY <1>0 DEF OKWitnessed, AllOK, ListIDs
  <2>1. fs = {}
    BY <1>0, <1>1, <1>3 DEF OrOK
  <2>2. r \in listed /\ t \in Targets
    BY <1>0, FollowedTargets DEF SteadyInv, ListIDs, TypeOK
  <2>3. Resolves(check, known[t])
    BY <1>2, <2>1, <2>2
  <2>4. known[t] # "absent"
    BY <1>0, <2>3 DEF Resolves, ListIDs
  <2> QED BY <1>5, <2>2, <2>3, <2>4 DEF KnownInv
<1>13. OneVerdictPerTarget'
  <2> SUFFICES ASSUME NEW f \in fs, NEW r \in listed, f.to \in Followed(r)
               PROVE  \E g \in fs : g.on = r /\ g.to = f.to
    BY <1>0, <1>4 DEF OneVerdictPerTarget
  <2>1. Finding(r, f.to, "CRIT") \in fs
    BY <1>1, <1>2
  <2> QED BY <2>1 DEF Finding
<1>14. FailureIsSaid'
  BY <1>0 DEF FailureIsSaid, SaidInv, ListIDs
<1> QED BY <1>6, <1>7, <1>8, <1>9, <1>10, <1>11, <1>12, <1>13, <1>14

(* What every lookup of a reference leaves as it was: only todo, out, lost *)
(* and known can change, and out and lost grow by the reference.           *)
LEMMA TakeInv ==
  ASSUME IInv, NEW r \in Referrers, NEW t \in Targets, Take(r, t),
         known' \in [Targets -> TargetState \cup {"?"}],
         NEW s \in {"WARN", "CRIT", "UNKNOWN"},
         out \subseteq out' /\ out' \subseteq out \cup {Finding(r, t, s)},
         lost \subseteq lost' /\ lost' \subseteq lost \cup {t}
  PROVE  /\ pc' = "each" /\ pc = "each" /\ check \in EachIDs /\ <<r, t>> \in todo
         /\ todo' = todo \ {<<r, t>>} /\ r \in listed /\ t \in Followed(r)
         /\ UNCHANGED <<check, pc, listed, left, ns, here, target, changes, steady, seen, calm>>
         /\ TypeOK' /\ StepInv' /\ StartInv' /\ TodoInv' /\ SteadyInv' /\ ListsInv' /\ CoverageInv'
         /\ NotYetOK' /\ OKWitnessed' /\ OneVerdictPerTarget' /\ FailureIsSaid'
<1> USE DEF IInv
<1>0. /\ pc = "each" /\ check \in EachIDs /\ <<r, t>> \in todo /\ todo' = todo \ {<<r, t>>}
      /\ UNCHANGED <<check, pc, listed, left, ns, here, target, changes, steady, seen, calm>>
  BY DEF Take, StepInv, cluster, history
<1>1. r \in listed /\ t \in Followed(r)
  BY <1>0 DEF TodoInv
<1>2. Finding(r, t, s) \in Findings /\ Finding(r, t, s).status # "OK"
  BY DEF Finding, Findings
<1>3. TypeOK'
  BY <1>0, <1>2 DEF TypeOK
<1>4. StepInv' /\ StartInv' /\ TodoInv' /\ SteadyInv' /\ ListsInv' /\ CoverageInv'
  BY <1>0 DEF StepInv, StartInv, TodoInv, SteadyInv, ListsInv, CoverageInv, EachIDs, ListIDs
<1>5. NotYetOK'
  BY <1>0, <1>2 DEF NotYetOK
<1>6. OKWitnessed' /\ OneVerdictPerTarget' /\ FailureIsSaid'
  BY <1>0 DEF OKWitnessed, OneVerdictPerTarget, FailureIsSaid
<1> QED BY <1>0, <1>1, <1>3, <1>4, <1>5, <1>6

(* A lookup that is not remembered finds the target as it is, or fails and *)
(* is passed over or said.                                                 *)
LEMMA FreshLookUpInv ==
  ASSUME IInv, NEW r \in Referrers, NEW t \in Targets, Take(r, t), UNCHANGED known,
         check # "ingresses.danglingService",
         NEW s \in {"WARN", "CRIT"},
         \/ /\ out' = IF Resolves(check, target[t]) THEN out ELSE out \cup {Finding(r, t, s)}
            /\ UNCHANGED lost
         \/ /\ lost' = lost \cup {t}
            /\ UNCHANGED out /\ check \in FailureIsPassedOver
         \/ /\ lost' = lost \cup {t}
            /\ out' = out \cup {Finding(r, t, "UNKNOWN")}
  PROVE  IInv'
<1> USE DEF IInv
<1> DEFINE f0 == Finding(r, t, s)
           u0 == Finding(r, t, "UNKNOWN")
<1>1. /\ f0.on = r /\ f0.to = t /\ f0.status = s
      /\ u0.on = r /\ u0.to = t /\ u0.status = "UNKNOWN"
  BY DEF Finding
<1>2. /\ pc' = "each" /\ pc = "each" /\ check \in EachIDs
      /\ todo' = todo \ {<<r, t>>} /\ r \in listed /\ t \in Followed(r)
      /\ UNCHANGED <<check, pc, listed, left, ns, here, target, changes, steady, seen, calm>>
      /\ TypeOK' /\ StepInv' /\ StartInv' /\ TodoInv' /\ SteadyInv' /\ ListsInv' /\ CoverageInv'
      /\ NotYetOK' /\ OKWitnessed' /\ OneVerdictPerTarget' /\ FailureIsSaid'
  <2>1. known' \in [Targets -> TargetState \cup {"?"}]
    BY DEF TypeOK
  <2>2. PICK q \in {"WARN", "CRIT", "UNKNOWN"} :
          /\ out \subseteq out' /\ out' \subseteq out \cup {Finding(r, t, q)}
          /\ lost \subseteq lost' /\ lost' \subseteq lost \cup {t}
    OBVIOUS
  <2> QED BY <2>1, <2>2, TakeInv
<1>3. KnownInv' /\ CalmInv' /\ CacheInv'
  BY <1>2 DEF KnownInv, CalmInv, CacheInv, Orderly
<1>4. lost \subseteq lost' /\ out \subseteq out'
  OBVIOUS
<1>5. SaidInv'
  BY <1>1, <1>2 DEF SaidInv, EachIDs, FailureIsPassedOver
<1>6. target[t] \in seen[t]
  BY DEF KnownInv
<1>7. EachInv'
  <2>1. ASSUME NEW r1 \in listed, NEW t1 \in Followed(r1)
        PROVE  \/ <<r1, t1>> \in todo'
               \/ \E f \in out' : f.on = r1 /\ f.to = t1 /\ f.status # "OK"
               \/ \E st \in seen[t1] : Resolves(check, st)
               \/ check \in FailureIsPassedOver /\ t1 \in lost'
    <3>1. CASE <<r1, t1>> \notin todo
      BY <1>2, <1>4, <3>1 DEF EachInv
    <3>2. CASE r1 = r /\ t1 = t
      BY <1>1, <1>6, <3>2
    <3>3. CASE <<r1, t1>> \in todo /\ ~ (r1 = r /\ t1 = t)
      BY <1>2, <3>3
    <3> QED BY <3>1, <3>2, <3>3
  <2>2. listed' = listed /\ seen' = seen /\ check' = check
    BY <1>2
  <2>3. \A r1 \in listed' : \A t1 \in Followed(r1) :
               \/ <<r1, t1>> \in todo'
               \/ \E f \in out' : f.on = r1 /\ f.to = t1 /\ f.status # "OK"
               \/ \E st \in seen'[t1] : Resolves(check, st)
               \/ check \in FailureIsPassedOver /\ t1 \in lost'
    BY ONLY <2>1, <2>2
  <2>4. \A r1 \in listed' : \A t1 \in Followed(r1) :
               \/ <<r1, t1>> \in todo'
               \/ \E f \in out' : f.on = r1 /\ f.to = t1 /\ f.status # "OK"
               \/ \E st \in seen'[t1] : Resolves(check', st)
               \/ check' \in FailureIsPassedOver /\ t1 \in lost'
    BY ONLY <2>2, <2>3
  <2> QED BY ONLY <2>4 DEF EachInv
<1>8. \A f \in Alarms' : f \in Alarms \/ (f = f0 /\ ~ Resolves(check, target[t]))
  BY <1>1, <1>2 DEF Alarms
<1>9. AlarmWitnessed'
  <2> SUFFICES ASSUME NEW f \in Alarms'
               PROVE  /\ f.on \in listed /\ f.to \in Followed(f.on)
                      /\ \/ \E st \in seen[f.to] : ~ Resolves(check, st)
                         \/ check \in FailureIsAbsence /\ f.to \in lost'
    BY <1>2 DEF AlarmWitnessed
  <2>1. CASE f \in Alarms
    BY <1>4, <2>1 DEF AlarmWitnessed
  <2>2. CASE f \notin Alarms
    BY <1>1, <1>2, <1>6, <1>8, <2>2
  <2> QED BY <2>1, <2>2
<1>10. QuietWhileGrowing'
  BY <1>1, <1>2, <1>4, <1>8 DEF QuietWhileGrowing, CalmInv, Orderly
<1> QED BY <1>2, <1>3, <1>5, <1>7, <1>9, <1>10

LEMMA EachLookUpInv ==
  ASSUME IInv, NEW r \in Referrers, NEW t \in Targets,
         ListBackends(r, t) \/ ListEndpoints(r, t) \/ GetWorkload(r, t)
  PROVE  IInv'
<1>1. CASE ListBackends(r, t)
  <2>1. "services.noBackends" \in FailureIsPassedOver
    BY DEF FailureIsPassedOver
  <2> QED BY <1>1, <2>1, FreshLookUpInv DEF ListBackends
<1>2. CASE ListEndpoints(r, t)
  BY <1>2, FreshLookUpInv DEF ListEndpoints
<1>3. CASE GetWorkload(r, t)
  <2>1. "hpas.missingTarget" \in FailureIsPassedOver
    BY DEF FailureIsPassedOver
  <2> QED BY <1>3, <2>1, FreshLookUpInv DEF GetWorkload
<1> QED BY <1>1, <1>2, <1>3

LEMMA GetServiceInv ==
  ASSUME IInv, NEW r \in Referrers, NEW t \in Targets, GetService(r, t)
  PROVE  IInv'
<1> USE DEF IInv
<1> DEFINE f0 == Finding(r, t, "CRIT")
<1>1. f0.on = r /\ f0.to = t /\ f0.status = "CRIT"
  BY DEF Finding
<1>2. /\ known' \in [Targets -> TargetState \cup {"?"}]
      /\ lost \subseteq lost' /\ lost' \subseteq lost \cup {t}
      /\ \A u \in Targets : u # t => known'[u] = known[u]
      /\ known[t] # "?" => known'[t] = known[t]
      /\ known'[t] # "?"
      /\ known[t] = "?" => known'[t] = target[t] \/ (known'[t] = "absent" /\ t \in lost')
      /\ check = "ingresses.danglingService"
      /\ out' = IF Resolves(check, known'[t]) THEN out ELSE out \cup {f0}
  BY DEF GetService, TypeOK, TargetState
<1>3. /\ pc' = "each" /\ pc = "each" /\ check \in EachIDs
      /\ todo' = todo \ {<<r, t>>} /\ r \in listed /\ t \in Followed(r)
      /\ UNCHANGED <<check, pc, listed, left, ns, here, target, changes, steady, seen, calm>>
      /\ TypeOK' /\ StepInv' /\ StartInv' /\ TodoInv' /\ SteadyInv' /\ ListsInv' /\ CoverageInv'
      /\ NotYetOK' /\ OKWitnessed' /\ OneVerdictPerTarget' /\ FailureIsSaid'
  <2>1. out \subseteq out' /\ out' \subseteq out \cup {f0} /\ Take(r, t)
    BY <1>2 DEF GetService
  <2> QED BY <1>2, <2>1, TakeInv
<1>4. KnownInv'
  BY <1>2, <1>3 DEF KnownInv, FailureIsAbsence
<1>5. CalmInv'
  <2> SUFFICES ASSUME calm
               PROVE  \A r1 \in listed : \A t1 \in Followed(r1) :
                        known'[t1] = "?" \/ t1 \in lost' \/ Resolves(check, known'[t1])
    BY <1>3 DEF CalmInv, Orderly
  <2> SUFFICES ASSUME NEW r1 \in listed, NEW t1 \in Followed(r1)
               PROVE  known'[t1] = "?" \/ t1 \in lost' \/ Resolves(check, known'[t1])
    OBVIOUS
  <2>1. t1 \in Targets
    BY FollowedTargets DEF TypeOK
  <2>2. Resolves(check, target[t1])
    BY DEF CalmInv, Orderly
  <2> QED BY <1>2, <2>1, <2>2 DEF CalmInv
<1>6. SaidInv'
  BY <1>2, <1>3 DEF SaidInv
<1>7. \A f \in Alarms' : f \in Alarms \/ (f = f0 /\ ~ Resolves(check, known'[t]))
  BY <1>2 DEF Alarms
<1>8. Alarms \subseteq Alarms' /\ (~ Resolves(check, known'[t]) => f0 \in Alarms')
  BY <1>1, <1>2 DEF Alarms
<1>9. \A f \in Alarms : f.to \in Targets
  BY FollowedTargets DEF AlarmWitnessed, TypeOK
<1>10. CacheInv'
  <2>1. \A f \in Alarms' : known'[f.to] # "?" /\ ~ Resolves(check, known'[f.to])
    BY <1>1, <1>2, <1>3, <1>7, <1>9 DEF CacheInv
  <2>2. ASSUME NEW r1 \in listed, NEW t1 \in Followed(r1)
        PROVE  \/ <<r1, t1>> \in todo'
               \/ known'[t1] # "?" /\ Resolves(check, known'[t1])
               \/ \E f \in Alarms' : f.on = r1 /\ f.to = t1
    <3>1. CASE r1 = r /\ t1 = t
      BY <1>1, <1>2, <1>8, <3>1
    <3>2. CASE ~ (r1 = r /\ t1 = t)
      <4>1. t1 \in Targets
        BY FollowedTargets DEF TypeOK
      <4>2. <<r1, t1>> \in todo => <<r1, t1>> \in todo'
        BY <1>3, <3>2
      <4>3. known[t1] # "?" => known'[t1] = known[t1]
        BY <1>2, <4>1
      <4> QED BY <1>2, <1>3, <1>8, <4>2, <4>3 DEF CacheInv
    <3> QED BY <3>1, <3>2
  <2> QED BY <1>3, <2>1, <2>2 DEF CacheInv
<1>11. known'[t] = "absent" \/ known'[t] \in seen[t]
  BY <1>2 DEF KnownInv, FailureIsAbsence
<1>12. EachInv'
  <2> SUFFICES ASSUME NEW r1 \in listed, NEW t1 \in Followed(r1), <<r1, t1>> \notin todo'
               PROVE  \/ \E f \in out' : f.on = r1 /\ f.to = t1 /\ f.status # "OK"
                      \/ \E st \in seen[t1] : Resolves(check, st)
    BY <1>3 DEF EachInv
  <2>1. CASE <<r1, t1>> \notin todo
    <3>1. check \notin FailureIsPassedOver
      BY <1>2 DEF FailureIsPassedOver
    <3>2. out \subseteq out'
      BY <1>2
    <3> QED BY <1>3, <2>1, <3>1, <3>2 DEF EachInv
  <2>2. CASE <<r1, t1>> \in todo
    <3>1. r1 = r /\ t1 = t
      BY <1>3, <2>2
    <3>2. CASE Resolves(check, known'[t])
      BY <1>2, <1>11, <3>1, <3>2 DEF Resolves
    <3>3. CASE ~ Resolves(check, known'[t])
      BY <1>1, <1>2, <3>1, <3>3
    <3> QED BY <3>2, <3>3
  <2> QED BY <2>1, <2>2
<1>13. AlarmWitnessed'
  <2> SUFFICES ASSUME NEW f \in Alarms'
               PROVE  /\ f.on \in listed /\ f.to \in Followed(f.on)
                      /\ \/ \E st \in seen[f.to] : ~ Resolves(check, st)
                         \/ check \in FailureIsAbsence /\ f.to \in lost'
    BY <1>3 DEF AlarmWitnessed
  <2>1. CASE f \in Alarms
    BY <1>2, <2>1 DEF AlarmWitnessed
  <2>2. CASE f \notin Alarms
    BY <1>1, <1>2, <1>3, <1>4, <1>7, <2>2 DEF KnownInv
  <2> QED BY <2>1, <2>2
<1>14. QuietWhileGrowing'
  <2> SUFFICES ASSUME calm, NEW f \in Alarms' PROVE f.to \in lost'
    BY <1>3 DEF QuietWhileGrowing
  <2>1. CASE f \in Alarms
    BY <1>2, <2>1 DEF QuietWhileGrowing
  <2>2. CASE f \notin Alarms
    BY <1>1, <1>2, <1>3, <1>5, <1>7, <2>2 DEF CalmInv
  <2> QED BY <2>1, <2>2
<1> QED BY <1>3, <1>4, <1>5, <1>6, <1>10, <1>12, <1>13, <1>14

(* The end of a check that reported as it went: nothing to report is OK.   *)
LEMMA OrOKFacts ==
  ASSUME IInv, pc # "done", out' = OrOK(out)
  PROVE  /\ Alarms' = Alarms /\ (out' = AllOK => out = {})
         /\ (out # {} => out' = out)
         /\ out' \subseteq Findings
<1>1. \A f \in AllOK : f.status = "OK"
  BY DEF AllOK, Finding
<1>2. \A f \in out : f.status # "OK"
  BY DEF IInv, NotYetOK
<1>3. AllOK # {} /\ AllOK \subseteq Findings
  BY DEF AllOK, Finding, Findings
<1>4. CASE out = {}
  BY <1>1, <1>3, <1>4 DEF OrOK, Alarms
<1>5. CASE out # {}
  BY <1>1, <1>2, <1>3, <1>5 DEF OrOK, Alarms, IInv, TypeOK
<1> QED BY <1>4, <1>5

LEMMA EachDoneInv ==
  ASSUME IInv, EachDone
  PROVE  IInv'
<1> USE DEF IInv
<1>0. /\ pc = "each" /\ pc' = "done" /\ todo = {} /\ out' = OrOK(out) /\ check \in EachIDs
      /\ UNCHANGED <<lost, check, listed, known, todo, left, ns, here, target, changes, steady, seen, calm>>
  BY DEF EachDone, StepInv, cluster, history
<1>1. /\ Alarms' = Alarms /\ (out' = AllOK => out = {})
      /\ (out # {} => out' = out) /\ out' \subseteq Findings
  BY <1>0, OrOKFacts
<1>2. TypeOK'
  BY <1>0, <1>1 DEF TypeOK, Steps
<1>3. StepInv' /\ StartInv' /\ KnownInv' /\ TodoInv' /\ SteadyInv' /\ ListsInv' /\ NotYetOK'
  BY <1>0 DEF StepInv, StartInv, KnownInv, TodoInv, SteadyInv, ListsInv, NotYetOK
<1>4. CalmInv'
  BY <1>0 DEF CalmInv, Orderly
<1>5. EachInv' /\ CacheInv' /\ SaidInv' /\ CoverageInv'
  BY <1>0, <1>1 DEF EachInv, CacheInv, SaidInv, CoverageInv, EachIDs
<1>6. AlarmWitnessed' /\ QuietWhileGrowing'
  BY <1>0, <1>1 DEF AlarmWitnessed, QuietWhileGrowing
<1>7. OKWitnessed'
  <2> SUFFICES ASSUME out' = AllOK, NEW r \in steady, NEW t \in Followed(r)
               PROVE  \/ \E st \in seen[t] : Resolves(check, st)
                      \/ check \in FailureIsPassedOver /\ t \in lost
    BY <1>0 DEF OKWitnessed, AllOK, EachIDs, FailureIsPassedOver
  <2>1. r \in listed
    BY <1>0 DEF SteadyInv, EachIDs
  <2>2. out = {} /\ todo = {}
    BY <1>0, <1>1
  <2> QED BY <1>0, <2>1, <2>2 DEF EachInv
<1>8. OneVerdictPerTarget'
  <2> SUFFICES ASSUME check = "ingresses.danglingService",
                      NEW f \in Alarms, NEW r \in listed, f.to \in Followed(r)
               PROVE  \E g \in Alarms : g.on = r /\ g.to = f.to
    BY <1>0, <1>1 DEF OneVerdictPerTarget, EachIDs
  <2> QED BY <1>0 DEF CacheInv
<1>9. FailureIsSaid'
  BY <1>0, <1>1 DEF FailureIsSaid, SaidInv, EachIDs
<1> QED BY <1>2, <1>3, <1>4, <1>5, <1>6, <1>7, <1>8, <1>9

LEMMA NamespacesDoneInv ==
  ASSUME IInv, NamespacesDone
  PROVE  IInv'
<1> USE DEF IInv
<1>0. /\ pc = "pdbs" /\ pc' = "done" /\ left = {} /\ out' = OrOK(out) /\ check = "pdbs.coverage"
      /\ UNCHANGED <<lost, check, listed, known, todo, left, ns, here, target, changes, steady, seen, calm>>
  BY DEF NamespacesDone, StepInv, cluster, history
<1>1. Alarms' = Alarms /\ (out' = AllOK => out = {}) /\ out' \subseteq Findings
  BY <1>0, OrOKFacts
<1>2. TypeOK'
  BY <1>0, <1>1 DEF TypeOK, Steps
<1>3. StepInv' /\ StartInv' /\ KnownInv' /\ TodoInv' /\ SteadyInv' /\ ListsInv' /\ NotYetOK'
  BY <1>0 DEF StepInv, StartInv, KnownInv, TodoInv, SteadyInv, ListsInv, NotYetOK
<1>4. CalmInv'
  BY <1>0 DEF CalmInv, Orderly
<1>5. EachInv' /\ CacheInv' /\ SaidInv' /\ CoverageInv'
  BY <1>0 DEF EachInv, CacheInv, SaidInv, CoverageInv
<1>6. AlarmWitnessed' /\ QuietWhileGrowing' /\ OneVerdictPerTarget' /\ FailureIsSaid'
  BY <1>0, <1>1 DEF AlarmWitnessed, QuietWhileGrowing, OneVerdictPerTarget, FailureIsSaid
<1>7. OKWitnessed'
  <2> SUFFICES ASSUME out' = AllOK, NEW r \in steady, Followed(r) # {}
               PROVE  \/ r \in lost
                      \/ \E t \in Followed(r) : t \in lost \/ \E st \in seen[t] : Resolves(check, st)
    BY <1>0 DEF OKWitnessed, AllOK
  <2>1. out = {}
    BY <1>1
  <2> QED BY <1>0, <2>1 DEF CoverageInv
<1> QED BY <1>2, <1>3, <1>4, <1>5, <1>6, <1>7

LEMMA ListPDBsInv ==
  ASSUME IInv, NEW n \in Namespaces, ListPDBs(n)
  PROVE  IInv'
<1> USE DEF IInv
<1>0. /\ pc = "pdbs" /\ check = "pdbs.coverage" /\ n \in left /\ left' = left \ {n}
      /\ UNCHANGED <<check, listed, todo, out, here, target, changes, steady, seen, calm>>
  BY DEF ListPDBs, StepInv, cluster, history
<1>1. \/ /\ ns' = n /\ pc' = "deployments" /\ lost' = lost
         /\ known' = [t \in Targets |-> IF NsOf[t] = n THEN target[t] ELSE "?"]
      \/ /\ lost' = lost \cup {t \in Targets : NsOf[t] = n}
         /\ ns' = ns /\ known' = known /\ pc' = pc
  BY <1>0, OrderFacts DEF ListPDBs, JoinIDs
<1>2. pc' \in {"pdbs", "deployments"} /\ lost \subseteq lost' /\ lost' \subseteq Referrers \cup Targets
  BY <1>0, <1>1 DEF TypeOK
<1>3. TypeOK'
  <2>1. known' \in [Targets -> TargetState \cup {"?"}]
    BY <1>1 DEF TypeOK
  <2>2. ns' \in Namespaces \cup {Nothing}
    BY <1>1 DEF TypeOK
  <2> QED BY <1>0, <1>2, <2>1, <2>2 DEF TypeOK, Steps
<1>4. StepInv' /\ StartInv' /\ TodoInv' /\ SteadyInv' /\ ListsInv' /\ NotYetOK'
  BY <1>0, <1>2 DEF StepInv, StartInv, TodoInv, SteadyInv, ListsInv, NotYetOK, ListIDs
<1>5. KnownInv'
  BY <1>0, <1>1 DEF KnownInv, FailureIsAbsence
<1>6. CalmInv'
  BY <1>0 DEF CalmInv, Orderly
<1>7. EachInv' /\ CacheInv' /\ SaidInv'
  BY <1>0, <1>2 DEF EachInv, CacheInv, SaidInv
<1>8. CoverageInv'
  <2>1. pc' \in {"deployments", "statefulsets"} =>
          ns' \in Namespaces /\ \A t \in Targets : NsOf[t] = ns' => known'[t] # "?"
    BY <1>0, <1>1 DEF TypeOK, TargetState
  <2>2. ASSUME NEW r \in steady, Followed(r) # {}
        PROVE  \/ NsOf[r] \in left'
               \/ NsOf[r] = ns' /\ pc' = "deployments"
               \/ r \in lost'
               \/ \E f \in out : f.on = r /\ f.status # "OK"
               \/ \E t \in Followed(r) : t \in lost' \/ \E st \in seen[t] : Resolves(check, st)
    <3>1. CASE NsOf[r] = n
      <4>1. PICK t \in Followed(r) : TRUE
        BY <2>2
      <4>2. t \in Targets /\ NsOf[t] = n
        BY <3>1, FollowedTargets, NamespaceAssumption DEF TypeOK, Followed
      <4> QED BY <1>1, <3>1, <4>2
    <3>2. CASE NsOf[r] # n
      BY <1>0, <1>2, <2>2, <3>2 DEF CoverageInv
    <3> QED BY <3>1, <3>2
  <2> QED BY <1>0, <2>1, <2>2 DEF CoverageInv
<1>9. AlarmWitnessed'
  BY <1>0, <1>2 DEF AlarmWitnessed, Alarms
<1>10. QuietWhileGrowing' /\ OKWitnessed' /\ OneVerdictPerTarget' /\ FailureIsSaid'
  BY <1>0, <1>2 DEF QuietWhileGrowing, OKWitnessed, OneVerdictPerTarget, FailureIsSaid
<1> QED BY <1>3, <1>4, <1>5, <1>6, <1>7, <1>8, <1>9, <1>10

LEMMA ListWorkloadsInv ==
  ASSUME IInv, NEW kind \in {"deployments", "statefulsets"}, ListWorkloads(kind)
  PROVE  IInv'
<1> USE DEF IInv
<1> DEFINE items == {r \in here : KindOf[r] = kind /\ NsOf[r] = ns}
           bad == {q \in items \X Targets : q[2] \in Followed(q[1]) /\ ~ covered(q[1])}
           fs == {Finding(p[1], p[2], "WARN") : p \in bad}
           gone == {r \in Referrers : KindOf[r] = kind /\ NsOf[r] = ns}
<1>0. /\ pc = kind /\ check = "pdbs.coverage"
      /\ UNCHANGED <<check, known, todo, left, ns, here, target, changes, steady, seen, calm>>
  BY DEF ListWorkloads, cluster, history
<1>1. /\ kind = "deployments" => pc' = "statefulsets"
      /\ kind = "statefulsets" => pc' = "pdbs"
  BY <1>0, OrderFacts DEF ListWorkloads, JoinIDs
<1>2. \/ listed' = listed \cup items /\ out' = out \cup fs /\ lost' = lost
      \/ listed' = listed /\ out' = out /\ lost' = lost \cup gone
  BY DEF ListWorkloads
<1>3. /\ pc' \in {"statefulsets", "pdbs"} /\ lost \subseteq lost' /\ out \subseteq out'
      /\ listed \subseteq listed' /\ listed' \subseteq listed \cup items
      /\ out' \subseteq out \cup fs
  BY <1>1, <1>2
<1>4. \A f \in fs : /\ f.status = "WARN" /\ f \in Findings /\ f.on \in items
                    /\ f.to \in Followed(f.on) /\ f.to \in Targets /\ ~ covered(f.on)
  BY DEF Finding, Findings, TypeOK
<1>5. \A r \in items : \A t \in Followed(r) :
        ~ covered(r) => Finding(r, t, "WARN") \in fs
  <2> SUFFICES ASSUME NEW r \in items, NEW t \in Followed(r), ~ covered(r)
               PROVE  Finding(r, t, "WARN") \in fs
    OBVIOUS
  <2>1. t \in Targets
    BY FollowedTargets DEF TypeOK
  <2>2. <<r, t>>[1] = r /\ <<r, t>>[2] = t /\ <<r, t>> \in items \X Targets
    BY <2>1
  <2>3. <<r, t>> \in bad
    BY <2>2
  <2> QED BY <2>2, <2>3
<1>6. TypeOK'
  BY <1>0, <1>2, <1>3, <1>4 DEF TypeOK, Steps
<1>7. StepInv' /\ StartInv' /\ KnownInv' /\ TodoInv' /\ SteadyInv' /\ ListsInv'
  BY <1>0, <1>3 DEF StepInv, StartInv, KnownInv, TodoInv, SteadyInv, ListsInv, ListIDs, FailureIsAbsence
<1>8. NotYetOK'
  BY <1>0, <1>3, <1>4 DEF NotYetOK
<1>9. CalmInv'
  BY <1>0, <1>3 DEF CalmInv, Orderly
<1>10. EachInv' /\ CacheInv' /\ SaidInv'
  BY <1>0, <1>3 DEF EachInv, CacheInv, SaidInv
<1>11. \A t \in Targets : NsOf[t] = ns => known[t] \in seen[t]
  BY <1>0 DEF CoverageInv, KnownInv, FailureIsAbsence
<1>12. CoverageInv'
  <2>1. pc' \in {"deployments", "statefulsets"} =>
          ns' \in Namespaces /\ \A t \in Targets : NsOf[t] = ns' => known'[t] # "?"
    BY <1>0 DEF CoverageInv
  <2>2. ASSUME NEW r \in steady, Followed(r) # {}
        PROVE  \/ NsOf[r] \in left
               \/ NsOf[r] = ns /\ pc' = "statefulsets" /\ KindOf[r] = pc'
               \/ r \in lost'
               \/ \E f \in out' : f.on = r /\ f.status # "OK"
               \/ \E t \in Followed(r) : t \in lost' \/ \E st \in seen[t] : Resolves(check, st)
    <3>0. r \in here /\ r \in Referrers
      BY DEF SteadyInv, TypeOK
    <3>1. CASE NsOf[r] = ns /\ KindOf[r] = kind
      <4>1. CASE listed' = listed /\ out' = out /\ lost' = lost \cup gone
        BY <3>0, <3>1, <4>1
      <4>2. CASE out' = out \cup fs /\ ~ covered(r)
        <5>1. PICK t \in Followed(r) : TRUE
          BY <2>2
        <5>2. Finding(r, t, "WARN") \in out'
          BY <1>5, <3>0, <3>1, <4>2
        <5> QED BY <5>2 DEF Finding
      <4>3. CASE covered(r)
        <5>1. PICK t \in Followed(r) : known[t] \in {"bare", "ready"}
          BY <4>3 DEF covered
        <5>2. t \in Targets /\ NsOf[t] = ns
          BY <3>0, <3>1, FollowedTargets, NamespaceAssumption DEF Followed
        <5>3. Resolves(check, known[t])
          BY <1>0, <5>1 DEF Resolves
        <5> QED BY <1>11, <5>2, <5>3
      <4> QED BY <1>2, <4>1, <4>2, <4>3
    <3>2. CASE ~ (NsOf[r] = ns /\ KindOf[r] = kind)
      <4>1. KindOf[r] \in {"deployments", "statefulsets"}
        BY <3>0, KindAssumption
      <4>2. CASE NsOf[r] = ns /\ kind = "deployments"
        BY <1>1, <3>2, <4>1, <4>2
      <4>3. CASE ~ (NsOf[r] = ns /\ kind = "deployments")
        BY <1>0, <1>3, <2>2, <3>2, <4>3 DEF CoverageInv
      <4> QED BY <4>2, <4>3
    <3> QED BY <3>1, <3>2
  <2> QED BY <1>0, <2>1, <2>2 DEF CoverageInv
<1>13. AlarmWitnessed'
  <2> SUFFICES ASSUME NEW f \in Alarms'
               PROVE  /\ f.on \in listed' /\ f.to \in Followed(f.on)
                      /\ \/ \E st \in seen[f.to] : ~ Resolves(check, st)
                         \/ check \in FailureIsAbsence /\ f.to \in lost'
    BY <1>0 DEF AlarmWitnessed
  <2>1. CASE f \in Alarms
    BY <1>3, <2>1 DEF AlarmWitnessed
  <2>2. CASE f \notin Alarms
    <3>1. f \in fs /\ f.on \in listed'
      BY <1>2, <1>4, <2>2 DEF Alarms
    <3>2. f.to \in Targets /\ NsOf[f.to] = ns
      BY <1>4, <3>1, NamespaceAssumption DEF TypeOK, Followed
    <3>3. known[f.to] = "absent"
      BY <1>4, <1>11, <3>1, <3>2 DEF covered, TypeOK, TargetState
    <3> QED BY <1>0, <1>4, <1>11, <3>1, <3>2, <3>3 DEF Resolves
  <2> QED BY <2>1, <2>2
<1>14. QuietWhileGrowing' /\ OKWitnessed' /\ OneVerdictPerTarget' /\ FailureIsSaid'
  BY <1>0, <1>3 DEF QuietWhileGrowing, OKWitnessed, OneVerdictPerTarget, FailureIsSaid
<1> QED BY <1>6, <1>7, <1>8, <1>9, <1>10, <1>12, <1>13, <1>14

-----------------------------------------------------------------------------
LEMMA StutterInv ==
  ASSUME IInv, UNCHANGED vars
  PROVE  IInv'
<1> USE DEF IInv
<1>0. UNCHANGED <<check, here, target, changes, pc, listed, known, todo, left, ns, out, lost,
                  steady, seen, calm>>
  BY DEF vars
<1>1. TypeOK' /\ StepInv' /\ StartInv' /\ KnownInv' /\ TodoInv' /\ SteadyInv' /\ ListsInv' /\ NotYetOK'
  BY <1>0 DEF TypeOK, StepInv, StartInv, KnownInv, TodoInv, SteadyInv, ListsInv, NotYetOK
<1>2. CalmInv' /\ EachInv' /\ CacheInv' /\ SaidInv' /\ CoverageInv'
  BY <1>0 DEF CalmInv, Orderly, EachInv, CacheInv, SaidInv, CoverageInv, Alarms
<1>3. AlarmWitnessed' /\ QuietWhileGrowing' /\ OKWitnessed' /\ OneVerdictPerTarget' /\ FailureIsSaid'
  BY <1>0 DEF AlarmWitnessed, QuietWhileGrowing, OKWitnessed, OneVerdictPerTarget, FailureIsSaid, Alarms
<1> QED BY <1>1, <1>2, <1>3

LEMMA StepsInv == IInv /\ [Next]_vars => IInv'
<1> SUFFICES ASSUME IInv, [Next]_vars PROVE IInv'
  OBVIOUS
<1>1. CASE ClusterChanges
  <2>1. here \subseteq Referrers /\ target \in [Targets -> TargetState]
    BY DEF IInv, TypeOK
  <2>2. ASSUME NEW r \in Referrers, ReferrerComes(r) PROVE IInv'
    <3>1. here \cup {r} \in SUBSET Referrers
      BY <2>1
    <3> QED BY <2>1, <2>2, <3>1, ChangeInv DEF ReferrerComes
  <2>3. ASSUME NEW r \in Referrers, ReferrerGoes(r) PROVE IInv'
    <3>1. here \ {r} \in SUBSET Referrers
      BY <2>1
    <3> QED BY <2>1, <2>3, <3>1, ChangeInv DEF ReferrerGoes
  <2>4. ASSUME NEW t \in Targets, NEW st \in TargetState, TargetBecomes(t, st) PROVE IInv'
    <3>1. here \in SUBSET Referrers /\ [target EXCEPT ![t] = st] \in [Targets -> TargetState]
      BY <2>1
    <3> QED BY <2>4, <3>1, ChangeInv DEF TargetBecomes
  <2> QED BY <1>1, <2>2, <2>3, <2>4 DEF ClusterChanges
<1>2. CASE CheckSteps
  <2>1. ASSUME NEW r \in Referrers, NEW t \in Targets, LookUp(r, t) PROVE IInv'
    BY <2>1, EachLookUpInv, GetServiceInv DEF LookUp
  <2> QED
    BY <1>2, <2>1, ListReferrersInv, ListKindInv, ListTargetsInv, ReportInv, EachDoneInv,
       ListPDBsInv, ListWorkloadsInv, NamespacesDoneInv DEF CheckSteps
<1>3. CASE UNCHANGED vars
  BY <1>3, StutterInv
<1> QED BY <1>1, <1>2, <1>3 DEF Next
-----------------------------------------------------------------------------
(* IInv is inductive: it holds of every state of a Run of the eight        *)
(* checks, however the cluster changes and whichever reads fail.           *)
THEOREM Inductive == Spec => []IInv
BY InitInv, StepsInv, PTL DEF Spec

(* The locals of the eight Run methods keep their types. *)
THEOREM TypeCorrect == Spec => []TypeOK
<1>1. IInv => TypeOK
  BY DEF IInv
<1> QED BY Inductive, <1>1, PTL

(* What is called missing was missing at some moment of the Run, or could  *)
(* not be read by pods.missingRefs (pods_missingrefs.go 32-57) or by       *)
(* ingresses.danglingService (ingresses.go 38-62).                         *)
THEOREM NoUnfoundedAlarm == Spec => []AlarmWitnessed
<1>1. IInv => AlarmWitnessed
  BY DEF IInv
<1> QED BY Inductive, <1>1, PTL

(* Listing what refers before what is referred to keeps all checks but     *)
(* pdbs.coverage silent about objects that are being created.              *)
THEOREM OrderOfReadsSuffices == Spec => []QuietWhileGrowing
<1>1. IInv => QuietWhileGrowing
  BY DEF IInv
<1> QED BY Inductive, <1>1, PTL

(* An OK means that every reference that was there throughout was resolved *)
(* at some moment, but for what the checks that drop errors did not read.  *)
THEOREM OKIsFounded == Spec => []OKWitnessed
<1>1. IInv => OKWitnessed
  BY DEF IInv
<1> QED BY Inductive, <1>1, PTL

(* The lists, and the map svcByKey of ingresses.go 35, make a check say    *)
(* the same of a target to all that refer to it.                           *)
THEOREM Consistent == Spec => []OneVerdictPerTarget
<1>1. IInv => OneVerdictPerTarget
  BY DEF IInv
<1> QED BY Inductive, <1>1, PTL

(* services.noEndpoints, ingresses.missingClass and pvc.lostBoundPV report *)
(* UNKNOWN whenever one of their reads failed.                             *)
THEOREM FailureReported == Spec => []FailureIsSaid
<1>1. IInv => FailureIsSaid
  BY DEF IInv
<1> QED BY Inductive, <1>1, PTL
=============================================================================
