----------------------------- MODULE JoinChecks -----------------------------
(***************************************************************************)
(* The checks of internal/checks that follow references: they list objects *)
(* that refer to others and look those up by further reads of the API,     *)
(* while the cluster changes and calls fail.  One such check runs; `check' *)
(* says which.                                                             *)
(*                                                                         *)
(*   check                      referrer     target                        *)
(*   pods.missingRefs           pod          ConfigMap, Secret,            *)
(*                                           ServiceAccount, claim         *)
(*   services.noBackends        service      pods its selector matches     *)
(*   services.noEndpoints       service      its EndpointSlices            *)
(*   ingresses.danglingService  ingress      backend service               *)
(*   ingresses.missingClass     ingress      IngressClass                  *)
(*   hpas.missingTarget         autoscaler   scaled workload               *)
(*   pvc.lostBoundPV            claim        volume                        *)
(*   pdbs.coverage              workload     disruption budget             *)
(*                                                                         *)
(* A target is absent, ready, or there without what is wanted of it        *)
(* ("bare": a service without the port, slices without a ready endpoint).  *)
(* All ingresses that name a service name one port of it.                  *)
(***************************************************************************)
EXTENDS Integers, FiniteSets

CONSTANTS
  Checks,       \* the checks that may be the one that runs
  Referrers, Targets,
  Refs,         \* the targets each referrer names
  Optional,     \* <<referrer, target>>: named, but never followed
  KindOf,       \* what a target is to pods.missingRefs, a workload to pdbs.coverage
  Namespaces, NsOf,
  Nothing,      \* the resource of a finding that has none
  MaxChanges    \* bound on the changes of the cluster while the check runs

JoinIDs == {"pods.missingRefs", "services.noBackends", "services.noEndpoints",
            "ingresses.danglingService", "ingresses.missingClass", "hpas.missingTarget",
            "pvc.lostBoundPV", "pdbs.coverage"}

ASSUME ChecksAssumption == Checks \subseteq JoinIDs
ASSUME RefsAssumption == Refs \in [Referrers -> SUBSET Targets]
ASSUME KindAssumption ==
  /\ \A t \in Targets : KindOf[t] \in {"cm", "secret", "sa", "pvc"}
  /\ \A r \in Referrers : KindOf[r] \in {"deployments", "statefulsets"}
(* References stay within a namespace. *)
ASSUME NamespaceAssumption ==
  /\ NsOf \in [Referrers \cup Targets -> Namespaces]
  /\ \A r \in Referrers : \A t \in Refs[r] : NsOf[t] = NsOf[r]
ASSUME NothingAssumption == Nothing \notin Referrers \cup Targets
ASSUME MaxChangesAssumption == MaxChanges \in Nat

VARIABLES
  check,
  \* The cluster:
  here, target, changes,
  \* The check's Run:
  pc, listed, known, todo, left, ns, out,
  \* What has been so since it began:
  lost,         \* objects a read that failed would have told it of
  steady,       \* referrers that were there all the while
  seen,         \* the states each target has been in
  calm          \* no reference dangled and no target was lost

cluster == <<here, target, changes>>
history == <<steady, seen, calm>>
vars == <<check, here, target, changes, pc, listed, known, todo, left, ns, out, lost,
          steady, seen, calm>>

TargetState == {"absent", "bare", "ready"}
Steps == {"referrers", "cm", "secret", "sa", "pvc", "targets", "report", "each", "pdbs",
          "deployments", "statefulsets", "done"}

Finding(r, t, s) == [on |-> r, to |-> t, status |-> s]
Findings == [on : Referrers \cup {Nothing}, to : Targets \cup {Nothing},
             status : {"OK", "WARN", "CRIT", "UNKNOWN"}]

(* The types of the cluster, the check's locals and the history. *)
TypeOK ==
  /\ check \in Checks
  /\ here \subseteq Referrers /\ target \in [Targets -> TargetState]
  /\ changes \in 0..MaxChanges
  /\ pc \in Steps
  /\ listed \subseteq Referrers
  /\ known \in [Targets -> TargetState \cup {"?"}]
  /\ todo \subseteq Referrers \X Targets
  /\ left \subseteq Namespaces /\ ns \in Namespaces \cup {Nothing}
  /\ out \subseteq Findings
  /\ lost \subseteq Referrers \cup Targets
  /\ steady \subseteq Referrers
  /\ seen \in [Targets -> SUBSET TargetState]
  /\ calm \in BOOLEAN
-----------------------------------------------------------------------------
(* The references a check looks up: not the optional ones of a pod, not a  *)
(* service without selector or with an external name, an ingress without a *)
(* class, a claim without a volume, an autoscaler of an unknown kind or a  *)
(* workload of a single replica.                                           *)
Followed(r) == {t \in Refs[r] : <<r, t>> \notin Optional}

(* Does a target in this state satisfy a reference of check c? *)
Resolves(c, st) ==
  IF c \in {"ingresses.danglingService", "services.noEndpoints"}
  THEN st = "ready" ELSE st # "absent"

(* Mutant: claims and classes are looked up before what refers to them. *)
OrderSwapped(c) ==
  CASE c = "pods.missingRefs" ->
         [start |-> "cm", cm |-> "secret", secret |-> "sa", sa |-> "pvc",
          pvc |-> "referrers", referrers |-> "report"]
    [] c \in {"ingresses.missingClass", "pvc.lostBoundPV"} ->
         [start |-> "targets", targets |-> "referrers", referrers |-> "report"]
    [] c = "pdbs.coverage" ->
         [start |-> "pdbs", pdbs |-> "deployments", deployments |-> "statefulsets",
          statefulsets |-> "pdbs"]
    [] OTHER -> [start |-> "referrers", referrers |-> "each"]

(* The order in which a check makes its reads. *)
Order(c) ==
  CASE c = "pods.missingRefs" ->
         [start |-> "referrers", referrers |-> "cm", cm |-> "secret", secret |-> "sa",
          sa |-> "pvc", pvc |-> "report"]
    [] c \in {"ingresses.missingClass", "pvc.lostBoundPV"} ->
         [start |-> "referrers", referrers |-> "targets", targets |-> "report"]
    [] c = "pdbs.coverage" ->
         [start |-> "pdbs", pdbs |-> "deployments", deployments |-> "statefulsets",
          statefulsets |-> "pdbs"]
    [] OTHER -> [start |-> "referrers", referrers |-> "each"]

(* Every referrer that is there has what it refers to. *)
Orderly(c, h, tg) == \A r \in h : \A t \in Followed(r) : Resolves(c, tg[t])

Init ==
  /\ check \in Checks
  /\ here \in SUBSET Referrers /\ target \in [Targets -> TargetState] /\ changes = 0
  /\ pc = Order(check).start
  /\ listed = {} /\ known = [t \in Targets |-> "?"] /\ todo = {}
  /\ left = Namespaces /\ ns = Nothing
  /\ out = {} /\ lost = {}
  /\ steady = here /\ seen = [t \in Targets |-> {target[t]}]
  /\ calm = Orderly(check, here, target)
-----------------------------------------------------------------------------
(* The cluster changes while the check runs.                               *)

Change(h, tg) ==
  /\ pc # "done"
  /\ changes < MaxChanges
  /\ here' = h /\ target' = tg /\ changes' = changes + 1
  /\ steady' = steady \cap h
  /\ seen' = [t \in Targets |-> seen[t] \cup {tg[t]}]
  /\ calm' = (/\ calm
              /\ Orderly(check, h, tg)
              /\ \A t \in Targets : Resolves(check, target[t]) => Resolves(check, tg[t]))
  /\ UNCHANGED <<check, pc, listed, known, todo, left, ns, out, lost>>

ReferrerComes(r) == r \notin here /\ Change(here \cup {r}, target)

ReferrerGoes(r) == r \in here /\ Change(here \ {r}, target)

TargetBecomes(t, st) == target[t] # st /\ Change(here, [target EXCEPT ![t] = st])
-----------------------------------------------------------------------------
(* What a Run returns.                                                     *)

AllOK == {Finding(Nothing, Nothing, "OK")}

(* unknownFromErr: one finding, for the check as a whole. *)
ReadFailed(objects) ==
  /\ out' = {Finding(Nothing, Nothing, "UNKNOWN")}
  /\ lost' = lost \cup objects
  /\ pc' = "done"

(* okFinding when there is nothing to report. *)
OrOK(fs) == IF fs = {} THEN AllOK ELSE fs

(* The first list of every check but pdbs.coverage. *)
ListReferrers ==
  /\ pc = "referrers"
  /\ \/ /\ listed' = here
        /\ todo' = {p \in here \X Targets : p[2] \in Followed(p[1])}
        /\ pc' = Order(check)[pc]
        /\ UNCHANGED <<out, lost>>
     \/ /\ ReadFailed(Referrers)
        /\ UNCHANGED <<listed, todo>>
  /\ UNCHANGED <<check, cluster, known, left, ns, history>>
-----------------------------------------------------------------------------
(* pods.missingRefs: four more lists, one per kind.  An error is dropped   *)
(* and the list is then empty.                                             *)
ListKind(k) ==
  /\ check = "pods.missingRefs" /\ pc = k
  /\ \/ /\ known' = [t \in Targets |-> IF KindOf[t] = k THEN target[t] ELSE known[t]]
        /\ UNCHANGED lost
     \/ /\ known' = [t \in Targets |-> IF KindOf[t] = k THEN "absent" ELSE known[t]]
        /\ lost' = lost \cup {t \in Targets : KindOf[t] = k}
  /\ pc' = Order(check)[pc]
  /\ UNCHANGED <<check, cluster, listed, todo, left, ns, out, history>>

(* Mutant: an error of the second list is dropped here too. *)
ListTargetsDropsError ==
  /\ check \in {"ingresses.missingClass", "pvc.lostBoundPV"} /\ pc = "targets"
  /\ \/ known' = target /\ UNCHANGED lost
     \/ known' = [t \in Targets |-> "absent"] /\ lost' = lost \cup Targets
  /\ pc' = Order(check)[pc]
  /\ UNCHANGED <<check, cluster, listed, todo, left, ns, out, history>>

(* ingresses.missingClass and pvc.lostBoundPV: one more list. *)
ListTargets ==
  /\ check \in {"ingresses.missingClass", "pvc.lostBoundPV"} /\ pc = "targets"
  /\ \/ known' = target /\ pc' = Order(check)[pc] /\ UNCHANGED <<out, lost>>
     \/ ReadFailed(Targets) /\ UNCHANGED known
  /\ UNCHANGED <<check, cluster, listed, todo, left, ns, history>>

(* What the lists say of every reference, at the end of the three checks   *)
(* above.                                                                  *)
Report ==
  /\ pc = "report"
  /\ out' = OrOK({Finding(p[1], p[2], "CRIT") :
                    p \in {q \in todo : ~ Resolves(check, known[q[2]])}})
  /\ todo' = {}
  /\ pc' = "done"
  /\ UNCHANGED <<check, cluster, listed, known, left, ns, lost, history>>
-----------------------------------------------------------------------------
(* The checks that look up one reference after another.                    *)

Take(r, t) ==
  /\ pc = "each"
  /\ <<r, t>> \in todo
  /\ todo' = todo \ {<<r, t>>}
  /\ UNCHANGED <<check, cluster, pc, listed, left, ns, history>>

(* services.noBackends: an error passes over the service. *)
ListBackends(r, t) ==
  /\ check = "services.noBackends"
  /\ Take(r, t)
  /\ \/ /\ out' = IF Resolves(check, target[t]) THEN out ELSE out \cup {Finding(r, t, "WARN")}
        /\ UNCHANGED lost
     \/ lost' = lost \cup {t} /\ UNCHANGED out
  /\ UNCHANGED known

(* Mutant: an endpoint that is not ready counts. *)
ListEndpointsAny(r, t) ==
  /\ check = "services.noEndpoints"
  /\ Take(r, t)
  /\ \/ /\ out' = IF target[t] # "absent" THEN out ELSE out \cup {Finding(r, t, "WARN")}
        /\ UNCHANGED lost
     \/ out' = out \cup {Finding(r, t, "UNKNOWN")} /\ lost' = lost \cup {t}
  /\ UNCHANGED known

(* services.noEndpoints: an error is a finding about the service. *)
ListEndpoints(r, t) ==
  /\ check = "services.noEndpoints"
  /\ Take(r, t)
  /\ \/ /\ out' = IF Resolves(check, target[t]) THEN out ELSE out \cup {Finding(r, t, "WARN")}
        /\ UNCHANGED lost
     \/ out' = out \cup {Finding(r, t, "UNKNOWN")} /\ lost' = lost \cup {t}
  /\ UNCHANGED known

(* Mutant: the services are not remembered. *)
GetServiceAnew(r, t) ==
  /\ check = "ingresses.danglingService"
  /\ Take(r, t)
  /\ \/ known' = [known EXCEPT ![t] = target[t]] /\ UNCHANGED lost
     \/ known' = [known EXCEPT ![t] = "absent"] /\ lost' = lost \cup {t}
  /\ out' = IF Resolves(check, known'[t]) THEN out ELSE out \cup {Finding(r, t, "CRIT")}

(* ingresses.danglingService: the first backend that names a service gets  *)
(* it, and the answer, an error included, is kept for the others.          *)
GetService(r, t) ==
  /\ check = "ingresses.danglingService"
  /\ Take(r, t)
  /\ \/ known[t] # "?" /\ UNCHANGED <<known, lost>>
     \/ known[t] = "?" /\ known' = [known EXCEPT ![t] = target[t]] /\ UNCHANGED lost
     \/ known[t] = "?" /\ known' = [known EXCEPT ![t] = "absent"] /\ lost' = lost \cup {t}
  /\ out' = IF Resolves(check, known'[t]) THEN out ELSE out \cup {Finding(r, t, "CRIT")}

(* Mutant: any error counts as not found. *)
GetWorkloadAnyError(r, t) ==
  /\ check = "hpas.missingTarget"
  /\ Take(r, t)
  /\ \/ /\ out' = IF Resolves(check, target[t]) THEN out ELSE out \cup {Finding(r, t, "CRIT")}
        /\ UNCHANGED lost
     \/ out' = out \cup {Finding(r, t, "CRIT")} /\ lost' = lost \cup {t}
  /\ UNCHANGED known

(* hpas.missingTarget: of the errors only NotFound means that the workload *)
(* is missing.                                                             *)
GetWorkload(r, t) ==
  /\ check = "hpas.missingTarget"
  /\ Take(r, t)
  /\ \/ /\ out' = IF Resolves(check, target[t]) THEN out ELSE out \cup {Finding(r, t, "CRIT")}
        /\ UNCHANGED lost
     \/ lost' = lost \cup {t} /\ UNCHANGED out
  /\ UNCHANGED known

EachDone ==
  /\ pc = "each" /\ todo = {}
  /\ out' = OrOK(out)
  /\ pc' = "done"
  /\ UNCHANGED <<check, cluster, listed, known, todo, left, ns, lost, history>>
-----------------------------------------------------------------------------
(* pdbs.coverage: in each protected namespace the budgets, then the        *)
(* Deployments, then the StatefulSets.  Without its budgets a namespace is *)
(* left out; without a list of workloads those are.                        *)

ListPDBs(n) ==
  /\ pc = "pdbs" /\ n \in left
  /\ left' = left \ {n}
  /\ \/ /\ ns' = n
        /\ known' = [t \in Targets |-> IF NsOf[t] = n THEN target[t] ELSE "?"]
        /\ pc' = Order(check)[pc]
        /\ UNCHANGED lost
     \/ /\ lost' = lost \cup {t \in Targets : NsOf[t] = n}
        /\ UNCHANGED <<ns, known, pc>>
  /\ UNCHANGED <<check, cluster, listed, todo, out, history>>

covered(r) == \E t \in Followed(r) : known[t] \in {"bare", "ready"}

ListWorkloads(kind) ==
  /\ check = "pdbs.coverage" /\ pc = kind
  /\ LET items == {r \in here : KindOf[r] = kind /\ NsOf[r] = ns}
     IN \/ /\ listed' = listed \cup items
           /\ out' = out \cup {Finding(p[1], p[2], "WARN") :
                       p \in {q \in items \X Targets : q[2] \in Followed(q[1]) /\ ~ covered(q[1])}}
           /\ UNCHANGED lost
        \/ /\ lost' = lost \cup {r \in Referrers : KindOf[r] = kind /\ NsOf[r] = ns}
           /\ UNCHANGED <<listed, out>>
  /\ pc' = Order(check)[pc]
  /\ UNCHANGED <<check, cluster, known, todo, left, ns, history>>

NamespacesDone ==
  /\ pc = "pdbs" /\ left = {}
  /\ out' = OrOK(out)
  /\ pc' = "done"
  /\ UNCHANGED <<check, cluster, listed, known, todo, left, ns, lost, history>>
-----------------------------------------------------------------------------
ClusterChanges ==
  \/ \E r \in Referrers : ReferrerComes(r) \/ ReferrerGoes(r)
  \/ \E t \in Targets, st \in TargetState : TargetBecomes(t, st)

LookUp(r, t) ==
  \/ ListBackends(r, t)
  \/ ListEndpoints(r, t)
  \/ GetService(r, t)
  \/ GetWorkload(r, t)

CheckSteps ==
  \/ ListReferrers
  \/ \E k \in {"cm", "secret", "sa", "pvc"} : ListKind(k)
  \/ ListTargets
  \/ Report
  \/ \E r \in Referrers, t \in Targets : LookUp(r, t)
  \/ EachDone
  \/ \E n \in Namespaces : ListPDBs(n)
  \/ \E kind \in {"deployments", "statefulsets"} : ListWorkloads(kind)
  \/ NamespacesDone

Next == ClusterChanges \/ CheckSteps

Spec == Init /\ [][Next]_vars

-----------------------------------------------------------------------------
Alarms == {f \in out : f.status \in {"WARN", "CRIT"}}

(* Checks to which a read that fails is an object that does not exist.     *)
FailureIsAbsence == {"pods.missingRefs", "ingresses.danglingService"}

(* Checks that pass over what they could not read. *)
FailureIsPassedOver == {"services.noBackends", "hpas.missingTarget", "pdbs.coverage"}

(* Only a reference that is followed, of a referrer that was listed, is    *)
(* called missing, and only if the target did fail it at some moment while *)
(* the check ran, or the read of the target failed and the check is one of *)
(* the two that drop the error (pods_missingrefs.go 32-35, ingresses.go    *)
(* 45-46).                                                                 *)
AlarmWitnessed ==
  \A f \in Alarms :
    /\ f.on \in listed /\ f.to \in Followed(f.on)
    /\ \/ \E st \in seen[f.to] : ~ Resolves(check, st)
       \/ check \in FailureIsAbsence /\ f.to \in lost

(* In a cluster in which targets are made before what refers to them, and  *)
(* none is taken away, no check but pdbs.coverage raises an alarm, however *)
(* much is added while it reads: the referrers are listed before the       *)
(* targets (pv_pvc_health.go 36-40, pods_missingrefs.go 26-35, ingresses   *)
(* 154-158 and the checks that look up one by one).                        *)
QuietWhileGrowing ==
  calm /\ check # "pdbs.coverage" => \A f \in Alarms : f.to \in lost

(* An OK is not given over the head of a reference that dangled all the    *)
(* while: a referrer that was there throughout had its target at some      *)
(* moment, unless a check that passes over errors could not read one of    *)
(* the two (services_nobackends.go 44-46, hpas_missingtarget.go 34-41,     *)
(* pdbs.go 42-44).                                                         *)
OKWitnessed ==
  pc = "done" /\ out = AllOK =>
    \A r \in steady : Followed(r) # {} =>
      \/ check # "pdbs.coverage" /\ \A t \in Followed(r) :
             \/ \E st \in seen[t] : Resolves(check, st)
             \/ check \in FailureIsPassedOver /\ t \in lost
      \/ check = "pdbs.coverage" /\
             \/ r \in lost
             \/ \E t \in Followed(r) : t \in lost \/ \E st \in seen[t] : Resolves(check, st)

(* Checks that take their targets from one list, or remember what they     *)
(* got, never contradict themselves: either every listed referrer of a     *)
(* target is told that it is missing, or none is (ingresses.go 41-55,      *)
(* pods_missingrefs.go 37-52, pv_pvc_health.go 44-62).                     *)
OneVerdictPerTarget ==
  pc = "done" /\ check \in {"pods.missingRefs", "ingresses.danglingService",
                            "ingresses.missingClass", "pvc.lostBoundPV"} =>
    \A f \in Alarms : \A r \in listed :
      f.to \in Followed(r) => \E g \in Alarms : g.on = r /\ g.to = f.to

(* The checks that report errors report every one: what a failed read      *)
(* would have told is never left out of the report without an UNKNOWN      *)
(* (services_noendpoints.go 38-46, ingresses.go 155-161, pv_pvc_health.go  *)
(* 37-43).                                                                 *)
FailureIsSaid ==
  /\ pc = "done" /\ lost # {}
  /\ check \in {"services.noEndpoints", "ingresses.missingClass", "pvc.lostBoundPV"}
  => \E f \in out : f.status = "UNKNOWN"
-----------------------------------------------------------------------------
(* The inductive invariant.                                                *)

EachIDs == {"services.noBackends", "services.noEndpoints", "ingresses.danglingService",
            "hpas.missingTarget"}

ListIDs == {"pods.missingRefs", "ingresses.missingClass", "pvc.lostBoundPV"}

(* Where each check can be. *)
StepInv ==
  /\ pc = "referrers" => check # "pdbs.coverage"
  /\ pc \in {"cm", "secret", "sa", "pvc", "targets", "report"} => check \in ListIDs
  /\ pc = "each" => check \in EachIDs
  /\ pc \in {"pdbs", "deployments", "statefulsets"} => check = "pdbs.coverage"

(* Nothing is known before the referrers are listed. *)
StartInv ==
  /\ pc = "referrers" =>
       /\ listed = {} /\ out = {} /\ todo = {} /\ lost = {}
       /\ \A t \in Targets : known[t] = "?"
  /\ check \in ListIDs /\ pc # "done" => out = {}

(* What is known was so, or is the answer of a read that failed. *)
KnownInv ==
  \A t \in Targets :
    /\ target[t] \in seen[t]
    /\ known[t] # "?" =>
         \/ known[t] \in seen[t]
         \/ check \in FailureIsAbsence /\ t \in lost /\ known[t] = "absent"

(* On a calm cluster what the listed referrers name stays resolved. *)
CalmInv ==
  calm => /\ Orderly(check, here, target)
          /\ Orderly(check, listed, target)
          /\ check # "pdbs.coverage" =>
               \A r \in listed : \A t \in Followed(r) :
                 known[t] = "?" \/ t \in lost \/ Resolves(check, known[t])

(* What is left to look up. *)
TodoInv ==
  /\ \A p \in todo : p[1] \in listed /\ p[2] \in Followed(p[1])
  /\ pc \in {"cm", "secret", "sa", "pvc", "targets", "report"} =>
       \A r \in listed : \A t \in Followed(r) : <<r, t>> \in todo

(* A referrer that was there all the while is listed. *)
SteadyInv ==
  /\ steady \subseteq here
  /\ check # "pdbs.coverage" /\ pc \notin {"referrers", "done"} => steady \subseteq listed

(* The lists of pods.missingRefs and of the two like it are complete when  *)
(* they are used.                                                          *)
ListsInv ==
  \A t \in Targets :
    /\ check = "pods.missingRefs" /\ known[t] = "?" =>
           \/ pc \in {"referrers", "done", "cm"}
           \/ pc = "secret" /\ KindOf[t] # "cm"
           \/ pc = "sa" /\ KindOf[t] \notin {"cm", "secret"}
           \/ pc = "pvc" /\ KindOf[t] = "pvc"
    /\ check \in {"ingresses.missingClass", "pvc.lostBoundPV"} /\ pc = "report" => known[t] # "?"

(* Every reference taken off the list has left its mark. *)
EachInv ==
  pc = "each" =>
    \A r \in listed : \A t \in Followed(r) :
      \/ <<r, t>> \in todo
      \/ \E f \in out : f.on = r /\ f.to = t /\ f.status # "OK"
      \/ \E st \in seen[t] : Resolves(check, st)
      \/ check \in FailureIsPassedOver /\ t \in lost

(* ingresses.danglingService goes by what it remembers. *)
CacheInv ==
  check = "ingresses.danglingService" /\ pc = "each" =>
    /\ \A f \in Alarms : known[f.to] # "?" /\ ~ Resolves(check, known[f.to])
    /\ \A r \in listed : \A t \in Followed(r) :
         \/ <<r, t>> \in todo
         \/ known[t] # "?" /\ Resolves(check, known[t])
         \/ \E f \in Alarms : f.on = r /\ f.to = t

(* services.noEndpoints has said so whenever a read failed, and the two    *)
(* list checks stop at the first.                                          *)
SaidInv ==
  /\ check = "services.noEndpoints" /\ lost # {} => \E f \in out : f.status = "UNKNOWN"
  /\ check \in {"ingresses.missingClass", "pvc.lostBoundPV"} /\ pc # "done" => lost = {}

(* pdbs.coverage: the budgets of the namespace it is in are known, and     *)
(* every workload that was there all the while is still to come or has     *)
(* been dealt with.                                                        *)
CoverageInv ==
  check = "pdbs.coverage" =>
    /\ pc \in {"deployments", "statefulsets"} =>
         ns \in Namespaces /\ \A t \in Targets : NsOf[t] = ns => known[t] # "?"
    /\ pc # "done" => \A r \in steady : Followed(r) # {} =>
         \/ NsOf[r] \in left
         \/ NsOf[r] = ns /\ (pc = "deployments" \/ (pc = "statefulsets" /\ KindOf[r] = pc))
         \/ r \in lost
         \/ \E f \in out : f.on = r /\ f.status # "OK"
         \/ \E t \in Followed(r) : t \in lost \/ \E st \in seen[t] : Resolves(check, st)

(* The OK finding comes last. *)
NotYetOK == pc # "done" => \A f \in out : f.status # "OK"

(* The invariant that the steps of the check and of the cluster preserve:  *)
(* what has been read was true when it was read, and what is still to be   *)
(* read is still accounted for (the Run methods of the eight checks).      *)
IInv ==
  /\ TypeOK
  /\ StepInv /\ StartInv /\ KnownInv /\ CalmInv /\ TodoInv /\ SteadyInv /\ ListsInv
  /\ EachInv /\ CacheInv /\ SaidInv /\ CoverageInv
  /\ NotYetOK
  /\ AlarmWitnessed /\ QuietWhileGrowing /\ OKWitnessed /\ OneVerdictPerTarget /\ FailureIsSaid
=============================================================================
