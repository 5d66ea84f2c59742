---------------------------- MODULE ScopeProofs -----------------------------
(***************************************************************************)
(* Proofs about Scope, for every registry, every set of contexts and of    *)
(* command lines, and any number of changes of the cluster.                *)
(***************************************************************************)
EXTENDS Scope, TLAPS

LEMMA FlagsFacts == \A f \in Flags : /\ f.mode \in {"auto", "in-cluster", "out-of-cluster", "other"}
                                     /\ f.context \in Contexts \cup {None}
                                     /\ f.namespace \in {None, "team"} /\ f.all \in BOOLEAN
                                     /\ f.distro \in Distros \cup {"auto", "other"}
BY FlagsAssumption DEF FlagsType

LEMMA InitInv == Init => IInv
<1> SUFFICES ASSUME Init PROVE IInv
  OBVIOUS
<1>1. TypeOK
  <2>1. NoEnv \in Envs
    BY DEF NoEnv, Envs
  <2>2. 0 \in 0..MaxChanges /\ [m \in Marks |-> "no"] \in [Marks -> {"no", "error", "canceled", "deadline"}]
    BY MaxChangesAssumption
  <2> QED BY <2>1, <2>2 DEF Init, TypeOK
<1>2. DetectInv /\ ListInv /\ EnvInv /\ TimeoutInv /\ DetectedIsBest /\ DeadlineNeverMisleads
      /\ RefusedBeforeAsking
  BY DEF Init, DetectInv, ListInv, EnvInv, TimeoutInv, DetectedIsBest, DeadlineNeverMisleads,
     RefusedBeforeAsking, Detecting, Detected, Running, Marks
<1>3. CtxInv
  BY DEF Init, CtxInv, Running
<1>4. LabelNamesCluster /\ AllOnlyIfAsked
  BY DEF Init, NoEnv, LabelNamesCluster, AllOnlyIfAsked
<1> QED BY <1>1, <1>2, <1>3, <1>4 DEF IInv

(* kube.Build: what every way of resolving the configuration has in common. *)
LEMMA BuiltFacts ==
  ASSUME TypeOK, NEW e \in Built
  PROVE  /\ e \in Envs /\ e.cluster # None /\ flags.mode # "other"
         /\ e.label = IF e.cluster = Pod THEN "host" ELSE e.cluster
         /\ flags.context # None => e.cluster = flags.context \/ e.inCluster
         /\ (IF e.all THEN None ELSE e.namespace) = None <=> flags.all
<1>1. flags \in Flags /\ current \in Contexts
  BY DEF TypeOK
<1>2. /\ flags.context \in Contexts \cup {None} /\ flags.namespace \in {None, "team"}
      /\ flags.all \in BOOLEAN
  BY <1>1, FlagsFacts
<1>3. e \in Envs /\ resolveConfig(e) /\ e.namespace = Namespace /\ e.all = flags.all
  BY DEF Built
<1>4. flags.mode # "other" /\ (inClusterEnv(e) \/ loadKubeconfig(e))
  BY <1>3 DEF resolveConfig
<1>5. /\ e.cluster # None /\ e.label = IF e.cluster = Pod THEN "host" ELSE e.cluster
      /\ flags.context # None => e.cluster = flags.context \/ e.inCluster
  BY <1>1, <1>2, <1>4, NamesAssumption DEF inClusterEnv, loadKubeconfig, Clusters
<1>6. None # "default" => ((IF e.all THEN None ELSE e.namespace) = None <=> flags.all)
  BY <1>2, <1>3, NamesAssumption DEF Namespace
<1> QED BY <1>3, <1>4, <1>5, <1>6, NamesAssumption

LEMMA BuildInv ==
  ASSUME IInv, Build
  PROVE  IInv'
<1> USE DEF IInv
<1>0. /\ pc = "build"
      /\ UNCHANGED <<flags, pod, kubeconfig, current, marks, changes, ctx, distro, list, during, missed>>
      /\ \/ pc' = "error" /\ env' = env
         \/ pc' = "timeout" /\ env' \in Built
  BY DEF Build, machine, history
<1>1. TypeOK'
  BY <1>0, BuiltFacts DEF TypeOK
<1>2. DetectInv' /\ CtxInv' /\ ListInv' /\ TimeoutInv' /\ DetectedIsBest' /\ DeadlineNeverMisleads'
      /\ RefusedBeforeAsking'
  BY <1>0 DEF DetectInv, CtxInv, ListInv, TimeoutInv, DetectedIsBest, DeadlineNeverMisleads,
     RefusedBeforeAsking, Detecting, Detected, Running, Marks
<1>3. EnvInv' /\ LabelNamesCluster' /\ AllOnlyIfAsked'
  BY <1>0, BuiltFacts DEF EnvInv, LabelNamesCluster, AllOnlyIfAsked, NamespaceForList
<1> QED BY <1>1, <1>2, <1>3

LEMMA ParseTimeoutInv ==
  ASSUME IInv, ParseTimeout
  PROVE  IInv'
<1> USE DEF IInv
<1>0. /\ pc = "timeout"
      /\ UNCHANGED <<flags, pod, kubeconfig, current, marks, changes, env, distro, list, during, missed>>
      /\ \/ pc' = "error" /\ ctx' = ctx
         \/ pc' = "distro" /\ ctx' = "live" /\ flags.timeout = "valid"
  BY DEF ParseTimeout, machine, history
<1>1. TypeOK'
  BY <1>0 DEF TypeOK
<1>2. DetectInv' /\ CtxInv' /\ ListInv' /\ TimeoutInv' /\ DetectedIsBest' /\ DeadlineNeverMisleads'
      /\ RefusedBeforeAsking'
  BY <1>0 DEF DetectInv, CtxInv, ListInv, TimeoutInv, DetectedIsBest, DeadlineNeverMisleads,
     RefusedBeforeAsking, Detecting, Detected, Running, Marks
<1>3. EnvInv' /\ LabelNamesCluster' /\ AllOnlyIfAsked'
  BY <1>0 DEF EnvInv, LabelNamesCluster, AllOnlyIfAsked, NamespaceForList
<1> QED BY <1>1, <1>2, <1>3

LEMMA ParseDistroInv ==
  ASSUME IInv, ParseDistro
  PROVE  IInv'
<1> USE DEF IInv
<1>0. /\ pc = "distro"
      /\ UNCHANGED <<flags, pod, kubeconfig, current, marks, changes, env, ctx, list, missed>>
      /\ \/ /\ flags.distro = "auto" /\ pc' = "rke2" /\ during' = {marks} /\ distro' = distro
         \/ /\ flags.distro \in Distros /\ pc' = "filter" /\ distro' = flags.distro
            /\ during' = during
         \/ /\ flags.distro = "other" /\ pc' = "error" /\ distro' = distro /\ during' = during
  BY DEF ParseDistro, machine
<1>1. TypeOK'
  BY <1>0 DEF TypeOK
<1>2. flags.distro = "auto" => flags.distro \notin Distros
  BY DEF Distros, Marks
<1>3. flags.distro = "other" => flags.distro \notin Distros
  BY DEF Distros, Marks
<1>4. DetectInv' /\ DetectedIsBest'
  BY <1>0, <1>2 DEF DetectInv, DetectedIsBest, Detecting, Detected, Marks, Looked
<1>5. CtxInv' /\ ListInv' /\ TimeoutInv' /\ DeadlineNeverMisleads' /\ RefusedBeforeAsking'
  BY <1>0, <1>3 DEF CtxInv, ListInv, TimeoutInv, DeadlineNeverMisleads, EnvInv,
     RefusedBeforeAsking, Detecting, Running, Marks
<1>6. EnvInv' /\ LabelNamesCluster' /\ AllOnlyIfAsked'
  BY <1>0 DEF EnvInv, LabelNamesCluster, AllOnlyIfAsked, NamespaceForList
<1> QED BY <1>1, <1>4, <1>5, <1>6

(* A read of DetectDistro: the mark is found and was there, or it is       *)
(* passed over and was then absent or not read.                            *)
LEMMA LookInv ==
  ASSUME IInv, NEW m \in Marks, Look(m)
  PROVE  IInv'
<1> USE DEF IInv
<1>0. /\ pc = m
      /\ UNCHANGED <<flags, pod, kubeconfig, current, marks, changes, env, ctx, list, during>>
  BY DEF Look, machine
<1>1. \/ m \in marks /\ pc' = "filter" /\ distro' = m /\ missed' = missed
      \/ m \notin marks /\ Fallthrough(m) /\ missed' = missed
      \/ /\ missed' = [missed EXCEPT ![m] = IF ctx = "live" THEN "error" ELSE ctx]
         /\ Fallthrough(m)
  BY DEF Look
<1>2. Fallthrough(m) =>
        \/ m = "rke2" /\ pc' = "k3s" /\ distro' = distro
        \/ m = "k3s" /\ pc' = "eks" /\ distro' = distro
        \/ m = "eks" /\ pc' = "filter" /\ distro' = "kubeadm"
  BY DEF Fallthrough, Marks
<1>3. /\ flags.distro = "auto" /\ during # {} /\ marks \in during
      /\ \A k \in Looked : Throughout(k) => missed[k] # "no"
      /\ ctx \in {"live", "canceled", "deadline"}
  BY <1>0 DEF DetectInv, Detecting, TypeOK, CtxInv, Running, Marks
<1>4. /\ missed' \in [Marks -> {"no", "error", "canceled", "deadline"}]
      /\ \A k \in Marks : missed[k] # "no" => missed'[k] # "no"
      /\ \A k \in Marks : missed'[k] = "deadline" => ctx = "deadline"
  <2>1. missed \in [Marks -> {"no", "error", "canceled", "deadline"}]
    BY DEF TypeOK
  <2>2. \A k \in Marks : missed[k] = "deadline" => ctx = "deadline"
    BY DEF CtxInv
  <2>3. CASE missed' = missed
    BY <2>1, <2>2, <2>3
  <2>4. CASE missed' = [missed EXCEPT ![m] = IF ctx = "live" THEN "error" ELSE ctx]
    BY <1>3, <2>1, <2>2, <2>4
  <2> QED BY <1>1, <2>3, <2>4
<1>5. TypeOK'
  <2>1. pc' \in {"filter", "k3s", "eks"} /\ distro' \in Distros \cup {None}
    BY <1>1, <1>2 DEF TypeOK, Distros, Marks
  <2> QED BY <1>0, <1>4, <2>1 DEF TypeOK
<1>6. Fallthrough(m) => (Throughout(m) => missed'[m] # "no")
  <2> SUFFICES ASSUME Fallthrough(m), Throughout(m) PROVE missed'[m] # "no"
    OBVIOUS
  <2>1. m \in marks
    BY <1>3 DEF Throughout
  <2>2. ~ (pc' = "filter" /\ distro' = m)
    BY <1>2
  <2>3. missed' = [missed EXCEPT ![m] = IF ctx = "live" THEN "error" ELSE ctx]
    BY <1>1, <2>1, <2>2
  <2> QED BY <1>3, <2>3 DEF TypeOK
<1>7. Looked = CASE m = "rke2" -> {} [] m = "k3s" -> {"rke2"} [] m = "eks" -> {"rke2", "k3s"}
  BY <1>0 DEF Looked, Marks
<1>8. DetectInv'
  <2>1. CASE pc' = "filter"
    BY <1>0, <1>1, <1>2, <2>1 DEF DetectInv, Detecting, Detected, Marks, Distros
  <2>2. CASE m = "rke2" /\ pc' = "k3s" /\ Fallthrough(m)
    BY <1>0, <1>3, <1>6, <2>2 DEF DetectInv, Detecting, Detected, Looked, Throughout
  <2>3. CASE m = "k3s" /\ pc' = "eks" /\ Fallthrough(m)
    <3>1. \A k \in {"rke2", "k3s"} : Throughout(k) => missed'[k] # "no"
      BY <1>3, <1>4, <1>6, <1>7, <2>3 DEF Marks
    <3> QED BY <1>0, <1>3, <2>3, <3>1 DEF DetectInv, Detecting, Detected, Looked, Throughout
  <2> QED BY <1>1, <1>2, <2>1, <2>2, <2>3
<1>9. DetectedIsBest'
  <2> SUFFICES ASSUME pc' = "filter" PROVE DetectedIsBest'
    BY <1>1, <1>2 DEF DetectedIsBest, Detected
  <2>1. CASE distro' = m /\ m \in marks
    <3>1. \A k \in Marks : Rank(k) < Rank(m) => k \in Looked
      BY <1>7 DEF Rank, Marks
    <3> QED BY <1>0, <1>3, <1>4, <2>1, <3>1 DEF DetectedIsBest, Throughout
  <2>2. CASE m = "eks" /\ Fallthrough(m) /\ distro' = "kubeadm"
    <3>1. \A k \in Marks : Throughout(k) => missed'[k] # "no"
      BY <1>3, <1>4, <1>6, <1>7, <2>2 DEF Marks
    <3> QED BY <1>0, <2>2, <3>1 DEF DetectedIsBest, Throughout, Marks
  <2> QED BY <1>1, <1>2, <2>1, <2>2
<1>10. CtxInv' /\ ListInv' /\ TimeoutInv' /\ DeadlineNeverMisleads' /\ RefusedBeforeAsking'
  BY <1>0, <1>1, <1>2, <1>3, <1>4 DEF CtxInv, ListInv, TimeoutInv, DeadlineNeverMisleads, EnvInv,
     RefusedBeforeAsking, Detecting, Running, Marks
<1>11. EnvInv' /\ LabelNamesCluster' /\ AllOnlyIfAsked'
  BY <1>0 DEF EnvInv, LabelNamesCluster, AllOnlyIfAsked, NamespaceForList, Marks
<1> QED BY <1>5, <1>8, <1>9, <1>10, <1>11

LEMMA FilterInv ==
  ASSUME IInv, Filter
  PROVE  IInv'
<1> USE DEF IInv
<1>0. /\ pc = "filter" /\ pc' = "run"
      /\ list' = {c \in IDs : Chosen(c) /\ AppliesToDistro(c, distro)}
      /\ UNCHANGED <<flags, pod, kubeconfig, current, marks, changes, env, ctx, distro, during, missed>>
  BY DEF Filter, machine, history
<1>1. TypeOK'
  BY <1>0 DEF TypeOK
<1>2. ListInv'
  BY <1>0 DEF ListInv, Chosen, categoryMatch, AppliesToDistro
<1>3. DetectInv' /\ DetectedIsBest'
  BY <1>0 DEF DetectInv, DetectedIsBest, Detecting, Detected, Throughout, Marks
<1>4. CtxInv' /\ TimeoutInv' /\ DeadlineNeverMisleads' /\ RefusedBeforeAsking'
  BY <1>0 DEF CtxInv, TimeoutInv, DeadlineNeverMisleads, RefusedBeforeAsking, Detecting, Running
<1>5. EnvInv' /\ LabelNamesCluster' /\ AllOnlyIfAsked'
  BY <1>0 DEF EnvInv, LabelNamesCluster, AllOnlyIfAsked, NamespaceForList
<1> QED BY <1>1, <1>2, <1>3, <1>4, <1>5

LEMMA RunInv ==
  ASSUME IInv, Run
  PROVE  IInv'
<1> USE DEF IInv
<1>0. /\ pc = "run" /\ pc' = IF ctx = "deadline" THEN "error" ELSE "report"
      /\ UNCHANGED <<flags, pod, kubeconfig, current, marks, changes, env, ctx, distro, list,
                      during, missed>>
  BY DEF Run, machine, history
<1>1. TypeOK'
  BY <1>0 DEF TypeOK
<1>2. ListInv'
  BY <1>0 DEF ListInv, Chosen, categoryMatch, AppliesToDistro
<1>3. DetectInv' /\ DetectedIsBest'
  BY <1>0 DEF DetectInv, DetectedIsBest, Detecting, Detected, Throughout, Marks
<1>4. CtxInv' /\ TimeoutInv' /\ DeadlineNeverMisleads' /\ RefusedBeforeAsking'
  BY <1>0 DEF CtxInv, TimeoutInv, DeadlineNeverMisleads, RefusedBeforeAsking, Detecting, Running, Marks
<1>5. EnvInv' /\ LabelNamesCluster' /\ AllOnlyIfAsked'
  BY <1>0 DEF EnvInv, LabelNamesCluster, AllOnlyIfAsked, NamespaceForList
<1> QED BY <1>1, <1>2, <1>3, <1>4, <1>5

LEMMA CtxEndsInv ==
  ASSUME IInv, NEW how \in {"canceled", "deadline"}, CtxEnds(how)
  PROVE  IInv'
<1> USE DEF IInv
<1>0. /\ ctx = "live" /\ ctx' = how /\ Running
      /\ UNCHANGED <<flags, pod, kubeconfig, current, marks, changes, pc, env, distro, list,
                      during, missed>>
  BY DEF CtxEnds, machine, history
<1>1. TypeOK'
  BY <1>0 DEF TypeOK
<1>2. ListInv'
  BY <1>0 DEF ListInv, Chosen, categoryMatch, AppliesToDistro
<1>3. DetectInv' /\ DetectedIsBest'
  BY <1>0 DEF DetectInv, DetectedIsBest, Detecting, Detected, Throughout, Looked
<1>4. CtxInv' /\ TimeoutInv' /\ DeadlineNeverMisleads' /\ RefusedBeforeAsking'
  BY <1>0 DEF CtxInv, TimeoutInv, DeadlineNeverMisleads, RefusedBeforeAsking, Detecting, Running
<1>5. EnvInv' /\ LabelNamesCluster' /\ AllOnlyIfAsked'
  BY <1>0 DEF EnvInv, LabelNamesCluster, AllOnlyIfAsked, NamespaceForList
<1> QED BY <1>1, <1>2, <1>3, <1>4, <1>5

(* More sets of marks can only take away from what was there throughout.   *)
LEMMA MarkChangesInv ==
  ASSUME IInv, NEW m \in Marks, MarkChanges(m)
  PROVE  IInv'
<1> USE DEF IInv
<1>0. /\ changes < MaxChanges /\ changes' = changes + 1
      /\ marks' = IF m \in marks THEN marks \ {m} ELSE marks \cup {m}
      /\ during' = IF Detecting THEN during \cup {marks'} ELSE during
      /\ UNCHANGED <<flags, pod, kubeconfig, current, pc, env, ctx, distro, list, missed>>
  BY DEF MarkChanges, machine
<1>1. marks' \subseteq Marks /\ changes' \in 0..MaxChanges
  <2>1. marks' \subseteq Marks
    BY <1>0 DEF TypeOK
  <2>2. changes' \in 0..MaxChanges
    <3>1. changes \in 0..MaxChanges /\ MaxChanges \in Nat
      BY MaxChangesAssumption DEF TypeOK
    <3>2. changes < MaxChanges /\ changes' = changes + 1
      BY <1>0
    <3> QED BY ONLY <3>1, <3>2
  <2> QED BY <2>1, <2>2
<1>2. TypeOK'
  BY <1>0, <1>1 DEF TypeOK
<1>3. ListInv'
  BY <1>0 DEF ListInv, Chosen, categoryMatch, AppliesToDistro
<1>4. DetectInv' /\ DetectedIsBest'
  BY <1>0 DEF DetectInv, DetectedIsBest, Detecting, Detected, Throughout, Looked, Marks
<1>5. CtxInv' /\ TimeoutInv' /\ DeadlineNeverMisleads' /\ RefusedBeforeAsking'
  BY <1>0 DEF CtxInv, TimeoutInv, DeadlineNeverMisleads, RefusedBeforeAsking, Detecting, Running
<1>6. EnvInv' /\ LabelNamesCluster' /\ AllOnlyIfAsked'
  BY <1>0 DEF EnvInv, LabelNamesCluster, AllOnlyIfAsked, NamespaceForList
<1> QED BY <1>2, <1>3, <1>4, <1>5, <1>6

LEMMA StutterInv ==
  ASSUME IInv, UNCHANGED vars
  PROVE  IInv'
<1> USE DEF IInv
<1>0. UNCHANGED <<flags, pod, kubeconfig, current, marks, changes, pc, env, ctx, distro, list,
                  during, missed>>
  BY DEF vars
<1>1. TypeOK' /\ ListInv'
  BY <1>0 DEF TypeOK, ListInv, Chosen, categoryMatch, AppliesToDistro
<1>2. DetectInv' /\ DetectedIsBest'
  BY <1>0 DEF DetectInv, DetectedIsBest, Detecting, Detected, Throughout, Looked
<1>3. CtxInv' /\ TimeoutInv' /\ DeadlineNeverMisleads' /\ RefusedBeforeAsking'
  BY <1>0 DEF CtxInv, TimeoutInv, DeadlineNeverMisleads, RefusedBeforeAsking, Detecting, Running
<1>4. EnvInv' /\ LabelNamesCluster' /\ AllOnlyIfAsked'
  BY <1>0 DEF EnvInv, LabelNamesCluster, AllOnlyIfAsked, NamespaceForList
<1> QED BY <1>1, <1>2, <1>3, <1>4
-----------------------------------------------------------------------------
(* IInv is inductive: it holds of every state of a call of runChecks       *)
(* (check.go 64-109), whatever the cluster and the context do.             *)
THEOREM Inductive == Spec => []IInv
<1>1. IInv /\ [Next]_vars => IInv'
  BY BuildInv, ParseTimeoutInv, ParseDistroInv, LookInv, FilterInv, RunInv, CtxEndsInv,
     MarkChangesInv, StutterInv DEF Next
<1> QED BY InitInv, <1>1, PTL DEF Spec

(* The locals of runChecks keep their types. *)
THEOREM TypeCorrect == Spec => []TypeOK
<1>1. IInv => TypeOK
  BY DEF IInv
<1> QED BY Inductive, <1>1, PTL

(* DetectDistro answers with a mark that was there and passes over a       *)
(* better one only if it was gone for a moment or could not be read        *)
(* (distro_detect.go 18-40).                                               *)
THEOREM DetectionSound == Spec => []DetectedIsBest
<1>1. IInv => DetectedIsBest
  BY DEF IInv
<1> QED BY Inductive, <1>1, PTL

(* A detection that ran out of time is never followed by a report          *)
(* (check.go 89-107).                                                      *)
THEOREM TimeoutIsAnError == Spec => []DeadlineNeverMisleads
<1>1. IInv => DeadlineNeverMisleads
  BY DEF IInv
<1> QED BY Inductive, <1>1, PTL

(* Detection and filtering together lose no check of the distribution the  *)
(* cluster steadily shows (distro_detect.go 18-60, registry.go 96-124).    *)
THEOREM ChecksKept == Spec => []NoCheckLost
<1>1. IInv => NoCheckLost
  <2> SUFFICES ASSUME IInv, pc = "report", flags.distro = "auto", NEW c \in IDs, NEW m \in Marks,
                      Chosen(c), AppliesToDistro(c, m), Throughout(m), missed[m] = "no",
                      \A s \in during : \A b \in s : Rank(b) >= Rank(m)
               PROVE  c \in list
    BY DEF NoCheckLost
  <2>1. distro \in Distros /\ DetectedIsBest /\ Detected
    BY DEF IInv, DetectInv, Detected
  <2>2. ~ (Rank(m) < Rank(distro))
    BY <2>1 DEF DetectedIsBest
  <2>3. ~ (Rank(distro) < Rank(m))
    <3>1. CASE distro \in Marks
      BY <2>1, <3>1 DEF DetectedIsBest, Rank, Marks
    <3>2. CASE distro = "kubeadm"
      BY <3>2 DEF Rank, Marks
    <3> QED BY <2>1, <3>1, <3>2 DEF Distros
  <2>4. distro = m
    BY <2>1, <2>2, <2>3 DEF Rank, Marks, Distros
  <2> QED BY <2>4 DEF IInv, ListInv
<1> QED BY Inductive, <1>1, PTL

(* No read is made for a command line that is refused (check.go 64-98). *)
THEOREM RefusalFirst == Spec => []RefusedBeforeAsking
<1>1. IInv => RefusedBeforeAsking
  BY DEF IInv
<1> QED BY Inductive, <1>1, PTL

(* The report is labelled with the cluster that was asked (kube.go         *)
(* 129-178).                                                               *)
THEOREM LabelTrue == Spec => []LabelNamesCluster
<1>1. IInv => LabelNamesCluster
  BY DEF IInv
<1> QED BY Inductive, <1>1, PTL

(* -A, and nothing else, widens the lists to all namespaces (kube.go       *)
(* 82-87, 110-113).                                                        *)
THEOREM NamespaceKept == Spec => []AllOnlyIfAsked
<1>1. IInv => AllOnlyIfAsked
  BY DEF IInv
<1> QED BY Inductive, <1>1, PTL
=============================================================================
