------------------------------- MODULE Scope --------------------------------
(***************************************************************************)
(* What a run of khealth looks at: runChecks (internal/cli/check.go) up to *)
(* and including its call of the runner.  kube.Build picks the cluster,    *)
(* the flags are parsed, DetectDistro asks the cluster for the marks of a  *)
(* distribution, the registry is filtered, and the runner's verdict on the *)
(* context decides whether there is a report.  Meanwhile the cluster       *)
(* changes, reads fail and the context ends.                               *)
(***************************************************************************)
EXTENDS Integers, FiniteSets

CONSTANTS
  IDs,            \* the registered checks; a list of them, being in the
                  \* order of IDs, is the set of its elements
  CategoriesOf,   \* Categories() of each check
  DistrosOf,      \* Distros() of a DistroAware check, Everywhere for another
  Everywhere,
  Contexts,       \* contexts of the kubeconfig, each a cluster of its own
  Pod,            \* the cluster khealth runs in, if it does
  None,           \* no context, no namespace, no name, no distribution yet
  Flags,          \* the command lines considered
  MaxChanges      \* bound on the changes of the marks of the distribution

(* What DetectDistro looks for, in this order. *)
Marks == {"rke2", "k3s", "eks"}
Distros == Marks \cup {"kubeadm"}
Clusters == Contexts \cup {Pod}
Categories == UNION {CategoriesOf[c] : c \in IDs}

FlagsType ==
  [mode : {"auto", "in-cluster", "out-of-cluster", "other"},
   context : Contexts \cup {None}, namespace : {None, "team"}, all : BOOLEAN,
   timeout : {"valid", "invalid"}, distro : Distros \cup {"auto", "other"},
   checks : SUBSET IDs, skip : SUBSET IDs, cats : SUBSET Categories]

ASSUME NamesAssumption == None \notin Clusters \cup Distros \cup {"team", "default"} /\ Pod \notin Contexts
ASSUME DistrosAssumption ==
  \A c \in IDs : DistrosOf[c] = Everywhere \/ DistrosOf[c] \subseteq Distros
ASSUME FlagsAssumption == Flags \subseteq FlagsType
ASSUME MaxChangesAssumption == MaxChanges \in Nat

VARIABLES
  flags,
  \* The machine: what of a pod's environment there is, the kubeconfig and
  \* its current context.
  pod, kubeconfig, current,
  \* The marks the cluster that is asked bears, and how often they changed.
  marks, changes,
  \* runChecks:
  pc, env, ctx, distro, list,
  \* While DetectDistro ran: the sets of marks the cluster bore, and what
  \* kept it from reading one.
  during, missed

machine == <<flags, pod, kubeconfig, current>>
history == <<during, missed>>
vars == <<flags, pod, kubeconfig, current, marks, changes, pc, env, ctx, distro, list,
          during, missed>>

NoEnv == [cluster |-> None, inCluster |-> FALSE, label |-> None, namespace |-> None, all |-> FALSE]

Envs == [cluster : Clusters \cup {None}, inCluster : BOOLEAN, label : Contexts \cup {None, "host"},
         namespace : {None, "default", "team"}, all : BOOLEAN]

(* The types of the locals of runChecks and of what surrounds it. *)
TypeOK ==
  /\ flags \in Flags
  /\ pod \in {"none", "no token", "no port", "whole"}
  /\ kubeconfig \in {"usable", "empty", "broken"} /\ current \in Contexts
  /\ marks \subseteq Marks /\ changes \in 0..MaxChanges
  /\ pc \in {"build", "timeout", "distro", "rke2", "k3s", "eks", "filter", "run",
             "report", "error"}
  /\ env \in Envs
  /\ ctx \in {"none", "live", "canceled", "deadline"}
  /\ distro \in Distros \cup {None}
  /\ list \subseteq IDs
  /\ during \subseteq SUBSET Marks
  /\ missed \in [Marks -> {"no", "error", "canceled", "deadline"}]

Init ==
  /\ flags \in Flags
  /\ pod \in {"none", "no token", "no port", "whole"}
  /\ kubeconfig \in {"usable", "empty", "broken"} /\ current \in Contexts
  /\ marks \in SUBSET Marks /\ changes = 0
  /\ pc = "build" /\ env = NoEnv /\ ctx = "none" /\ distro = None /\ list = {}
  /\ during = {} /\ missed = [m \in Marks |-> "no"]

Detecting == pc \in Marks
-----------------------------------------------------------------------------
(* kube.Build.                                                             *)

isInCluster == pod \in {"no port", "whole"}

(* rest.InClusterConfig wants the host, the port and the token. *)
InClusterConfig == pod = "whole"

inClusterEnv(e) == e.cluster = Pod /\ e.inCluster /\ e.label = "host"

(* Mutant: the cluster is labelled with the current context whatever       *)
(* --context says.                                                         *)
loadKubeconfigCurrentLabel(e) ==
  /\ ~ e.inCluster
  /\ \/ /\ kubeconfig = "usable"
        /\ e.cluster = IF flags.context = None THEN current ELSE flags.context
        /\ e.label = current
     \/ /\ kubeconfig = "empty" /\ flags.context = None /\ InClusterConfig
        /\ e.cluster = Pod /\ e.label = "host"

(* client-go reads the kubeconfig, --context replacing its current         *)
(* context; one that is empty makes it take a pod's configuration instead. *)
(* The label is the context's name, or the host when there is none.        *)
loadKubeconfig(e) ==
  /\ ~ e.inCluster
  /\ \/ /\ kubeconfig = "usable"
        /\ e.cluster = IF flags.context = None THEN current ELSE flags.context
        /\ e.label = e.cluster
     \/ /\ kubeconfig = "empty" /\ flags.context = None /\ InClusterConfig
        /\ e.cluster = Pod /\ e.label = "host"

(* No e satisfies it when the configuration cannot be resolved. *)
resolveConfig(e) ==
  \/ flags.mode = "in-cluster" /\ InClusterConfig /\ inClusterEnv(e)
  \/ flags.mode = "out-of-cluster" /\ loadKubeconfig(e)
  \/ /\ flags.mode = "auto"
     /\ IF isInCluster /\ InClusterConfig THEN inClusterEnv(e) ELSE loadKubeconfig(e)

(* The namespace of the Env: "default" when none is given, but not with -A. *)
Namespace == IF flags.namespace = None /\ ~ flags.all THEN "default" ELSE flags.namespace

Built == {e \in Envs : resolveConfig(e) /\ e.namespace = Namespace /\ e.all = flags.all}

Build ==
  /\ pc = "build"
  /\ IF Built = {}
     THEN pc' = "error" /\ UNCHANGED env
     ELSE pc' = "timeout" /\ env' \in Built
  /\ UNCHANGED <<machine, marks, changes, ctx, distro, list, history>>

(* What the checks pass to List: None is all namespaces. *)
NamespaceForList == IF env.all THEN None ELSE env.namespace
-----------------------------------------------------------------------------
(* The context and the cluster go their own ways.                          *)

Running == pc \in {"distro", "rke2", "k3s", "eks", "filter", "run"}

CtxEnds(how) ==
  /\ ctx = "live" /\ Running
  /\ ctx' = how
  /\ UNCHANGED <<machine, marks, changes, pc, env, distro, list, history>>

MarkChanges(m) ==
  /\ Running /\ changes < MaxChanges
  /\ marks' = IF m \in marks THEN marks \ {m} ELSE marks \cup {m}
  /\ changes' = changes + 1
  /\ during' = IF Detecting THEN during \cup {marks'} ELSE during
  /\ UNCHANGED <<machine, pc, env, ctx, distro, list, missed>>
-----------------------------------------------------------------------------
(* parseTimeout, and the context with that timeout.  From here on it may   *)
(* end, at once if the timeout is not positive.                            *)
ParseTimeout ==
  /\ pc = "timeout"
  /\ IF flags.timeout = "valid"
     THEN pc' = "distro" /\ ctx' = "live"
     ELSE pc' = "error" /\ UNCHANGED ctx
  /\ UNCHANGED <<machine, marks, changes, env, distro, list, history>>

(* ParseDistro.  Only "auto" leads to DetectDistro. *)
ParseDistro ==
  /\ pc = "distro"
  /\ \/ /\ flags.distro = "auto"
        /\ pc' = "rke2" /\ during' = {marks} /\ UNCHANGED distro
     \/ /\ flags.distro \in Distros
        /\ pc' = "filter" /\ distro' = flags.distro /\ UNCHANGED during
     \/ /\ flags.distro = "other"
        /\ pc' = "error" /\ UNCHANGED <<distro, during>>
  /\ UNCHANGED <<machine, marks, changes, env, ctx, list, missed>>
-----------------------------------------------------------------------------
(* DetectDistro: a Get of the lease rke2, one of the lease k3s, and a List *)
(* of one node, whose labels are looked at ("eks": the first node bears    *)
(* the label).                                                             *)

(* What follows a mark that was not found. *)
Fallthrough(m) ==
  CASE m = "rke2" -> pc' = "k3s" /\ UNCHANGED distro
    [] m = "k3s" -> pc' = "eks" /\ UNCHANGED distro
    [] m = "eks" -> pc' = "filter" /\ distro' = "kubeadm"

(* Mutant: an error counts as the mark. *)
LookAnyAnswer(m) ==
  /\ pc = m
  /\ \/ /\ ctx = "live" /\ m \in marks
        /\ pc' = "filter" /\ distro' = m /\ UNCHANGED missed
     \/ /\ ctx = "live" /\ m \notin marks
        /\ Fallthrough(m) /\ UNCHANGED missed
     \/ /\ missed' = [missed EXCEPT ![m] = IF ctx = "live" THEN "error" ELSE ctx]
        /\ pc' = "filter" /\ distro' = m
  /\ UNCHANGED <<machine, marks, changes, env, ctx, list, during>>

(* An error, that of an ended context too, counts as absence. *)
Look(m) ==
  /\ pc = m
  /\ \/ /\ ctx = "live" /\ m \in marks
        /\ pc' = "filter" /\ distro' = m /\ UNCHANGED missed
     \/ /\ ctx = "live" /\ m \notin marks
        /\ Fallthrough(m) /\ UNCHANGED missed
     \/ /\ missed' = [missed EXCEPT ![m] = IF ctx = "live" THEN "error" ELSE ctx]
        /\ Fallthrough(m)
  /\ UNCHANGED <<machine, marks, changes, env, ctx, list, during>>
-----------------------------------------------------------------------------
(* The registry's Filter.                                                  *)

categoryMatch(c) == CategoriesOf[c] \cap flags.cats # {}

Chosen(c) ==
  /\ c \notin flags.skip
  /\ flags.checks = {} \/ c \in flags.checks
  /\ flags.cats = {} \/ categoryMatch(c)

AppliesToDistro(c, d) == DistrosOf[c] = Everywhere \/ d \in DistrosOf[c]

(* Mutant: a check bound to a distribution runs on kubeadm only. *)
FilterKubeadmOnly ==
  /\ pc = "filter" /\ pc' = "run"
  /\ list' = {c \in IDs : Chosen(c) /\ AppliesToDistro(c, "kubeadm")}
  /\ UNCHANGED <<machine, marks, changes, env, ctx, distro, history>>

Filter ==
  /\ pc = "filter" /\ pc' = "run"
  /\ list' = {c \in IDs : Chosen(c) /\ AppliesToDistro(c, distro)}
  /\ UNCHANGED <<machine, marks, changes, env, ctx, distro, history>>

(* Mutant: a deadline that passed is no error. *)
RunIgnoresDeadline ==
  /\ pc = "run"
  /\ pc' = "report"
  /\ UNCHANGED <<machine, marks, changes, env, ctx, distro, list, history>>

(* runner.Run (module Runner) has an error only for a deadline that has    *)
(* passed when it looks at the context.                                    *)
Run ==
  /\ pc = "run"
  /\ pc' = IF ctx = "deadline" THEN "error" ELSE "report"
  /\ UNCHANGED <<machine, marks, changes, env, ctx, distro, list, history>>
-----------------------------------------------------------------------------
Next ==
  \/ Build
  \/ ParseTimeout
  \/ ParseDistro
  \/ \E m \in Marks : Look(m)
  \/ Filter
  \/ Run
  \/ \E how \in {"canceled", "deadline"} : CtxEnds(how)
  \/ \E m \in Marks : MarkChanges(m)

Spec == Init /\ [][Next]_vars
-----------------------------------------------------------------------------
Detected == pc \in {"filter", "run", "report"} /\ flags.distro = "auto"

Rank(d) == CASE d = "rke2" -> 1 [] d = "k3s" -> 2 [] d = "eks" -> 3 [] d = "kubeadm" -> 4

Throughout(m) == \A s \in during : m \in s

(* The distribution found is one whose mark the cluster did bear while it  *)
(* was looked for, and no better mark was there all the while unless the   *)
(* read of it failed (distro_detect.go 18-39).                             *)
DetectedIsBest ==
  Detected =>
    /\ distro \in Marks => \E s \in during : distro \in s
    /\ \A m \in Marks : Rank(m) < Rank(distro) /\ Throughout(m) => missed[m] # "no"

(* A timeout that cuts detection short never shows as a report without the *)
(* checks of the distribution: the runner finds the same context ended     *)
(* (check.go 89-107, runner.go 85-87).                                     *)
DeadlineNeverMisleads ==
  pc = "report" => \A m \in Marks : missed[m] # "deadline"

(* A check of a distribution that the user asked for is in the report      *)
(* whenever the cluster bore that mark, and no better one, all the while   *)
(* detection ran, unless a read failed or the run was interrupted          *)
(* (distro_detect.go 41-60, registry.go 93-120).                           *)
NoCheckLost ==
  pc = "report" /\ flags.distro = "auto" =>
    \A c \in IDs : \A m \in Marks :
      /\ Chosen(c) /\ AppliesToDistro(c, m)
      /\ Throughout(m) /\ missed[m] = "no"
      /\ \A s \in during : \A b \in s : Rank(b) >= Rank(m)
      => c \in list

(* A command line that is refused is refused before the cluster is asked   *)
(* anything (check.go 64-98: the flags are parsed before DetectDistro).    *)
RefusedBeforeAsking ==
  Detecting \/ pc \in {"filter", "run", "report"} =>
    flags.mode # "other" /\ flags.timeout = "valid" /\ flags.distro # "other"

(* The label of the report names the cluster that was asked: the context,  *)
(* or the host of the cluster khealth runs in; and --context is obeyed     *)
(* unless khealth takes itself to be in a pod (kube.go 151-177, 128-149).  *)
LabelNamesCluster ==
  env.cluster # None =>
    /\ env.label = IF env.cluster = Pod THEN "host" ELSE env.cluster
    /\ flags.context # None => env.cluster = flags.context \/ env.inCluster

(* All namespaces are listed if and only if -A was given, whatever -n says *)
(* (kube.go 81-86, 110-113).                                               *)
AllOnlyIfAsked == env.cluster # None => (NamespaceForList = None <=> flags.all)
-----------------------------------------------------------------------------
(* The inductive invariant.                                                *)

(* The marks that have been looked for. *)
Looked == CASE pc = "rke2" -> {} [] pc = "k3s" -> {"rke2"} [] pc = "eks" -> {"rke2", "k3s"}
            [] OTHER -> Marks

(* A mark passed over was absent at some moment, or not read. *)
DetectInv ==
  /\ Detecting =>
       /\ flags.distro = "auto"
       /\ during # {} /\ marks \in during
       /\ \A m \in Looked : Throughout(m) => missed[m] # "no"
  /\ Detected => distro \in Distros

(* A deadline that kept detection from a mark is still the state of the    *)
(* context.                                                                *)
CtxInv ==
  /\ \A m \in Marks : missed[m] = "deadline" => ctx = "deadline"
  /\ pc \in {"build", "timeout"} => \A m \in Marks : missed[m] = "no"
  /\ Running => ctx # "none"

(* The list is what Filter makes of the distribution. *)
ListInv ==
  pc \in {"run", "report"} => list = {c \in IDs : Chosen(c) /\ AppliesToDistro(c, distro)}

(* The Env is there as soon as Build is done. *)
EnvInv ==
  pc \in {"timeout", "distro", "rke2", "k3s", "eks", "filter", "run", "report"} =>
    env.cluster # None /\ flags.mode # "other"

TimeoutInv ==
  Running \/ pc = "report" => flags.timeout = "valid"

(* The invariant that every step of runChecks preserves. *)
IInv ==
  /\ TypeOK
  /\ DetectInv /\ CtxInv /\ ListInv /\ EnvInv /\ TimeoutInv
  /\ DetectedIsBest /\ DeadlineNeverMisleads /\ RefusedBeforeAsking
  /\ LabelNamesCluster /\ AllOnlyIfAsked
=============================================================================
