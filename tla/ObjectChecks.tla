---------------------------- MODULE ObjectChecks ----------------------------
(***************************************************************************)
(* The checks of internal/checks that judge objects one by one, run one    *)
(* after the other, as watch does, while the objects age, change, come and *)
(* go, calls fail and take their time, and khealth's clock is not the      *)
(* cluster's.  One kind of object is looked at, by the checks about it;    *)
(* `kind' says which.  The verdicts are in ObjectVerdicts.                 *)
(***************************************************************************)
EXTENDS ObjectVerdicts, Result

CONSTANTS
  Kinds,        \* the kinds of objects that may be the one looked at
  Names,        \* the objects of each kind there may be
  Absent,
  Nothing,      \* the resource of a finding that has none
  Numbers,      \* the values n starts with, for each kind
  Wants,        \* the values of want, for each kind
  Skews,        \* khealth's clock minus the cluster's
  Horizon, MaxChanges, MaxRuns, Latency  \* bounds: the time, the changes, the
                \* runs, and how long a run takes (in the code, --timeout)

(* Three checks have a twin whose code differs in the field or the name it *)
(* looks at only: scheduler.healthz, nodes.memory, statefulsets.rollout.   *)
IDs ==
  {"pods.pending", "pods.notReady", "pods.backoff", "pods.oomKilled", "pods.restarts",
   "nodes.ready", "nodes.disk", "nodes.pressure", "nodes.unschedulable", "nodes.versionSkew",
   "nodes.cpu", "kubelet.healthz", "deployments.rollout", "daemonsets.rollout",
   "coredns.replicas", "controllerMgr.healthz", "pvc.pending", "pv.releasedNotReclaimed",
   "namespaces.stuckTerminating", "rke2.helmInstallJobs", "rke2.snapshots.recent",
   "events.warnings", "apiserver.certExpiry", "pdbs.misconfigured", "apiservices.available",
   "volumeattachments.failed", "argocd.apps.outOfSync", "argocd.apps.unhealthy",
   "longhorn.volumes.degraded", "certmanager.certificates.notReady", "apiserver.healthz",
   "storageclass.default", "controlplane.endpoints"}

(* The kind of object each check is about. *)
CheckKind ==
  [c \in IDs |->
     CASE c \in {"pods.pending", "pods.notReady"} -> "pod"
       [] c \in {"pods.backoff", "pods.oomKilled", "pods.restarts"} -> "container"
       [] c \in {"nodes.ready", "nodes.disk"} -> "node"
       [] c \in {"nodes.pressure", "nodes.unschedulable"} -> "condition"
       [] c \in {"nodes.versionSkew", "kubelet.healthz"} -> "kubelet"
       [] c \in {"deployments.rollout", "daemonsets.rollout", "coredns.replicas"} -> "workload"
       [] c = "nodes.cpu" -> "measured"
       [] c = "controllerMgr.healthz" -> "lease"
       [] c = "pvc.pending" -> "claim"
       [] c = "pv.releasedNotReclaimed" -> "volume"
       [] c = "namespaces.stuckTerminating" -> "namespace"
       [] c = "rke2.helmInstallJobs" -> "job"
       [] c = "rke2.snapshots.recent" -> "snapshot"
       [] c = "events.warnings" -> "event"
       [] c = "apiserver.certExpiry" -> "certificate"
       [] c = "pdbs.misconfigured" -> "budget"
       [] c = "apiservices.available" -> "apiservice"
       [] c = "volumeattachments.failed" -> "attachment"
       [] c = "argocd.apps.outOfSync" -> "sync"
       [] c = "argocd.apps.unhealthy" -> "health"
       [] c = "longhorn.volumes.degraded" -> "robustness"
       [] c = "certmanager.certificates.notReady" -> "ready"
       [] c = "apiserver.healthz" -> "apiserver"
       [] c = "storageclass.default" -> "storageclass"
       [] c = "controlplane.endpoints" -> "endpoint"]

AllKinds == {CheckKind[c] : c \in IDs}

(* The phases the objects of a kind may be in. *)
Phases ==
  [pod |-> {"Pending", "Starting", "Ready"}, container |-> {"Fine", "CrashLooping", "Revived"},
   claim |-> {"Pending", "Bound", "Lost"}, volume |-> {"Available", "Bound", "Released"},
   namespace |-> {"Active", "Terminating"}, job |-> {"Active", "Failed", "Succeeded"},
   event |-> {"Normal", "Warning"}, lease |-> {"Held", "Free"},
   node |-> {"missing", "True", "False", "Unknown"},
   condition |-> {"Fine", "Pressed", "Cordoned"}, kubelet |-> {"even", "odd"},
   apiservice |-> {"unset", "Up", "Unavailable"},
   attachment |-> {"Attached", "AttachError", "DetachError"},
   sync |-> {"unset", "Synced", "OutOfSync"},
   health |-> {"unset", "Progressing", "Healthy", "Degraded", "Missing"},
   robustness |-> {"unset", "healthy", "degraded", "faulted", "unknown"},
   ready |-> {"unset", "Ready", "NotReady"}, apiserver |-> {"ok", "failing"},
   storageclass |-> {"plain", "default"}, endpoint |-> {"NotReady", "Ready"},
   snapshot |-> {"there"}, certificate |-> {"there"}, measured |-> {"there"},
   workload |-> {"there"}, budget |-> {"there"}]

(* The phases that objects begin in and never come back to. *)
Young == {"Pending", "Available", "Active"}
(* The kinds whose n and whose age mean something. *)
Counted == {"container", "node", "measured", "kubelet", "workload", "budget"}
Aging == {"pod", "claim", "volume", "namespace", "job", "snapshot", "event", "certificate", "lease"}

Objects == UNION {Names[k] : k \in Kinds}

ASSUME KindsAssumption == Kinds \subseteq AllKinds /\ Nothing \notin Objects
(* The checks of these get one object, by its name. *)
ASSUME SingleAssumption ==
  \A k \in Kinds \cap {"lease", "certificate", "apiserver"} : \A x, y \in Names[k] : x = y
ASSUME BoundsAssumption ==
  /\ Horizon \in Nat /\ MaxChanges \in Nat /\ MaxRuns \in Nat /\ Latency \in Nat
  /\ Skews \subseteq Int
  /\ \A k \in Kinds : Numbers[k] \subseteq Nat /\ Wants[k] \subseteq Nat \cup {None}

VARIABLES
  kind, skew, insecure,   \* insecure: khealth does not verify certificates
  \* The cluster: its clock, the objects, the API server's minor version,
  \* whether the holder of the lease lives.
  now, objs, server, alive, changes,
  \* The run that goes on or was the last:
  pc, check, at, api, usage, listed, todo, out,
  \* What has been so in that run (then: the clock, the server and the
  \* leader when the objects were listed), the run before it, and how many there were:
  began, then, failed, asked, before, runs

fixed == <<kind, skew, insecure>>
cluster == <<now, objs, server, alive, changes>>
vars == <<kind, skew, insecure, now, objs, server, alive, changes,
          pc, check, at, api, usage, listed, todo, out, began, then, failed, asked, before, runs>>
run == <<pc, check, at, api, usage, listed, todo, out, began, then, failed, asked, before, runs>>

Clock == now + skew
Here == {o \in Names[kind] : objs[o] # Absent}
Empty == [o \in {} |-> 0]
Finding(o, s) == [on |-> o, status |-> s]
OrOK(S) == IF S = {} THEN {Finding(Nothing, "OK")} ELSE S

-----------------------------------------------------------------------------
(* The cluster.  `since' in an object is the time it came into its phase.  *)
Life == T.certWarn + 1

Newborn(p, n, w) ==
  [phase |-> p, created |-> now, since |-> now, n |-> n, want |-> w,
   stamp |-> CASE kind = "lease" -> now [] kind = "certificate" -> now + Life [] OTHER -> None]

Newborns ==
  {Newborn(p, n, w) : p \in IF Phases[kind] \cap Young = {} THEN Phases[kind]
                            ELSE Phases[kind] \cap Young,
                      n \in Numbers[kind], w \in Wants[kind]}

Init ==
  /\ kind \in Kinds /\ skew \in IF kind \in Aging THEN Skews ELSE {0}
  /\ insecure \in IF kind = "certificate" THEN BOOLEAN ELSE {FALSE}
  /\ now = 0 /\ alive = TRUE /\ changes = 0
  /\ server \in IF kind = "kubelet" THEN Numbers[kind] ELSE {0}
  /\ objs \in [Names[kind] -> {Absent} \cup Newborns]
  /\ pc = "idle" /\ check = Absent /\ at = 0 /\ api = 0 /\ usage = Empty /\ listed = Empty
  /\ todo = {} /\ out = {} /\ began = 0 /\ then = [now |-> 0, server |-> 0, alive |-> TRUE]
  /\ failed = "no" /\ asked = {} /\ runs = 0
  /\ before = [check |-> Absent, listed |-> Empty, out |-> {}, failed |-> "no", asked |-> {}]

Change(o, x) ==
  /\ changes < MaxChanges /\ changes' = changes + 1
  /\ objs' = [objs EXCEPT ![o] = x]
  /\ UNCHANGED <<now, server, run, fixed>>

Appear(o) == objs[o] = Absent /\ \E x \in Newborns : Change(o, x) /\ alive' = TRUE
Vanish(o) == Change(o, Absent) /\ UNCHANGED alive

(* A namespace is stamped when it is deleted, a lease when it is acquired. *)
Move(o, p) ==
  /\ p # objs[o].phase /\ p \notin Young
  /\ Change(o, [objs[o] EXCEPT
       !.phase = p, !.since = now,
       !.stamp = IF p \in {"Terminating", "Held"} THEN now ELSE @,
       !.created = IF p = "Held" THEN now ELSE @])
  /\ alive' = (alive \/ p = "Held")

(* An event recurs, a certificate is replaced. *)
Restamp(o) ==
  /\ kind \in {"event", "certificate"}
  /\ Change(o, [objs[o] EXCEPT !.stamp = IF kind = "event" THEN now ELSE now + Life])
  /\ UNCHANGED alive

(* Restarts and versions only grow. *)
Recount(o, d) ==
  /\ kind \in Counted /\ objs[o].n + d >= 0
  /\ d = 1 \/ kind \notin {"container", "kubelet"}
  /\ kind = "kubelet" => objs[o].n < server
  /\ Change(o, [objs[o] EXCEPT !.n = @ + d]) /\ UNCHANGED alive

Upgrade ==
  /\ kind = "kubelet" /\ changes < MaxChanges
  /\ server' = server + 1 /\ changes' = changes + 1
  /\ UNCHANGED <<now, objs, alive, run, fixed>>

(* The leader renews within the lease's duration until it crashes; then    *)
(* another one may acquire the lease.                                      *)
Duration(o) == IF o.want # None /\ o.want > 0 THEN o.want ELSE T.lease

Renew(o) ==
  /\ kind = "lease" /\ objs[o].phase = "Held" /\ objs[o].stamp < now
  /\ alive \/ now - objs[o].stamp >= Duration(objs[o])
  /\ objs' = [objs EXCEPT ![o].stamp = now]
  /\ alive' = TRUE
  /\ UNCHANGED <<now, server, changes, run, fixed>>

Crash ==
  /\ kind = "lease" /\ alive /\ changes < MaxChanges
  /\ alive' = FALSE /\ changes' = changes + 1
  /\ UNCHANGED <<now, objs, server, run, fixed>>

Tick ==
  /\ kind \in Aging /\ now < Horizon
  /\ pc # "idle" => now - began < Latency
  /\ \A o \in Here : kind = "lease" /\ alive /\ objs[o].phase = "Held" =>
       now - objs[o].stamp < Duration(objs[o])
  /\ now' = now + 1
  /\ UNCHANGED <<objs, server, alive, changes, run, fixed>>

Cluster ==
  \/ \E o \in Names[kind] : Appear(o)
  \/ \E o \in Here : Vanish(o)
  \/ \E o \in Here, p \in Phases[kind] : Move(o, p)
  \/ \E o \in Here : Restamp(o)
  \/ \E o \in Here, d \in {-1, 1} : Recount(o, d)
  \/ \E o \in Here : Renew(o)
  \/ Upgrade \/ Crash \/ Tick

-----------------------------------------------------------------------------
(* A check's Run.  It may have one read before the list (the server's      *)
(* version, the metrics), and may ask each node it listed.  The clock is   *)
(* read first for a lease, and after the list by all others.               *)

(* Mutant: the server's version is read last. *)
apiMinorLast == server
apiMinor == api

(* What check c says of object o, at time t, with the server at version v. *)
Verdict(c, o, t, v) ==
  CASE c = "pods.pending" -> podsPending(o, t)
    [] c = "pods.notReady" -> podsNotReady(o, t)
    [] c = "pods.backoff" -> podsBackoff(o)
    [] c = "pods.oomKilled" -> podsOOMKilled(o)
    [] c = "pods.restarts" -> podsRestarts(o)
    [] c = "pvc.pending" -> pvcPending(o, t)
    [] c = "pv.releasedNotReclaimed" -> pvReleased(o, t)
    [] c = "namespaces.stuckTerminating" -> namespacesTerminating(o, t)
    [] c = "rke2.helmInstallJobs" -> classifyHelmInstallJob(o, t)
    [] c = "events.warnings" -> eventsWarnings(o, t)
    [] c = "apiserver.certExpiry" -> certFinding(o, t)
    [] c = "controllerMgr.healthz" -> leaseHealth(o, t)
    [] c = "nodes.ready" -> nodesReady(o)
    [] c = "nodes.pressure" -> nodesPressure(o)
    [] c = "nodes.unschedulable" -> nodesUnschedulable(o)
    [] c = "nodes.versionSkew" -> versionSkew(o, v)
    [] c = "deployments.rollout" -> rollout(o)
    [] c = "coredns.replicas" -> corednsReplicas(o)
    [] c = "daemonsets.rollout" -> daemonsetsRollout(o)
    [] c = "pdbs.misconfigured" -> pdbsMisconfigured(o)
    [] c = "apiservices.available" -> apiservicesAvailable(o)
    [] c = "volumeattachments.failed" -> volumeAttachmentsFailed(o)
    [] c = "argocd.apps.outOfSync" -> argocdOutOfSync(o)
    [] c = "argocd.apps.unhealthy" -> argocdUnhealthy(o)
    [] c = "longhorn.volumes.degraded" -> longhornVolumes(o)
    [] c = "certmanager.certificates.notReady" -> certificatesNotReady(o)
    [] c = "apiserver.healthz" -> apiserverHealthz(o)

(* The errors that mean that what a check is about is not installed: a     *)
(* kind that is not served and, of metrics-server only, a 503.             *)
isCRDMissing(how) == how = "NotFound"
nodeUsageSkip(how) == IF how \in {"NotFound", "unavailable"} THEN "SKIP" ELSE "UNKNOWN"

(* What it makes of an error of its first reads. *)
OnError(how) ==
  CASE check = "rke2.snapshots.recent" -> "SKIP"
    [] check = "apiserver.healthz" -> "CRIT"
    [] check = "controlplane.endpoints" /\ how = "NotFound" -> "CRIT"
    [] kind = "measured" -> nodeUsageSkip(how)
    [] kind = "lease" /\ how = "NotFound" -> "SKIP"
    [] kind \in {"sync", "health", "robustness", "ready"} /\ isCRDMissing(how) -> "SKIP"
    [] OTHER -> "UNKNOWN"

(* The usage of the nodes both reads told of, without those of size zero.  *)
UsageFindings ==
  LET known == DOMAIN usage \cap DOMAIN listed
      size(o) == desired(listed[o])
  IN IF known = {} THEN {Finding(Nothing, "SKIP")}
     ELSE {Finding(o, classifyPct(usage[o], size(o))) : o \in {x \in known : size(x) # 0}}

(* The findings of check c on the objects l. *)
Findings(c, l, t, v) ==
  LET verdicts == {Finding(o, Verdict(c, l[o], t, v)) : o \in DOMAIN l}
  IN CASE c = "rke2.snapshots.recent" -> {Finding(Nothing, snapshotsRecent(l, t))}
       [] c = "storageclass.default" -> {Finding(Nothing, storageclassDefault(l))}
       [] c = "controlplane.endpoints" -> {Finding(Nothing, controlPlaneEndpoints(l))}
       [] c \in {"coredns.replicas", "rke2.helmInstallJobs"} ->
            IF verdicts = {} THEN {Finding(Nothing, "SKIP")} ELSE verdicts
       [] OTHER -> OrOK({f \in verdicts : f.status # "OK"})

(* The time a check compares with, and the checks that ask each node. *)
Now == IF kind = "lease" THEN at ELSE Clock
Asking == {"nodes.disk", "kubelet.healthz"}

Report ==
  CASE kind = "measured" -> UsageFindings
    [] check \in Asking -> OrOK(out)
    [] OTHER -> Findings(check, listed, Now, apiMinor)

Begin(c) ==
  /\ pc = "idle" /\ runs < MaxRuns /\ CheckKind[c] = kind
  /\ check' = c /\ at' = Clock /\ began' = now /\ runs' = runs + 1
  /\ before' = [check |-> check, listed |-> listed, out |-> out, failed |-> failed, asked |-> asked]
  /\ pc' = IF c = "nodes.versionSkew" THEN "server" ELSE IF kind = "measured" THEN "metrics" ELSE "list"
  /\ listed' = Empty /\ usage' = Empty /\ todo' = {} /\ out' = {} /\ failed' = "no" /\ asked' = {}
  /\ UNCHANGED <<api, then, cluster, fixed>>

Return(findings) == out' = findings /\ pc' = "idle"

(* One of its first reads fails: with a 404, with a 503 or otherwise. *)
Fail(how) ==
  /\ pc \in {"server", "metrics", "list"}
  /\ kind = "lease" /\ how = "NotFound" => Here = {}
  /\ failed' = how /\ Return({Finding(Nothing, OnError(how))})
  /\ UNCHANGED <<check, at, api, usage, listed, todo, began, then, asked, before, runs, cluster, fixed>>

ReadServer ==
  /\ pc = "server" /\ api' = server /\ pc' = "list"
  /\ UNCHANGED <<check, at, usage, listed, todo, out, began, then, failed, asked, before, runs, cluster, fixed>>

(* metrics-server need not know of every node. *)
ReadMetrics ==
  /\ pc = "metrics" /\ pc' = "list"
  /\ \E known \in SUBSET Here : usage' = [o \in known |-> objs[o].n]
  /\ UNCHANGED <<check, at, api, listed, todo, out, began, then, failed, asked, before, runs, cluster, fixed>>

(* The handshake with the API server fails once its certificate expired.   *)
Refused == kind = "certificate" /\ ~insecure /\ \E o \in Here : Clock > objs[o].stamp

List ==
  /\ pc = "list" /\ ~Refused
  /\ kind \in {"lease", "certificate", "apiserver"} => Here # {}
  /\ listed' = [o \in Here |-> objs[o]] /\ then' = [now |-> now, server |-> server, alive |-> alive]
  /\ CASE check = "nodes.disk" -> pc' = "each" /\ todo' = {o \in Here : nodeReady(objs[o])}
       [] check = "kubelet.healthz" -> pc' = "each" /\ todo' = Here
       [] OTHER -> pc' = "judge" /\ todo' = {}
  /\ UNCHANGED <<check, at, api, usage, out, began, failed, asked, before, runs, cluster, fixed>>

DialExpired ==
  /\ pc = "list" /\ Refused
  /\ failed' = "expired"
  /\ Return({Finding(Nothing,
       IF isCertExpiredErr(<<"*tls.CertificateVerificationError", "x509.CertificateInvalidError">>)
       THEN "CRIT" ELSE "UNKNOWN")})
  /\ UNCHANGED <<check, at, api, usage, listed, todo, began, then, asked, before, runs, cluster, fixed>>

(* The answer of a node that is asked for its file systems or its health.  *)
Add(o, s) == out' = IF s = "OK" THEN out ELSE out \cup {Finding(o, s)}

(* Mutant: a node that does not answer is passed over. *)
AskStatsOrNot(o) ==
  \/ UNCHANGED out /\ failed' = "error"
  \/ o \in Here /\ Add(o, classifyFS(objs[o].n, desired(objs[o]))) /\ UNCHANGED failed

AskStats(o) ==
  \/ Add(o, "UNKNOWN") /\ failed' = "error"
  \/ o \in Here /\ Add(o, classifyFS(objs[o].n, desired(objs[o]))) /\ UNCHANGED failed

AskHealthz(o) ==
  \/ Add(o, "CRIT") /\ failed' = "error"
  \/ Add(o, "SKIP") /\ failed' = "Forbidden"
  \/ o \in Here /\ \E s \in {"OK", "WARN"} : Add(o, s) /\ UNCHANGED failed

Each(o) ==
  /\ pc = "each" /\ o \in todo
  /\ IF check = "nodes.disk" THEN AskStats(o) ELSE AskHealthz(o)
  /\ todo' = todo \ {o} /\ asked' = asked \cup {o}
  /\ UNCHANGED <<pc, check, at, api, usage, listed, began, then, before, runs, cluster, fixed>>

Judge ==
  /\ pc = "judge" \/ (pc = "each" /\ todo = {})
  /\ Return(Report)
  /\ UNCHANGED <<check, at, api, usage, listed, todo, began, then, failed, asked, before, runs, cluster, fixed>>

Run ==
  \/ \E c \in IDs : Begin(c)
  \/ \E how \in {"NotFound", "unavailable", "error"} : Fail(how)
  \/ ReadServer \/ ReadMetrics \/ List \/ DialExpired \/ Judge
  \/ \E o \in todo : Each(o)

Next == Cluster \/ Run
Spec == Init /\ [][Next]_vars

-----------------------------------------------------------------------------
ObjectType ==
  [phase : Phases[kind], created : Nat, since : Nat, n : Nat, want : Wants[kind],
   stamp : Nat \cup {None}]
FindingType == [on : Names[kind] \cup {Nothing}, status : Status]

(* The variables hold what the code can hold: a run that was refused or    *)
(* failed has one finding, about no object, and nodes are only asked one   *)
(* after the other by the checks that do.                                  *)
TypeOK ==
  /\ kind \in Kinds /\ skew \in Skews \cup {0} /\ insecure \in BOOLEAN
  /\ now \in 0..Horizon /\ server \in Nat /\ alive \in BOOLEAN /\ changes \in 0..MaxChanges
  /\ objs \in [Names[kind] -> ObjectType \cup {Absent}]
  /\ pc \in {"idle", "server", "metrics", "list", "each", "judge"}
  /\ check \in IDs \cup {Absent} /\ at \in Int /\ api \in Nat /\ runs \in 0..MaxRuns
  /\ began \in Nat /\ then \in [now : Nat, server : Nat, alive : BOOLEAN]
  /\ DOMAIN usage \subseteq Names[kind] /\ DOMAIN listed \subseteq Names[kind]
  /\ \A o \in DOMAIN listed : listed[o] \in ObjectType
  /\ todo \subseteq Names[kind] /\ asked \subseteq Names[kind] /\ out \subseteq FindingType
  /\ pc = "each" => check \in Asking
  /\ failed \in {"no", "NotFound", "unavailable", "Forbidden", "error", "expired"}

Done == pc = "idle" /\ runs > 0
Read == Done /\ failed = "no"
StatusOf(S, o) == IF \E f \in S : f.on = o THEN (CHOOSE f \in S : f.on = o).status ELSE "OK"

(* How long, for the checks that wait, an object may be in which phases.   *)
Patience ==
  [c \in {"pods.pending", "pods.notReady", "pvc.pending", "pv.releasedNotReclaimed",
          "namespaces.stuckTerminating"} |->
     CASE c = "pods.pending" -> [phases |-> {"Pending"}, limit |-> T.pending]
       [] c = "pods.notReady" -> [phases |-> {"Starting"}, limit |-> T.notReady]
       [] c = "pvc.pending" -> [phases |-> {"Pending", "Lost"}, limit |-> T.pvc]
       [] c = "pv.releasedNotReclaimed" -> [phases |-> {"Released"}, limit |-> T.released]
       [] OTHER -> [phases |-> {"Terminating"}, limit |-> T.nsWarn]]

(* A pod reported as Pending, a namespace as stuck in Terminating, had     *)
(* been so for the whole grace period when it was read, but for the time   *)
(* the run took since, the half second of rounding and the difference of   *)
(* the clocks: no alarm about one that has just come into that phase.      *)
AlarmIsFounded ==
  Read /\ check \in {"pods.pending", "namespaces.stuckTerminating"} =>
    \A f \in out : f.status \in {"WARN", "CRIT"} =>
      /\ f.on \in DOMAIN listed /\ listed[f.on].phase \in Patience[check].phases
      /\ 2 * (then.now + Latency + skew - listed[f.on].since) + T.second
           >= 2 * Patience[check].limit

(* An object that was in a bad phase for longer than the check waits when  *)
(* the run began, and has not left it since, is reported, whatever else    *)
(* changed and wherever the check measures from.                           *)
StuckIsReported ==
  Read /\ check \in DOMAIN Patience =>
    \A o \in Here :
      /\ objs[o].phase \in Patience[check].phases /\ objs[o].since < began
      /\ began + skew - objs[o].since >= Patience[check].limit
      => StatusOf(out, o) \in {"WARN", "CRIT"}

(* Of two runs of a check that find an object unchanged, the later one is  *)
(* not the milder: with the clock alone, and with upgrades of the server,  *)
(* things only get worse.  An event is the exception: it goes out of the   *)
(* window; and what a node answers is not part of the object.              *)
NeverMilder ==
  Read /\ check = before.check /\ before.failed = "no"
       /\ check \notin Asking \cup {"events.warnings"} /\ kind # "measured" =>
    /\ \A o \in DOMAIN listed \cap DOMAIN before.listed :
         listed[o] = before.listed[o] =>
           rank(StatusOf(before.out, o)) <= rank(StatusOf(out, o))
    /\ listed = before.listed => rank(Worst(before.out)) <= rank(Worst(out))

(* A leader that renews its lease in time is not reported, although its    *)
(* renewals, the run and the clocks are not in step: the factor of two     *)
(* covers a clock that is ahead by up to the lease's duration.             *)
LiveLeaderIsHealthy ==
  Read /\ kind = "lease" =>
    \A o \in DOMAIN listed :
      then.alive /\ listed[o].phase = "Held" /\ skew <= Duration(listed[o]) => Worst(out) = "OK"

(* The server's version is read before the nodes': in an upgrade, where    *)
(* versions only grow and the server goes first, no kubelet is reported to *)
(* lag further behind than it did.                                         *)
SkewNotOverstated ==
  Read /\ check = "nodes.versionSkew" =>
    \A f \in out : f.on \in DOMAIN listed =>
      rank(f.status) <= rank(versionSkew(listed[f.on], then.server))

(* nodes.disk passes over the nodes that are not ready in silence; between *)
(* it and nodes.ready every node that both listed alike is asked or        *)
(* reported.                                                               *)
NoNodeUnseen ==
  Read /\ before.failed = "no" /\ {check, before.check} = {"nodes.ready", "nodes.disk"} =>
    \A o \in DOMAIN listed \cap DOMAIN before.listed : listed[o] = before.listed[o] =>
      \/ o \in asked \cup before.asked
      \/ StatusOf(IF check = "nodes.ready" THEN out ELSE before.out, o) # "OK"

(* The failures no check may take for absence. *)
Unexcused == {"error", "expired"} \cup (IF kind = "measured" THEN {} ELSE {"unavailable"})

(* No run is silent, and none passes over a failed read: it says OK or     *)
(* SKIP at least, never OK when a read failed, and that it does not know   *)
(* or worse unless what it is about is not there, or forbidden.  Only      *)
(* nodes.cpu (and its twin) is silent, exactly when every node it has      *)
(* usage of is without capacity, and takes a 503 for absence; the          *)
(* snapshots' check takes any error for it (helpers.go 18-30,              *)
(* nodes_resources.go 120-129 and 153, operator_helpers.go 8-25).          *)
NothingUnsaid ==
  Done =>
    /\ out = {} => /\ kind = "measured"
                   /\ \A o \in DOMAIN usage \cap DOMAIN listed : desired(listed[o]) = 0
    /\ failed # "no" => \A f \in out : f.status # "OK"
    /\ failed \in Unexcused /\ check # "rke2.snapshots.recent" => Worst(out) # "OK"

(* apiserver_certexpiry.go:60-63: a certificate that has already expired   *)
(* is reported as such, that is, as critical.                              *)
ExpiredCertIsCritical == Done /\ failed = "expired" => Worst(out) = "CRIT"

-----------------------------------------------------------------------------
(* The parts of the inductive invariant.                                   *)

(* The objects have been listed in this run. *)
HasListed == pc \in {"each", "judge"} \/ Read

(* Which check runs, and which reads may have failed by now. *)
RunInv ==
  /\ IF runs = 0 THEN pc = "idle" /\ listed = Empty /\ out = {} /\ asked = {}
     ELSE check \in IDs /\ CheckKind[check] = kind
  /\ pc \in {"server", "metrics", "list", "judge"} => failed = "no" /\ out = {}
  /\ pc = "judge" \/ Read => todo = {}

(* The clocks and the versions: what is read later is no less. *)
TimeInv ==
  /\ api <= server /\ began <= now
  /\ runs > 0 => at = began + skew
  /\ pc # "idle" => now - began <= Latency
  /\ HasListed => began <= then.now /\ then.now <= now /\ api <= then.server

(* What the times in an object x mean at time t. *)
Sound(x, t, live) ==
  /\ x.created <= x.since /\ x.since <= t
  /\ x.phase \in Young => x.since = x.created
  /\ kind = "namespace" /\ x.phase = "Terminating" => x.stamp = x.since
  /\ kind \in {"lease", "certificate"} => x.stamp # None
  /\ kind = "lease" =>
       x.stamp <= t /\ (live /\ x.phase = "Held" => t - x.stamp <= Duration(x))

AgeInv ==
  /\ \A o \in Here : Sound(objs[o], now, alive)
  /\ HasListed => \A o \in DOMAIN listed : Sound(listed[o], then.now, then.alive)

(* An object that has not moved since the run began was listed as it is.   *)
StayInv ==
  HasListed => \A o \in Here : objs[o].since < began =>
    /\ o \in DOMAIN listed
    /\ listed[o].phase = objs[o].phase /\ listed[o].created = objs[o].created
    /\ listed[o].since = objs[o].since

(* While nodes are asked, what failed is told; nodes.disk asks the ready.  *)
AskInv ==
  /\ pc = "each" =>
       /\ \A f \in out : f.status # "OK"
       /\ failed # "no" => out # {}
       /\ failed \notin {"no", "Forbidden"} => \E f \in out : f.status \in {"UNKNOWN", "CRIT"}
  /\ HasListed /\ check = "nodes.disk" =>
       \A o \in DOMAIN listed : nodeReady(listed[o]) => o \in asked \cup todo

(* What a finished run says is what the check makes of what was listed, at *)
(* a time between the run's beginning and its end.                         *)
Judged(t) ==
  /\ kind = "lease" => t = at
  /\ t <= then.now + Latency + skew
  /\ out = Findings(check, listed, t, api)

ReportInv ==
  Read /\ check \notin Asking /\ kind # "measured" => \E t \in at..Clock : Judged(t)

(* And so does the run before, at an earlier time and an older version.    *)
BeforeInv ==
  \/ before.listed = Empty /\ before.out = {}
  \/ /\ before.check \in IDs /\ CheckKind[before.check] = kind
     /\ before.failed = "no" =>
          /\ before.check \notin Asking /\ kind # "measured" =>
               \E t \in skew..at, v \in 0..api :
                 before.out = Findings(before.check, before.listed, t, v)
          /\ before.check = "nodes.disk" =>
               \A o \in DOMAIN before.listed : nodeReady(before.listed[o]) => o \in before.asked

(* The inductive invariant: types, the run's course, the meaning of the    *)
(* times, what has been listed and what was made of it, in this run and in *)
(* the one before.                                                         *)
IInv ==
  TypeOK /\ RunInv /\ TimeInv /\ AgeInv /\ StayInv /\ AskInv /\ NothingUnsaid /\ ReportInv /\ BeforeInv
=============================================================================
