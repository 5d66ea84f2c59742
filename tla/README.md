# Verification of k8s-health (khealth)

khealth is a Go command line tool that runs a registry of health checks against
a Kubernetes cluster, prints a report, and ends with an exit code that CI
systems act on; `khealth watch` does the same on an interval in a terminal UI.
This directory holds TLA+ modules for the parts of it whose behaviour depends
on order, failure and interleaving, TLC configurations that check them on small
instances, and TLAPS proofs of the main results for all instances.

## 1. The system

| Part | Source | State | Operations | Hard because |
|---|---|---|---|---|
| runner | `internal/runner/runner.go` | worker pool: feeder, workers, collector, two unbuffered channels, a wait group, a context | `Run`, `runOne` | four kinds of goroutines end in one order only; the context may end at any moment; `select` picks at random; a check may panic |
| result | `internal/result` | findings, report, baseline files | `Worst`, `ExitCode`, `Compare`, `LoadBaseline`, `SaveBaseline` | files are shared between invocations and not written atomically |
| check command | `internal/cli/check.go`, `exit.go`, `cmd/khealth/main.go` | one report on its way through filter, save, compare, render | `newCheckScopeCmd`, `runChecks`, `applyOnlyUnhealthy`, `applyBaseline`, `checkExit`, `run` | the report is rewritten three times before it decides the exit code |
| watch | `internal/watch` | bubbletea model, tracker, pending timers, runs in flight | `Update`, `View`, `runOnce`, `tickEvery`, `Tracker.Diff` | runs overlap, their reports arrive in any order, between pauses, refreshes and errors |
| registry and scope | `internal/checks/registry.go`, `distro*.go` | registered checks | `Register`, `Filter`, `ParseDistro`, `DetectDistro` | errors, and a context that has ended, pass for absence; an installation may be under way |
| etcd collection | `internal/etcd`, `internal/cli/etcd_probe.go` | the Status being filled, the probe Job | `Collect`, `collectAuto`, `collectDirect`, `PodExec`, `InClusterJob`, `ViaAPIServer` | several sources, partial answers, a Job with a TTL against a poll |
| etcd checks | `internal/checks/etcd_checks.go` | none | four checks | thresholds at their boundaries |
| checks that follow references | `pods_missingrefs.go`, `services_no*.go`, `ingresses.go`, `hpas_missingtarget.go`, `pv_pvc_health.go`, `pdbs.go` | locals of one `Run` | eight checks | they join reads that are not of one moment, any of which may fail |
| checks that judge objects one by one | most of `internal/checks/*.go` | locals of one `Run` | thirty checks and three twins | ages against thresholds by another clock, rounding, missing fields, answers node by node |
| checks of policy objects | `rbac_wildcards.go`, `webhooks_timeout.go` | none | two checks | nothing |
| kube environment | `internal/kube/kube.go` | configuration | `Build` | choice between kubeconfig and in-cluster; the label and the namespace are computed apart from it |
| renderers | `internal/render` | none | `Render` | column widths and wrapping |
| declarative tests, version | `internal/cli/test.go`, `version.go` | none | stubs | |

How they interact: `main` gives cobra a context that SIGINT and SIGTERM cancel.
A check subcommand builds the environment, derives a context with a deadline,
selects checks from the registry, hands them to the runner, filters the report,
saves it, compares it with a baseline, renders it and turns it into an exit
code. Watch calls the same `runChecks` from a goroutine per tick, under a
context of its own, and hands the result to the event loop as a message.

## 2. Modules

`Result` holds the pure definitions: statuses, `rank`, `Worst`, `ExitCode`, the
key of a finding and `Compare`. A finding's text decides nothing and is left
out. The operators take the *set* of a report's findings.

`ReportLoops` is the eight loops of the code over the findings *slice*, in their
order and one iteration a step: in-place compaction over a shared array
(`applyOnlyUnhealthy`), the four loops of `Compare`, the two of `applyBaseline` and
the running worst. `loop` and `i` are the loop and its index; a slice is an array and
a length (`array`, `len`), because the compaction writes the array it ranges over.
Its invariant says at every iteration what the loops have made so far, in terms of
the definitions on sets.

`RunContract` is the abstract specification of `runner.Run`: each check runs at
most once, its findings are delivered completely and in order, and the call
returns when everything was delivered and, if the context is alive, everything
ran. No workers, no channels.

`Runner` is the pool. The goroutines and their places:

| variable | code |
|---|---|
| `next`, `feeder` | the loop over `list` with its `select`, the deferred `close(jobs)` |
| `worker[w]` | range over jobs; `runOne`; the loop that sends its findings |
| `collector`, `report` | range over findings, `append`, `close(doneCollect)` |
| `main`, `err` | `wg.Wait`, `close(findings)`, `<-doneCollect`, `ctx.Err` |
| `ctx`, `crashed` | the context given to `Run`; a panic has ended the process |

A send and the matching receive over an unbuffered channel are one step. What
a check returns is any of `RunResults[c]`, or UNKNOWN when a context ended under
it, or SKIP for a missing capability. `output` records what each check
returned, to state what the report must hold.

`CheckCmdOps` and `CheckCmd` are the check command, from the runner's result to
the exit code. Several invocations, each with its command line, share files;
each step of the command that touches a file is an action, and any invocation
may be killed between two of them. A file is absent, empty (opened with
O_TRUNC), garbage (two writers, the shorter text last) or the JSON of a report.
The shell's redirection of `-o json` is a file that is truncated at the start
and written at the end. A Resource is a name and the number of
`[seen-before] ` prefixes on it, which is what decides whether keys match.
What the runner may return is `RunContract`'s promise.

`Watch` is the terminal UI's event loop: one action per message of `Update`
(tick, tick while paused, the keys, a report, an error), the end of a run, and
the end of the program. Commands run in goroutines of their own (bubbletea,
external), so that any message of a finished run may come next.

`EtcdCollect` is one call of `etcd.Collect`, with the sources it asks, against
an etcd that changes under it. A call to etcd, a node or the API server is one
step; it may fail at any time and succeeds only if what it asks is there.

| variable | code |
|---|---|
| `up`, `leader`, `alarm` | etcd (external) |
| `opts` | `Options`, with what `collectEtcdFor` puts into `Reachers` |
| `src`, `step`, `i` | the source being asked and where in its loop over members |
| `st` | the `Status` being filled |
| `tried`, `answer` | the sources that were `ErrUnavailable`; what `Collect` returned |
| `wasUp`, `hadLeader`, `alarmFree`, `alarmsRead` | history, to state what an answer may claim |

`EtcdChecks` holds the four checks as operators on that answer. Percentages are
compared without division. TLS flags are absent, incomplete, unreadable or
complete; the certificate paths pod-exec tries are one step. The Job is one
step here and a module of its own:

`EtcdProbe` is the probe Job: launchers (`InClusterJob`), each with its name
taken from the clock, its poll, deadline and deferred delete, against the
controllers of the cluster (external: the Job's pod starts and ends, a finished
Job is deleted after its TTL, the pod of a deleted Job is collected) and a
clock that ticks in seconds. Any launcher may be killed, any call may fail or,
for the creation, succeed without an answer.

`JobContract` is the abstract specification of a call of `InClusterJob`, and what the
one step of `EtcdCollect` rests on: without an image it is refused, a question is
answered at most once and for good, and a status comes from a probe that gave one and
was started in the second of the question or later. No Jobs, pods, names or polls. The
witness `EtcdCollect` asks for is a moment of the call; the contract allows the
beginning of its first second as well, when launchers share a name.

`Scope` is `runChecks` up to and including the runner's verdict: what is looked
at. `Build` picks the cluster, the flags are parsed, `DetectDistro` makes one
read per step, `Filter` makes the list, and `Run` stands for `RunContract`'s
promise about the context.

| variable | code |
|---|---|
| `flags` | `GlobalFlags`, each reduced to the cases the code tells apart |
| `pod`, `kubeconfig`, `current` | environment, token file and kubeconfig of the machine |
| `marks`, `changes` | what `DetectDistro` can find in the cluster (external), and how often it changed |
| `pc`, `env`, `ctx`, `distro`, `list` | the locals of `runChecks` |
| `during`, `missed` | history: the marks the cluster bore while it was asked; what kept a read from its answer |

A registered check is its ID, categories and distributions, constants, because
`Register` is called by `init` functions only and refuses duplicates there.
Client-go's loading rules are external.

`JoinChecks` is the `Run` of one of eight checks that list referrers and look up
what they refer to, against a cluster in which referrers come and go and
targets become absent, present or ready at any moment.

| variable | code |
|---|---|
| `here`, `target` | the cluster (external) |
| `pc`, `listed`, `known`, `todo`, `left`, `ns`, `out` | the reads in their order; the referrers listed; the maps, sets and caches of targets; the loops over referrers and namespaces; the findings |
| `lost` | history: what a failed read would have told of |
| `steady`, `seen`, `calm` | history: the referrers that were there throughout, the states each target was in, and that no reference ever dangled |

The checks differ in `Order` (which list comes first), in the action that looks
up a target (a list, a list per namespace, a Get with or without a cache) and in
what an error becomes: an UNKNOWN finding, a skipped object, or absence.
`Followed` and `Resolves` say which references count and what satisfies them.
A referrer names at most the targets of its own namespace; all ingresses that
name a service name one port of it.

`ObjectVerdicts` holds the verdicts of the checks on one object, one operator per
check, on the fields they read: `phase`, `created`, `stamp`, `n` and `want`.
`ObjectChecks`
runs such checks one after the other, as watch does, on one kind of object at a
time, while the objects age, change, appear and vanish, the API server is
upgraded, a leader renews its lease or dies, calls fail and take time, and
khealth's clock is ahead of or behind the cluster's.

| variable | code |
|---|---|
| `now`, `objs`, `server`, `alive` | the cluster (external) |
| `skew`, `insecure` | khealth's clock minus the cluster's; whether certificates are verified |
| `pc`, `check`, `at`, `api`, `usage`, `listed`, `todo`, `out` | one `Run`: its `time.Now()`, the server version, the metrics, the list, the nodes still to ask, the findings |
| `began`, `then`, `failed`, `asked`, `before` | history: when the run began, the clock, the server and the leader at the time of the list, the reads that failed, the nodes asked, and the run before |

What it abstracts: thresholds are a few ticks in the order the code has them
(`T`); percentages are compared exactly, where the code rounds in floating
point; a pod has one container and a node one file system; a lease has an
acquire time; a run takes at most `Latency` ticks, which in the code is
`--timeout`; time passes only for the kinds whose age is looked at. Three checks
repeat the code of another with another field or name (`scheduler.healthz`,
`nodes.memory`, `statefulsets.rollout`) and are not instantiated.

`IDs` are the checks and `CheckKind` the kind each looks at; `Findings` is what a
check makes of the objects it listed, at a time and a server version, and `Report`
applies it to what the run has read, or takes what the nodes answered. The
invariants speak of `Findings` at another time or of the run before.

`RunnerProofs`, `CheckCmdProofs`, `WatchProofs`, `EtcdCollectProofs`,
`EtcdProbeProofs`, `ScopeProofs`, `JoinChecksProofs` and `ObjectChecksProofs` hold the
theorems. `MCRunner`,
`MCCheckCmd`, `MCReportLoops`, `MCWatch`, `MCEtcdCollect`, `MCEtcdProbe`, `MCScope`,
`MCJoinChecks` and `MCObjectChecks` hold the small instances. Definitions
preceded by a comment "Mutant" are wrong on purpose: each is a plausible bug,
and the property it is listed with in `PROJECT.json` fails when it replaces the
definition after it.

## 3. Runs

| run | what it checks | instance |
|---|---|---|
| `runner` | the inductive invariant, no send after close, exact report, what a nil error means, refinement of `RunContract`; `Run` returns | 4 checks, 2 workers (the default, `OptWorkers` 0), one check without its capability, one that may panic, one that may return no finding, up to 2 findings per check |
| `check` | the inductive invariant, exit code, marking against saved baselines | 2 invocations, 4 command lines, 1 shared file, 2 checks, 3 readings of the cluster |
| `report_loops` | the loops agree with the definitions at every iteration | every report of at most 3 findings out of 6 against every baseline of at most 2 out of 3, with and without the two flags (156 762 states) |
| `watch` | the inductive invariant, what is new; every run is answered on the screen, the ticks go on | 3 runs, 2 finding keys |
| `etcd` | the inductive invariant, what OK of health and members rests on, what the verdicts on summed sizes say of the members | 3 members of different sizes, 8 sets of options |
| `probe` | the inductive invariant, no Job left behind, refinement of `JobContract` (no stale result, one answer) | 2 launchers, patience 3 s, poll 2 s, TTL 1 s, names of 2 seconds |
| `probe_live` | Jobs go, launchers return | one launcher with an image and one without |
| `joins` | the inductive invariant; no alarm and no OK without a moment that justifies it, no alarm about a cluster that grows in the right order, one verdict per target | all 8 checks, 2 referrers, 2 targets, 2 namespaces, 3 changes (653 231 states) |
| `scope` | the inductive invariant; the distribution found is the best that was there, a deadline leaves no misleading report, no check is lost | 4 checks, 2 contexts and the pod's cluster, 10 command lines, 2 changes |
| `objects` | the inductive invariant; alarms are founded, what stays bad is reported, nothing gets milder by itself, a live leader is healthy, the version skew is not overstated, nothing is left unsaid, no node goes unseen | 25 kinds, 1 or 2 objects, 2 runs, 2 changes, 5 ticks, latency 1, clock skews -1 and 2, the objects symmetric where there are 2 (3.2 million states) |
| `probe_read`, `cert_expired` | statements of comments and ADRs that the code does not keep | see section 6 |

Each `IInv` is a conjunction that begins with its module's `TypeOK` and holds the
parts a proof needs; that of `ObjectChecks` also holds `NothingUnsaid`, and those of
`JoinChecks`, `Scope` and `Watch` hold properties without an entry of their own: failed reads are reported (`FailureIsSaid`), a refused
command line asks the cluster nothing (`RefusedBeforeAsking`), the label names
the cluster that was asked (`LabelNamesCluster`), all namespaces are listed
exactly with `-A` (`AllOnlyIfAsked`), and there is one chain of timers
(`OneTickPending`).

Why the bounds are enough. Two workers make every race of the pool (two
senders, one sender against the feeder, one idle against one busy); with four
checks each worker returns for a second job and one check is left when the
context ends early. Two invocations on one file make every write-write and
write-read race, and the four command lines save, compare, do both, and
redirect JSON to the file they save to. Three findings are one to keep, one to drop and
one to move, in every order and with duplicates. Three runs are what it takes for two to overlap and a
third to be compared with them. Three members are the fewest of which
`etcd.members` says OK, and the options lead through every source and every
error. With two referrers of two targets there is a target that two referrers
share and a referrer with one good and one bad reference; three changes let a
target go and come back under a check and something else change as well. The
checks of a run share no state, so that one at a time is enough. Two changes of
the marks let one distribution replace another under `DetectDistro`; the ten
command lines take every branch of `Build` and of the parsers. Two runs let a
verdict be compared with the one before it; five ticks are past every threshold,
and the skews are a clock behind and one that is ahead by as much as one of the two
durations of a lease and by more than the other. A launcher's patience (60 s in the code) is cut to 3 s, one poll that
leaves time and one that does not; poll and TTL are the code's own. Launchers
begin in the first two seconds, so that names are equal or differ; the clock
then stands still while timers go on. The proofs remove these bounds for the
safety properties; `MaxRuns` bounds the behaviours of `Watch`, and `Horizon`,
`MaxChanges`, `MaxRuns` and `Latency` those of `ObjectChecks`, but the theorems hold
for every value of them.

Fairness. `Runner`: weak fairness of each goroutine's steps (Go runs every
goroutine that can move), which includes that a check returns; nothing of the
context or of panics. Each goroutine blocked on a channel has a partner which
is itself scheduled fairly, and a step once enabled stays enabled until taken,
except the feeder's choice of worker, for which any worker serves. `Watch`:
timers fire, a run ends (it has a 90 s context), the event loop handles what it
is sent, and a quit is carried out; nothing of the user. `EtcdProbe`: time
passes, a launcher that is not killed moves on, and the controllers do their
work, which includes that the probe's pod is started and ends (the probe has a
context of 30 s). A pod that cannot be scheduled is therefore left out of
`EveryJobGoes`; `EveryLauncherReturns` does not depend on it.

`CHECK_DEADLOCK FALSE` is said where a system may stop: the command after its last
loop (`report_loops`), launchers that have all returned, a check or a
`runChecks` that has returned (`joins`, `objects`, `scope`), and `runner`, where
`Termination` is the stronger statement and a deadlock is reported as its violation.

## 4. Proofs

All theorems are of the form `Spec => []P` (or the refinement), with the three
facts `Init => IInv`, `IInv /\ [Next]_vars => IInv'`, `IInv => P`, and the
invariants are also checked by TLC.

*Runner.* The assumptions: a number of checks, a positive default number of
workers, sets of sequences of statuses as results, and a `NotRun` that is no
sequence. `NothingLostOrRepeated` is not inductive: it speaks of the returned
state only. `IInv` adds who holds what: a check is with at most one worker,
which has no output for it while it runs (`WorkerInv`); exactly the checks
handed out have run or are running (`FeederInv`); the goroutines end in one
order (`ShutdownInv`); and the report holds exactly what was sent, in order
(`ReportInv`, over `WasSent`). The refinement maps the variables of the same
name; every step of the pool is a step of the contract or leaves its variables
alone; `LiveMeansAllRun` gives the contract's guard on returning.

*CheckCmd.* The assumptions: flags are flags, readings are sets of findings
without a prefix. `IInv` follows the report: it is what the checks returned,
filtered, until the comparison, and that compared with what was read afterwards
(`RepInv`); findings returned by a check carry no prefix (`RanInv`); and a saved
file, or what was read from one, is the whole report of the invocation that
wrote it, whose checks have returned for good (`FileInv`). The lemmas about the
operators: `WorstIs` computes `Worst`'s CHOOSE, `OnlyUnhealthyExit` and
`BaselineExit` show that neither rewrite changes an exit code, `TaggedInjective`
that findings marked alike were alike.

*ReportLoops*, in `CheckCmdProofs` (the names of its specification begin with `Loop`, so
that one module can extend both). The assumption: reports and baselines are sequences of
findings, of any length. `LoopInv` is `LoopTypes`, `Route` (a loop runs only with its
flag and not past its end) and `LoopsAgree` itself, which is stated for every iteration and therefore inductive: each loop has done its part for the
elements it has passed (`Passed`), all of its part once the next one runs. That a slice
holds *these elements, each once and in order* is `Picks`, an increasing embedding of
its indices. Stated so it needs no recursive function and no induction over the data,
only induction over steps: `PicksAdd` and `PicksSkip` say how an iteration extends the
embedding, and `PicksElements` what it amounts to on sets. The compaction in place is
safe because the write never overtakes the read (`len <= i - 1`), so that what is not
yet read is as it was. `LoopsImplement` then says that what the loops leave in the
slices is what the operations of `CheckCmd` make of the sets, which is why `CheckCmd`
may use sets.

*Watch.* `IInv` says that there is one timer, that runs start in order, that the
tracker holds the keys of the report displayed last, that displayed reports
are final, and that an answered run left an error or a report behind.

*EtcdCollect.* The assumptions: members are 1..N, sizes are naturals, options
are options. `HealthOKWitnessed` speaks of the answer only; `IInv` adds that the
Status being filled claims nothing that was not the case at some moment of the
call (`StatusInv`, over `Witnessed`), that the present is part of the past
(`PastInv`), and that auto comes to a source through all the better ones
(`TriedInv`). That a Status belongs to the source being asked and that no alarm
counts as read when a source is entered are what keeps a source that failed
half way out of the next one's answer.

What the Status says of members and sizes has two parts of its own. `CoverInv`: it
tells of exactly the endpoints or pods asked so far (which are those up to the
loop's index), of all of them when it is returned, and of members that responded
only if they were up; `etcd.members`' OK then follows without a count
(`MembersWitnessed`). `SumInv` needs no sum over a set: the Status keeps running
totals, and `Summed` states of them what adding one more member keeps, which is that
they are no less than any part, no more than the largest part times the number of
parts, and that a share all parts are under, or all are over, is one the total is
under or over. `SizesBounded` follows: the CRIT and OK of `etcd.defrag` are true of
some member, and `etcd.size` errs upwards only, by at most the number of members
(each is read once, by `CoverInv`, so that a member read adds one to the number).
That its CRIT is true of a member does not hold (section 6).

*EtcdProbe.* The assumptions: launchers, and natural numbers of seconds. `IInv`
says that a Job that is there was made by its launcher, which still has to
delete it unless it was killed or the API did not answer it (`JobInv`), and that
a pod is no older than the question of any launcher that found it (`PodInv`):
pods are found by name, the name is the second of the question, and a pod
started no earlier than its own Job's question. `AnswerInv` adds what becomes of the
result: it is there once the pod has ended, a status was read from it, and only a
launcher with an image has a Job. The refinement of `JobContract` (`Refinement`) hides
Jobs and pods; the probes of the contract are the seconds in which pods that ended with
a result were started. The steps a caller sees are the question, the return (`Cleanup`,
or at once without a Job), a kill, and a probe's end; `PodInv` and `AnswerInv` give the
contract's guard on a status.

*Scope.* The assumptions: `None` and the pod's cluster are names of their own,
the distributions of a check are distributions, flags are flags. The properties
speak of the moments after detection; `IInv` adds what holds under way: a mark
passed over was absent at some moment or not read (`DetectInv`), a read lost to
the deadline means the deadline is still the state of the context (`CtxInv`, the
reason `DeadlineNeverMisleads` holds), the list is what `Filter` makes of the
distribution (`ListInv`), and flags and environment agree from the step that
computed them on (`EnvInv`, `TimeoutInv`). `NoCheckLost` then follows from
`DetectedIsBest` and `ListInv`.

*JoinChecks.* The assumptions: references stay within a namespace, kinds are
kinds, `Nothing` is no object. `IInv` ties each local to the history: what is
known of a target is a state it has been in since the run began, or was lost
(`KnownInv`); a cluster that only grew has every target of a listed referrer in
the state it had (`CalmInv`, which rests on the order of the two lists); a
referrer that was there throughout is listed unless the list failed
(`SteadyInv`); the work that is left is what was listed and not yet said
(`TodoInv`, `ListsInv`, `EachInv`); a remembered target keeps its state
(`CacheInv`); failures are in the findings (`SaidInv`); each namespace done was
done with the budgets of some moment (`CoverageInv`); and OK is not said before
the end (`NotYetOK`). `StepInv` and `StartInv` say which check is at which step
and what the locals are before they are filled.

*ObjectChecks.* The assumptions are of two sorts. On the instance: kinds are kinds,
`Nothing` is no object, the bounds are naturals, and of a lease, a certificate or an
API server there is one (`SingleAssumption`; their checks get one object by its
name). On the thresholds (`ThresholdsAssumption`), the proportions of the code's own
constants: a warning comes before an alarm, and what is rounded to seconds or minutes
is compared with whole ones.

The invariant says which reads may have failed at which step (`RunInv`), that what is
read later is no less (`TimeInv`: began, then, now; api, then.server, server), what
the times in an object mean (`Sound`, of the objects there are and of the listed ones
at the time of the list, `AgeInv`), that an object that has not moved since the run
began was listed as it is (`StayInv`), that a node that failed is told of and every
ready one is asked (`AskInv`), and what a finished run said: `Findings` of what it
listed, at one time between its beginning and its end, no later than `Latency` after
the list (`ReportInv`); and the run before likewise, at an earlier time and with an
older server (`BeforeInv`). Without the witnesses of time and version in the last two
nothing could be compared: the clock moves on after a run has ended.

The proof has two halves. A step of the cluster is an `Evolves` step (it leaves the
run alone, times do not go back, an object changed keeps its phase and times or has
them from now on), and `Evolves` keeps `IInv`; a step of a run leaves the cluster alone
and is taken action by action. The theorems then rest on lemmas about the verdicts:
`RoundReaches` and `RoundAbove` (rounding loses no threshold it divides and adds at
most half a unit), `FindingsAre` and `StatusOfJudging` (a report says of an object
what the check says), `VerdictMonotone`, `SnapshotsMonotone` and `WorstMonotone`
(verdicts, and the worst of them, only get worse with time and upgrades). That there
is a newest snapshot in a list not assumed finite is `Greatest`: bounded naturals
have a greatest, by well-founded induction on intervals.

Only model-checked: `EveryJobGoes`, `EveryLauncherReturns`, `Termination`,
`EveryRunAnswered`, `KeepsTicking`: liveness under fairness is beyond the prover. Every
other property of a passing run is a theorem.

## 5. What is not modelled, and the plan

- `rbac.wildcards` and `webhooks.timeout`: two lists each, scanned for a fixed
  pattern on their own; there is no order, time or second actor to say anything
  about.
- The layout of the renderers and of the watch screen: widths, wrapping and
  styles of one report, without state. That rendering comes after the save, and
  may fail, is in `CheckCmd`.
- The number of runs in flight of `Watch`, which needs real time (a run has
  90 s, the interval is the user's).
- Objects without a time the cluster sets: a Terminating namespace without a
  deletion time stamp, for which `namespacesTerminating` has the code's fallback to
  the creation (no `Move` of `ObjectChecks` leads there, since the API server sets
  stamp and phase together), and a lease with neither a renewal nor an acquisition,
  which is stale (`controlplane_lease.go` 73). Of the kinds of objects modelled only
  events lack a stamp.
- `DefaultKubeconfigPath`, which nothing calls; the stub of the declarative
  tests; the version command.
- `.github/setup.js`, one line of obfuscated JavaScript to which editor and build
  configuration refer: it is no part of khealth and has no readable source.

What is left of the plan: `EtcdCollect` with the steps of `JobContract` in the place of
its Job step, and the two contracts joined in one composition with `Scope`.

Hazards without an entry in `PROJECT.json`, because a property for them would say
little: a deadline that passes after the last check and before `ctx.Err`
(`runner.go` 85) turns a complete report into an error; an unknown `-o` is noticed
after the baseline was written (`check.go` 112); a Job whose pod is never
scheduled has no end (`inclusterjob.go` 116); the probe has options of its own
(`etcd_probe.go` 31); a pod that goes from Pending to Running between two checks'
lists is seen by neither (`pods_pending.go` 35).

## 6. Where the code and its documents disagree

Two are runs that TLC must find violated; `PROJECT.json` quotes the lines.

- The probe Job's TTL of one second can beat the poll of two (`probe_read`).
- An API server certificate that has expired is UNKNOWN, not CRIT, because
  `errors.As` is given a pointer type the library never returns
  (`cert_expired`).

Others are behaviours of the modules without a run of their own. Of the runner,
the commands and etcd:

- The report is in the order in which workers send, not sorted by check ID as
  `runner.go` 34-35 has it (`Runner`, `Send`).
- An interrupted run's partial report exits like a whole one, against ADR 0006
  (`Scope`, `Run`; `NilMeansCompleteOrCanceled` says when that happens).
- JSON output of a run that used `--baseline` has the prefixes in its keys and
  does not work as a baseline, against `baseline.go` 9-11
  (`SavedBaselineMarksSeenBefore` is what holds).
- The etcd checks of one run, started in the same second, want one Job name, and
  only one gets it, against ADR 0005 (`EtcdProbe`, `JobName`).
- A panic in a check exits with 2, the code of WARN under `--strict`, and nothing
  recovers it (`CheckCmd`, `RunPanics`; ADR 0004 and 0006 say otherwise).
- `--save-baseline` and `--baseline` on one file mark every finding as seen
  before, because the save comes first (`CheckCmd`, `SaveWrites` before
  `CompareBaseline`).
- Watch calls new what the report *displayed* before did not have; when runs
  overlap that is not the previous tick's, as `diff.go` has it (`Watch`,
  `ReportMsg`; `NewSinceLastDisplayed` is what holds).
- An etcd none of whose members responds is a SKIP of `etcd.health`
  (`Unavailable`, `FromError`), and an alarm list that cannot be read passes for
  an empty one (`DirectAlarms`, `FetchAlarms`).
- The quota of the command line does not reach the probe (`JobReached`).
- The sizes of all members together are held against the quota of one, so that
  `etcd.size` says CRIT of three members at 40 % each (`Reached`, `Size`).
  `features.md` 53 describes it as "DB size & in-use size vs
  `--quota-backend-bytes`", a quota that etcd applies to each member's database.
  What holds is `SizeVerdictsBounded`: no member is played down, n members are
  exaggerated at most n-fold, and one alone is judged exactly. In the run, members
  of 30 and 10 are CRIT against a quota of 44.
- `etcd.defrag` says WARN and CRIT at exactly 25 % and 50 % (`Defrag`, whose `Band`
  has the code's `>=`), where the comment of `etcd_checks.go` 162 has ">25%" and
  ">50%" and `features.md` 54 "> threshold". `DefragIsSomeMembers` is about the
  code's thresholds.
- auto asks the etcd pods (pod-exec) between the endpoints and the Job
  (`Following`); the orders in `etcd.go` 11-13 and ADR 0005, line 70, leave them out.
- `parseReadyzEtcd` is healthy on *any* `[+]` line, its comment says on all; the
  caller never parses the body of a failing `/readyz`.

Of the scope:

- A failed read does not mean kubeadm, as `distro_detect.go` 14-17 has it: a later
  signal still decides (`Look`). Node labels are read of the first node only, where ADR
  0009 speaks of nodes; watch detects anew on every run, where it says once. ADR 0009,
  line 61, also takes the label `node.kubernetes.io/instance-type=k3s` for k3s; the code
  looks for the Lease only.
- A check whose `Distros()` is empty never runs (`AppliesToDistro`), where ADR 0009
  has it run everywhere.
- In auto mode inside a pod `--context` and `--kubeconfig` are ignored
  (`resolveConfig`; hence the exception in `LabelNamesCluster`).

Of the checks:

- `runner.go` 36-37 has errors surface as UNKNOWN. `services.noBackends`,
  `hpas.missingTarget` and `pdbs.coverage` may say OK although a read failed
  (`OKWitnessed` names them), `rke2.snapshots.recent` takes any error for a cluster
  without snapshots (`NothingUnsaid`), and `pods.missingRefs` and
  `ingresses.danglingService` turn a failed read into CRIT (`AlarmWitnessed`).
- `pdbs.coverage` lists budgets before workloads, so that a workload created with its
  budget under the check is called uncovered (`QuietWhileGrowing` leaves it out).
- The time in a phase is measured from the object's creation for
  `pv.releasedNotReclaimed`, `pods.notReady` and lost claims (`StuckIsReported` shows
  that this errs on the side of reporting).
- `nodes.cpu` and `nodes.memory` say nothing of a node metrics-server does not know,
  and nothing at all when every node they know has no capacity (`NothingUnsaid`). They
  take a 503 for a cluster without metrics-server, also when it is the list of nodes
  that fails with it (`nodeUsageSkip`); every other check says UNKNOWN or worse of one.
