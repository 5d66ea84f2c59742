----------------------------- MODULE EtcdCollect -----------------------------
(***************************************************************************)
(* internal/etcd: one call of Collect, which reads etcd member by member   *)
(* through one source after another, while members come and go, a leader   *)
(* is lost or elected, and alarms are raised and cleared.                  *)
(*                                                                         *)
(* etcd, the API server and the nodes are external: a call to them may     *)
(* fail at any time, and succeeds only if what it asks is there.           *)
(***************************************************************************)
EXTENDS EtcdChecks

CONSTANTS
  N,            \* etcd has the members 1..N
  OptionSets,   \* the Options and Reachers Collect may be called with
  Pods,         \* members that run as a pod labelled component=etcd
  DBSize,       \* each member's db size ...
  DBSizeInUse,  \* ... and how much of it is in use
  ServerQuota,  \* etcd's own --quota-backend-bytes
  DefaultQuota  \* 8 GiB

Members == 1..N
Sources == {"direct", "pod-exec", "in-cluster", "via-apiserver"}
Modes == Sources \cup {"auto", "bogus"}
Options == [mode : Modes, endpoints : SUBSET Members, tls : {"none", "partial", "unreadable", "full"},
            image : BOOLEAN, config : BOOLEAN, quota : Nat]

ASSUME SizeAssumption == N \in Nat
ASSUME OptionsAssumption == OptionSets \subseteq Options /\ Pods \subseteq Members
ASSUME BytesAssumption ==
  /\ DBSize \in [Members -> Nat] /\ DBSizeInUse \in [Members -> Nat]
  /\ ServerQuota \in Nat /\ DefaultQuota \in Nat \ {0}

VARIABLES
  \* etcd:
  up,         \* the members that respond
  leader,     \* is there a leader?
  alarm,      \* is an alarm active?
  \* The call:
  opts,       \* its options
  src,        \* the source being asked, "begin" or "done"
  step,       \* where in it: "enter", "members", "quota" or "alarms"
  i,          \* the member to be read next
  st,         \* the Status being filled
  tried,      \* the sources that were unavailable
  answer,     \* what Collect returned
  \* What happened since the call began, kept to state the properties:
  wasUp,      \* the members that were up at some moment
  hadLeader,  \* was there a leader at some moment?
  alarmFree,  \* was no alarm active at some moment?
  alarmsRead  \* have the alarms in st been read?

world == <<up, leader, alarm>>
past == <<wasUp, hadLeader, alarmFree>>
vars == <<up, leader, alarm, opts, src, step, i, st, tried, answer,
          wasUp, hadLeader, alarmFree, alarmsRead>>

(* Collect's default for a quota that was not given. *)
OptQuota == IF opts.quota = 0 THEN DefaultQuota ELSE opts.quota

EmptyStatus(mode, quota) ==
  [mode |-> mode, reachable |-> FALSE, hasLeader |-> FALSE, alarms |-> FALSE,
   members |-> [m \in Members |-> "absent"], size |-> 0, inUse |-> 0, quota |-> quota]

StatusSet ==
  [mode : Sources, reachable : BOOLEAN, hasLeader : BOOLEAN, alarms : BOOLEAN,
   members : [Members -> {"absent", "reachable", "unreachable"}],
   size : Nat, inUse : Nat, quota : Nat]

(* The types of the call's state. *)
TypeOK ==
  /\ up \subseteq Members /\ leader \in BOOLEAN /\ alarm \in BOOLEAN
  /\ opts \in Options
  /\ src \in Sources \cup {"begin", "done"}
  /\ step \in {"enter", "members", "quota", "alarms"}
  /\ i \in 1..(N + 1)
  /\ st \in StatusSet
  /\ tried \subseteq Sources
  /\ answer \in [kind : {"none", "status", "unavailable", "error"}, st : StatusSet]
  /\ wasUp \subseteq Members
  /\ hadLeader \in BOOLEAN /\ alarmFree \in BOOLEAN /\ alarmsRead \in BOOLEAN

Init ==
  /\ up \in SUBSET Members /\ leader \in BOOLEAN /\ alarm \in BOOLEAN
  /\ opts \in OptionSets
  /\ src = "begin" /\ step = "enter" /\ i = 1
  /\ st = EmptyStatus("direct", 0)
  /\ tried = {}
  /\ answer = [kind |-> "none", st |-> EmptyStatus("direct", 0)]
  /\ wasUp = up /\ hadLeader = leader /\ alarmFree = ~ alarm
  /\ alarmsRead = FALSE
-----------------------------------------------------------------------------
(* etcd changes while the call lasts. *)
EtcdChanges ==
  /\ src # "done"
  /\ \/ \E m \in Members : up' = (IF m \in up THEN up \ {m} ELSE up \cup {m}) /\ UNCHANGED <<leader, alarm>>
     \/ leader' = ~ leader /\ UNCHANGED <<up, alarm>>
     \/ alarm' = ~ alarm /\ UNCHANGED <<up, leader>>
  /\ wasUp' = wasUp \cup up'
  /\ hadLeader' = (hadLeader \/ leader')
  /\ alarmFree' = (alarmFree \/ ~ alarm')
  /\ UNCHANGED <<opts, src, step, i, st, tried, answer, alarmsRead>>
-----------------------------------------------------------------------------
(* How Collect goes on. *)
Ask(s) ==
  /\ src' = s
  /\ step' = "enter"
  /\ alarmsRead' = FALSE
  /\ UNCHANGED <<i, st, answer>>

Return(kind, status) ==
  /\ src' = "done"
  /\ answer' = [kind |-> kind, st |-> status]
  /\ UNCHANGED <<step, i, st, alarmsRead>>

(* Mutant: the Job is not tried after an unavailable pod-exec. *)
FollowingWithoutJob(s) ==
  CASE s = "direct" -> "pod-exec"
    [] s = "pod-exec" -> "via-apiserver"
    [] OTHER -> "via-apiserver"

(* collectAuto: the source after s. *)
Following(s) ==
  CASE s = "direct" -> "pod-exec"
    [] s = "pod-exec" -> "in-cluster"
    [] OTHER -> "via-apiserver"

(* Source s is unavailable: auto asks the next, a chosen mode returns it,  *)
(* and so does the last source of auto.                                    *)
Unavailable(s) ==
  /\ tried' = tried \cup {s}
  /\ IF opts.mode = "auto" /\ s # "via-apiserver" THEN Ask(Following(s))
     ELSE Return("unavailable", EmptyStatus("direct", 0))

(* Any other error ends auto as well. *)
Fail == UNCHANGED tried /\ Return("error", EmptyStatus("direct", 0))

(* Start reading members into a new Status. *)
ReadMembers(mode, quota) ==
  /\ st' = EmptyStatus(mode, quota)
  /\ step' = "members"
  /\ i' = 1
  /\ alarmsRead' = FALSE
  /\ UNCHANGED <<src, tried, answer>>

(* Collect's switch. *)
Collect ==
  /\ src = "begin"
  /\ CASE opts.mode = "bogus" -> Fail
       [] opts.mode = "auto" -> Ask(IF opts.endpoints = {} THEN "pod-exec" ELSE "direct") /\ UNCHANGED tried
       [] OTHER -> Ask(opts.mode) /\ UNCHANGED tried
  /\ UNCHANGED <<world, opts, past>>
-----------------------------------------------------------------------------
At(s, where) == src = s /\ step = where

(* collectDirect: no endpoints, TLS flags that do not go together or files *)
(* that cannot be read, a client that cannot be made or a member list that *)
(* is not answered.                                                        *)
DirectUnavailable ==
  /\ At("direct", "enter")
  /\ opts.endpoints = {} \/ opts.tls \in {"none", "full"}
  /\ Unavailable("direct")
  /\ UNCHANGED <<world, opts, past>>

DirectTLSFails ==
  /\ At("direct", "enter")
  /\ opts.endpoints # {} /\ opts.tls \in {"partial", "unreadable"}
  /\ Fail
  /\ UNCHANGED <<world, opts, past>>

DirectStarts ==
  /\ At("direct", "enter")
  /\ opts.endpoints \cap up # {} /\ opts.tls \in {"none", "full"}
  /\ ReadMembers("direct", OptQuota)
  /\ UNCHANGED <<world, opts, past>>

(* Mutant: the sizes of the last member stand for all. *)
ReachedLast(m) ==
  [st EXCEPT !.members[m] = "reachable", !.reachable = TRUE,
             !.hasLeader = @ \/ leader,
             !.size = DBSize[m], !.inUse = DBSizeInUse[m]]

(* What member m adds to the Status when it responds, and when it does not.*)
Reached(m) ==
  [st EXCEPT !.members[m] = "reachable", !.reachable = TRUE,
             !.hasLeader = @ \/ leader,
             !.size = @ + DBSize[m], !.inUse = @ + DBSizeInUse[m]]

Missed(m) == [st EXCEPT !.members[m] = "unreachable"]

(* Status() of the next endpoint. *)
DirectStatus ==
  /\ At("direct", "members") /\ i <= N
  /\ i' = i + 1
  /\ IF i \in opts.endpoints
     THEN \/ i \in up /\ st' = Reached(i)
          \/ st' = Missed(i)
     ELSE UNCHANGED st
  /\ UNCHANGED <<world, opts, src, step, tried, answer, past, alarmsRead>>

(* A Status no member of which responded is unavailable. *)
Finish(s, status) ==
  IF status.reachable THEN UNCHANGED tried /\ Return("status", status)
  ELSE Unavailable(s)

(* AlarmList, whose error is ignored. *)
DirectAlarms ==
  /\ At("direct", "members") /\ i > N
  /\ \/ /\ opts.endpoints \cap up # {}
        /\ st' = [st EXCEPT !.alarms = alarm]
        /\ alarmsRead' = TRUE
     \/ UNCHANGED <<st, alarmsRead>>
  /\ step' = "alarms"
  /\ UNCHANGED <<world, opts, src, i, tried, answer, past>>

DirectEnds ==
  /\ At("direct", "alarms")
  /\ Finish("direct", st)
  /\ UNCHANGED <<world, opts, past>>
-----------------------------------------------------------------------------
(* PodExec: no rest.Config, no list of pods or an empty one. *)
PodExecUnavailable ==
  /\ At("pod-exec", "enter")
  /\ Unavailable("pod-exec")
  /\ UNCHANGED <<world, opts, past>>

PodExecStarts ==
  /\ At("pod-exec", "enter")
  /\ opts.config /\ Pods # {}
  /\ ReadMembers("pod-exec", 0)
  /\ UNCHANGED <<world, opts, past>>

(* podStatus: etcdctl in the next pod, with one candidate of certificates  *)
(* after another.  The first pod that answers is asked for the quota and   *)
(* the alarms before the next.                                             *)
PodStatus ==
  /\ At("pod-exec", "members") /\ i <= N
  /\ \/ /\ i \in Pods \cap up
        /\ st' = Reached(i)
        /\ IF st.reachable THEN i' = i + 1 /\ UNCHANGED step
           ELSE step' = "quota" /\ UNCHANGED i
     \/ /\ i \in Pods
        /\ st' = Missed(i)
        /\ i' = i + 1
        /\ UNCHANGED step
     \/ /\ i \notin Pods
        /\ i' = i + 1
        /\ UNCHANGED <<st, step>>
  /\ UNCHANGED <<world, opts, src, tried, answer, past, alarmsRead>>

(* fetchQuota: 0 when it fails. *)
FetchQuota ==
  /\ At("pod-exec", "quota")
  /\ \/ i \in up /\ st' = [st EXCEPT !.quota = ServerQuota]
     \/ UNCHANGED st
  /\ step' = "alarms"
  /\ UNCHANGED <<world, opts, src, i, tried, answer, past, alarmsRead>>

(* fetchAlarms: none when it fails. *)
FetchAlarms ==
  /\ At("pod-exec", "alarms")
  /\ \/ i \in up /\ st' = [st EXCEPT !.alarms = alarm] /\ alarmsRead' = TRUE
     \/ UNCHANGED <<st, alarmsRead>>
  /\ step' = "members"
  /\ i' = i + 1
  /\ UNCHANGED <<world, opts, src, tried, answer, past>>

PodExecEnds ==
  /\ At("pod-exec", "members") /\ i > N
  /\ Finish("pod-exec", IF st.quota = 0 THEN [st EXCEPT !.quota = OptQuota] ELSE st)
  /\ UNCHANGED <<world, opts, past>>
-----------------------------------------------------------------------------
(* InClusterJob (JobContract): no image, or no result. *)
JobUnavailable ==
  /\ At("in-cluster", "enter")
  /\ Unavailable("in-cluster")
  /\ UNCHANGED <<world, opts, past>>

(* The context ended while the launcher waited. *)
JobCanceled ==
  /\ At("in-cluster", "enter")
  /\ opts.image
  /\ Fail
  /\ UNCHANGED <<world, opts, past>>

(* What the probe on the node of member m reads of that one endpoint, with *)
(* the default quota.                                                      *)
JobReached(m) ==
  [EmptyStatus("in-cluster", DefaultQuota)
     EXCEPT !.members[m] = "reachable", !.reachable = TRUE, !.hasLeader = leader,
            !.size = DBSize[m], !.inUse = DBSizeInUse[m]]

JobMissed(m) ==
  [EmptyStatus("in-cluster", DefaultQuota) EXCEPT !.members[m] = "unreachable"]

(* The probe's collectDirect, in one step.  Its Status is printed even     *)
(* when the member did not respond after the member list.                  *)
JobAnswers ==
  /\ At("in-cluster", "enter")
  /\ opts.image
  /\ \E m \in up : \E s \in {JobReached(m), JobMissed(m)} :
       \/ answer' = [kind |-> "status", st |-> [s EXCEPT !.alarms = alarm]] /\ alarmsRead' = TRUE
       \/ answer' = [kind |-> "status", st |-> s] /\ alarmsRead' = FALSE
  /\ src' = "done"
  /\ UNCHANGED <<world, opts, step, i, st, tried, past>>
-----------------------------------------------------------------------------
(* The etcd lines of /readyz?verbose: the API server finds etcd healthy    *)
(* only through a member that is up, with a leader.                        *)
ReadyzLines == {{}, {"-"}} \cup (IF up # {} /\ leader THEN {{"+"}, {"+", "-"}} ELSE {})

parseReadyzEtcd(lines) == [seen |-> lines # {}, healthy |-> "+" \in lines]

(* /readyz cannot be read (a failing line makes it an HTTP error), or has  *)
(* no etcd lines.                                                          *)
ViaAPIServerUnavailable ==
  /\ At("via-apiserver", "enter")
  /\ Unavailable("via-apiserver")
  /\ UNCHANGED <<world, opts, past>>

ViaAPIServer ==
  /\ At("via-apiserver", "enter")
  /\ \E lines \in ReadyzLines :
       LET etcd == parseReadyzEtcd(lines)
       IN /\ "-" \notin lines
          /\ etcd.seen
          /\ Return("status", [EmptyStatus("via-apiserver", OptQuota)
                                 EXCEPT !.reachable = etcd.healthy, !.hasLeader = etcd.healthy])
  /\ UNCHANGED <<world, opts, tried, past>>

Done == src = "done" /\ UNCHANGED vars

Next ==
  \/ EtcdChanges \/ Collect
  \/ DirectUnavailable \/ DirectTLSFails \/ DirectStarts \/ DirectStatus \/ DirectAlarms \/ DirectEnds
  \/ PodExecUnavailable \/ PodExecStarts \/ PodStatus \/ FetchQuota \/ FetchAlarms \/ PodExecEnds
  \/ JobUnavailable \/ JobCanceled \/ JobAnswers
  \/ ViaAPIServerUnavailable \/ ViaAPIServer
  \/ Done

Spec == Init /\ [][Next]_vars
-----------------------------------------------------------------------------
Answered == src = "done"

(* In auto mode, the sources asked before s. *)
Better(s) ==
  LET first == IF opts.endpoints = {} THEN {} ELSE {"direct"}
  IN CASE s = "direct" -> {}
       [] s = "pod-exec" -> first
       [] s = "in-cluster" -> first \cup {"pod-exec"}
       [] OTHER -> first \cup {"pod-exec", "in-cluster"}

(* What is the case now was the case at some moment. *)
PastInv ==
  /\ up \subseteq wasUp
  /\ leader => hadLeader
  /\ ~ alarm => alarmFree

(* What a Status says was the case at some moment. *)
Witnessed(s) ==
  /\ s.reachable => wasUp # {}
  /\ s.hasLeader => hadLeader
  /\ alarmsRead /\ ~ s.alarms => alarmFree

StatusInv ==
  /\ src # "done" => Witnessed(st)
  /\ step # "enter" /\ src \in Sources => st.mode = src
  /\ src = "pod-exec" /\ step \in {"quota", "alarms"} => i <= N
  /\ src # "done" => answer.kind = "none"
  /\ src # "done" /\ step = "enter" => ~ alarmsRead
  /\ answer.kind = "status" => Witnessed(answer.st)

(* How far auto is: it has come to a source through all the better ones.   *)
TriedInv ==
  opts.mode = "auto" =>
    /\ src = "begin" => tried = {}
    /\ src = "direct" => opts.endpoints # {}
    /\ src \in Sources => tried = Better(src)
    /\ src = "done" /\ answer.kind = "status" => tried = Better(answer.st.mode)
    /\ src = "done" /\ answer.kind = "unavailable" =>
         tried = Better("via-apiserver") \cup {"via-apiserver"}

(* The members a Status tells of, and those a source asks. *)
Listed(s) == {m \in Members : s.members[m] # "absent"}
Asked(s) == IF s = "direct" THEN opts.endpoints ELSE Pods

(* The Status tells of the members asked so far and, when it is returned,  *)
(* of all of them, or of one; and a member that responded was up.          *)
CoverInv ==
  /\ src \in {"direct", "pod-exec"} /\ step # "enter" =>
       Listed(st) = {m \in Asked(src) :
                       m < i \/ (m = i /\ src = "pod-exec" /\ step \in {"quota", "alarms"})}
  /\ src = "direct" /\ step = "alarms" => i > N
  /\ \A m \in Members : st.members[m] = "reachable" => m \in wasUp
  /\ answer.kind = "status" =>
       /\ \A m \in Members : answer.st.members[m] = "reachable" => m \in wasUp
       /\ IF answer.st.mode \in {"direct", "pod-exec"}
          THEN Listed(answer.st) = Asked(answer.st.mode)
          ELSE \A m, k \in Listed(answer.st) : m = k

Fragmented(m, pct) == AtLeast(pct, DBSize[m] - DBSizeInUse[m], DBSize[m])

(* The members a Status calls reachable: those whose sizes it adds up. *)
Read(s) == {m \in Members : s.members[m] = "reachable"}

(* The sums of a Status are between what its members have: no less than    *)
(* the size of any, no more than as many times the largest as were read,   *)
(* and fragmented only if some are, as they are if all.                    *)
Summed(s) ==
  /\ \A m \in Read(s) : s.size >= DBSize[m]
  /\ s.size = 0 \/ \E m \in Read(s) : s.size <= Cardinality(Read(s)) * DBSize[m]
  /\ (\A m \in Read(s) : ~ Fragmented(m, 50)) =>
       s.size = 0 \/ 100 * (s.size - s.inUse) < 50 * s.size
  /\ (\A m \in Read(s) : Fragmented(m, 25)) => 100 * (s.size - s.inUse) >= 25 * s.size

SumInv == Summed(st) /\ Summed(answer.st)

(* The inductive invariant of a call: types, the Status being filled is    *)
(* witnessed, auto has skipped no source, and what the Status says of      *)
(* members and sizes is what was read (etcd.go 110-176, direct.go 51-88).  *)
IInv == TypeOK /\ PastInv /\ StatusInv /\ TriedInv /\ CoverInv /\ SumInv

(* etcd.health finds etcd healthy only if it was: at some moment of the    *)
(* call a member was up, at some moment there was a leader and, where the  *)
(* alarms could be read, at some moment there was none, whatever source    *)
(* gave the answer after whichever others failed half way (etcd.go         *)
(* 144-176, direct.go 51-88, podexec.go 113-146, etcd_checks.go 60-88).    *)
HealthOKWitnessed ==
  Answered /\ Health(answer) = "OK" =>
    /\ wasUp # {}
    /\ hadLeader
    /\ alarmsRead => alarmFree

(* etcd.members says OK only of at least three members, each of which was  *)
(* up at some moment of the call, and every endpoint or pod of the source  *)
(* that answered is among them (etcd_checks.go 220-271).                   *)
MembersOKWitnessed ==
  Answered /\ MembersCheck(answer) = "OK" =>
    LET listed == {m \in Members : answer.st.members[m] # "absent"}
    IN /\ listed \subseteq wasUp
       /\ Cardinality(listed) >= 3
       /\ listed = IF answer.st.mode = "direct" THEN opts.endpoints ELSE Pods

(* In auto mode a source gives the answer, or none does, only when every   *)
(* better one was asked and was unavailable (etcd.go 144-176).             *)
NoSourceSkipped ==
  Answered /\ opts.mode = "auto" =>
    /\ answer.kind = "status" => tried = Better(answer.st.mode)
    /\ answer.kind = "unavailable" => tried = Better("via-apiserver") \cup {"via-apiserver"}

(* etcd.defrag says CRIT only if one of the members it read is itself at   *)
(* 50 %, and OK only if one is below 25 %: summing the sizes over members  *)
(* that could be read gives no verdict none of them has (etcd_checks.go    *)
(* 168-209, direct.go 67-68, podexec.go 125-126).                          *)
DefragIsSomeMembers ==
  Answered /\ Defrag(answer) \in {"OK", "CRIT"} =>
    \E m \in Members :
      /\ answer.st.members[m] = "reachable"
      /\ LET one == Band(DBSize[m] - DBSizeInUse[m], DBSize[m], 25, 50)
         IN one = Defrag(answer)

(* etcd.size never plays a full member down: it says CRIT if a member it   *)
(* read is itself at 90 % of the quota, and OK only if all it read are     *)
(* below 75 %, although it holds the sum of the sizes against the quota    *)
(* (etcd_checks.go 110-151, direct.go 67, podexec.go 125).                 *)
SizeNotUnderstated ==
  Answered /\ answer.kind = "status" =>
    \A m \in Members :
      answer.st.members[m] = "reachable" =>
        /\ AtLeast(90, DBSize[m], answer.st.quota) => Size(answer) = "CRIT"
        /\ Size(answer) = "OK" => ~ AtLeast(75, DBSize[m], answer.st.quota)

(* etcd.size exaggerates by at most the number of members it read, and not *)
(* at all when it read one: n members give CRIT only if one of them has at *)
(* least a share of 90 / n % of the quota, and WARN only with 75 / n %     *)
(* (etcd_checks.go 124-143, direct.go 67, podexec.go 125).                 *)
SizeOverstatedAtMostByMembers ==
  Answered /\ Size(answer) \in {"WARN", "CRIT"} =>
    \E m \in Read(answer.st) :
      AtLeast(IF Size(answer) = "CRIT" THEN 90 ELSE 75,
              Cardinality(Read(answer.st)) * DBSize[m], answer.st.quota)

(* What the verdicts on sums of sizes say of the members that were read.   *)
(* etcd.defrag's CRIT and OK are each true of some member.  etcd.size      *)
(* plays no member down; its WARN and CRIT need be true of none (three     *)
(* members at 40 % of the quota are CRIT), but err by no more than the     *)
(* number of members (etcd_checks.go 110-209).                             *)
SizeVerdictsBounded ==
  DefragIsSomeMembers /\ SizeNotUnderstated /\ SizeOverstatedAtMostByMembers
=============================================================================
