------------------------------ MODULE EtcdProbe ------------------------------
(***************************************************************************)
(* internal/etcd/inclusterjob.go and internal/cli/etcd_probe.go: launchers *)
(* of the etcd probe Job (the four etcd checks of one khealth each start   *)
(* one, at once) against the controllers of the cluster: the Job's pod is  *)
(* started and ends, a finished Job is deleted after its TTL, and the pod  *)
(* of a deleted Job is collected.                                          *)
(*                                                                         *)
(* Time is counted in seconds by Tick, which lets every timer run down. A  *)
(* step whose timer has run out may still be late.  A launcher makes at    *)
(* most one Job, so that Jobs and pods are known by their launcher.        *)
(***************************************************************************)
EXTENDS Integers

CONSTANTS
  Launchers,   \* calls of the function InClusterJob returns
  WithImage,   \* those with --etcd-job-image
  NoPod,       \* the empty podName
  Patience,    \* 6 * DialTimeout, in seconds
  PollEvery,   \* the sleep between two polls, in seconds
  TTL,         \* TTLSecondsAfterFinished
  ApiFails,    \* may calls of the API fail?
  Punctual,    \* does every poll come on time?
  LastSecond   \* bound: launchers begin before this second

ASSUME LaunchersAssumption == WithImage \subseteq Launchers /\ NoPod \notin Launchers
ASSUME TimesAssumption ==
  Patience \in Nat /\ PollEvery \in Nat /\ TTL \in Nat /\ LastSecond \in Nat
ASSUME SwitchesAssumption == ApiFails \in BOOLEAN /\ Punctual \in BOOLEAN

VARIABLES
  now,      \* the clock, which stands still from LastSecond on
  \* Each launcher:
  pc, asked, left, wait, podName, ctxDone, result,
  orphan,   \* it could not know of, or could not delete, the Job it made
  \* Each launcher's Job and the pod of that Job:
  job, pod, out, born, ttl,
  due       \* it ended with a result while its launcher had time to poll

launcher == <<pc, asked, left, wait, podName, result, orphan>>
cluster == <<job, pod, out, born, ttl, due>>
vars == <<now, pc, asked, left, wait, podName, ctxDone, result, orphan, job, pod, out, born,
          ttl, due>>

(* The types of the launchers' and the cluster's state. *)
TypeOK ==
  /\ now \in 0..LastSecond
  /\ pc \in [Launchers -> {"start", "create", "sleep", "logs", "cleanup", "returned", "killed"}]
  /\ asked \in [Launchers -> 0..LastSecond]
  /\ left \in [Launchers -> 0..Patience]
  /\ wait \in [Launchers -> 0..PollEvery]
  /\ podName \in [Launchers -> Launchers \cup {NoPod}]
  /\ ctxDone \in [Launchers -> BOOLEAN]
  /\ result \in [Launchers -> {"none", "status", "unavailable", "ctx"}]
  /\ orphan \in [Launchers -> BOOLEAN]
  /\ job \in [Launchers -> {"none", "present", "gone"}]
  /\ pod \in [Launchers -> {"none", "running", "finished", "gone"}]
  /\ out \in [Launchers -> {"nothing", "json"}]
  /\ born \in [Launchers -> 0..LastSecond]
  /\ ttl \in [Launchers -> 0..TTL]
  /\ due \in [Launchers -> BOOLEAN]

Init ==
  /\ now = 0
  /\ pc = [l \in Launchers |-> "start"]
  /\ asked = [l \in Launchers |-> 0]
  /\ left = [l \in Launchers |-> 0]
  /\ wait = [l \in Launchers |-> 0]
  /\ podName = [l \in Launchers |-> NoPod]
  /\ ctxDone = [l \in Launchers |-> FALSE]
  /\ result = [l \in Launchers |-> "none"]
  /\ orphan = [l \in Launchers |-> FALSE]
  /\ job = [l \in Launchers |-> "none"]
  /\ pod = [l \in Launchers |-> "none"]
  /\ out = [l \in Launchers |-> "nothing"]
  /\ born = [l \in Launchers |-> 0]
  /\ ttl = [l \in Launchers |-> 0]
  /\ due = [l \in Launchers |-> FALSE]
-----------------------------------------------------------------------------
Less(n) == IF n = 0 THEN 0 ELSE n - 1

(* A second passes. *)
Tick ==
  /\ Punctual => \A l \in Launchers : pc[l] = "sleep" => wait[l] > 0
  /\ now' = IF now < LastSecond THEN now + 1 ELSE now
  /\ left' = [l \in Launchers |-> Less(left[l])]
  /\ wait' = [l \in Launchers |-> Less(wait[l])]
  /\ ttl' = [l \in Launchers |-> Less(ttl[l])]
  /\ UNCHANGED <<pc, asked, podName, ctxDone, result, orphan, job, pod, out, born, due>>

(* The run's timeout passes or it is interrupted. *)
ContextEnds(l) ==
  /\ pc[l] \notin {"start", "returned", "killed"}
  /\ ~ ctxDone[l]
  /\ ctxDone' = [ctxDone EXCEPT ![l] = TRUE]
  /\ UNCHANGED <<now, launcher, cluster>>

(* Mutant: one name for every Job. *)
SameName(l) == 0

(* khealth-etcd-probe-<second>, from the second the launcher asked for it. *)
JobName(l) == asked[l]

Return(l, r) ==
  /\ pc' = [pc EXCEPT ![l] = "returned"]
  /\ result' = [result EXCEPT ![l] = r]

(* A return after the Job was made: the deferred delete is still to come.  *)
ReturnAndDelete(l, r) ==
  /\ pc' = [pc EXCEPT ![l] = "cleanup"]
  /\ result' = [result EXCEPT ![l] = r]

(* No image, no Job. *)
NoImage(l) ==
  /\ pc[l] = "start"
  /\ l \notin WithImage
  /\ Return(l, "unavailable")
  /\ UNCHANGED <<now, asked, left, wait, podName, ctxDone, orphan, cluster>>

(* The name is taken from the clock before the Job is created. *)
Begin(l) ==
  /\ pc[l] = "start"
  /\ l \in WithImage
  /\ now < LastSecond
  /\ pc' = [pc EXCEPT ![l] = "create"]
  /\ asked' = [asked EXCEPT ![l] = now]
  /\ UNCHANGED <<now, left, wait, podName, ctxDone, result, orphan, cluster>>

NameTaken(l) == \E m \in Launchers : job[m] = "present" /\ JobName(m) = JobName(l)

(* The Job is created; the loop gets its deadline and its first sleep. *)
Create(l) ==
  /\ pc[l] = "create"
  /\ ~ ctxDone[l]
  /\ ~ NameTaken(l)
  /\ job' = [job EXCEPT ![l] = "present"]
  /\ pc' = [pc EXCEPT ![l] = "sleep"]
  /\ left' = [left EXCEPT ![l] = Patience]
  /\ wait' = [wait EXCEPT ![l] = PollEvery]
  /\ UNCHANGED <<now, asked, podName, ctxDone, result, orphan, pod, out, born, ttl, due>>

(* AlreadyExists, an error of the API or a context that ended: unavailable,*)
(* and nothing is deleted.                                                 *)
CreateFails(l) ==
  /\ pc[l] = "create"
  /\ NameTaken(l) \/ ApiFails \/ ctxDone[l]
  /\ Return(l, "unavailable")
  /\ UNCHANGED <<now, asked, left, wait, podName, ctxDone, orphan, cluster>>

(* The Job was created, but the answer is an error or comes too late.      *)
CreateUnanswered(l) ==
  /\ pc[l] = "create"
  /\ ApiFails \/ ctxDone[l]
  /\ ~ NameTaken(l)
  /\ job' = [job EXCEPT ![l] = "present"]
  /\ orphan' = [orphan EXCEPT ![l] = TRUE]
  /\ Return(l, "unavailable")
  /\ UNCHANGED <<now, asked, left, wait, podName, ctxDone, pod, out, born, ttl, due>>

(* The deadline and the timer of the loop count no more. *)
LeaveLoop(l) ==
  /\ left' = [left EXCEPT ![l] = 0]
  /\ wait' = [wait EXCEPT ![l] = 0]

(* select takes <-ctx.Done(): the context's own error. *)
WaitCanceled(l) ==
  /\ pc[l] = "sleep"
  /\ ctxDone[l]
  /\ LeaveLoop(l)
  /\ ReturnAndDelete(l, "ctx")
  /\ UNCHANGED <<now, asked, podName, ctxDone, orphan, cluster>>

(* The pods the label selector finds. *)
Listed(l) == {m \in Launchers : pod[m] \in {"running", "finished"} /\ JobName(m) = JobName(l)}

(* Mutant: the deadline is not looked at. *)
LoopForever(l, name) ==
  /\ wait' = [wait EXCEPT ![l] = PollEvery]
  /\ UNCHANGED <<left, pc, result>>

(* Mutant: podName == "" is not looked at. *)
LoopThenLogs(l, name) ==
  IF left[l] > 0
  THEN wait' = [wait EXCEPT ![l] = PollEvery] /\ UNCHANGED <<left, pc, result>>
  ELSE LeaveLoop(l) /\ pc' = [pc EXCEPT ![l] = "logs"] /\ UNCHANGED result

(* The head of the loop: one more sleep while there is time, then the logs *)
(* of the pod seen last, or none at all.                                   *)
Loop(l, name) ==
  IF left[l] > 0
  THEN wait' = [wait EXCEPT ![l] = PollEvery] /\ UNCHANGED <<left, pc, result>>
  ELSE /\ LeaveLoop(l)
       /\ IF name = NoPod THEN ReturnAndDelete(l, "unavailable")
          ELSE pc' = [pc EXCEPT ![l] = "logs"] /\ UNCHANGED result

(* The list of pods fails or is empty. *)
PollNothing(l) ==
  /\ pc[l] = "sleep"
  /\ wait[l] = 0
  /\ Listed(l) = {} \/ ApiFails \/ ctxDone[l]
  /\ Loop(l, podName[l])
  /\ UNCHANGED <<now, asked, podName, ctxDone, orphan, cluster>>

(* The first pod of the list; a finished one ends the loop. *)
PollPod(l) ==
  /\ pc[l] = "sleep"
  /\ wait[l] = 0
  /\ ~ ctxDone[l]
  /\ \E m \in Listed(l) :
       /\ podName' = [podName EXCEPT ![l] = m]
       /\ IF pod[m] = "finished"
          THEN LeaveLoop(l) /\ pc' = [pc EXCEPT ![l] = "logs"] /\ UNCHANGED result
          ELSE Loop(l, m)
  /\ UNCHANGED <<now, asked, ctxDone, orphan, cluster>>

(* The log has the probe's JSON line. *)
ReadLogs(l) ==
  /\ pc[l] = "logs"
  /\ ~ ctxDone[l]
  /\ pod[podName[l]] = "finished"
  /\ out[podName[l]] = "json"
  /\ ReturnAndDelete(l, "status")
  /\ UNCHANGED <<now, asked, left, wait, podName, ctxDone, orphan, cluster>>

(* The pod is gone, the call fails, or the log has no such line. *)
ReadLogsFails(l) ==
  /\ pc[l] = "logs"
  /\ \/ ApiFails \/ ctxDone[l]
     \/ pod[podName[l]] # "finished"
     \/ out[podName[l]] # "json"
  /\ ReturnAndDelete(l, "unavailable")
  /\ UNCHANGED <<now, asked, left, wait, podName, ctxDone, orphan, cluster>>

(* Mutant: the delete is made under the run's context. *)
CleanupUnderCtx(l) ==
  /\ pc[l] = "cleanup"
  /\ pc' = [pc EXCEPT ![l] = "returned"]
  /\ IF ctxDone[l] THEN UNCHANGED job
     ELSE job' = [m \in Launchers |->
                   IF job[m] = "present" /\ JobName(m) = JobName(l) THEN "gone" ELSE job[m]]
  /\ UNCHANGED <<now, asked, left, wait, podName, ctxDone, result, orphan, pod, out, born, ttl, due>>

(* The deferred delete, by name and under a context of its own: the Job is *)
(* gone, its pod is left to the garbage collector.                         *)
Cleanup(l) ==
  /\ pc[l] = "cleanup"
  /\ pc' = [pc EXCEPT ![l] = "returned"]
  /\ job' = [m \in Launchers |->
              IF job[m] = "present" /\ JobName(m) = JobName(l) THEN "gone" ELSE job[m]]
  /\ UNCHANGED <<now, asked, left, wait, podName, ctxDone, result, orphan, pod, out, born, ttl, due>>

(* The delete fails; its error is ignored. *)
CleanupFails(l) ==
  /\ pc[l] = "cleanup"
  /\ ApiFails
  /\ pc' = [pc EXCEPT ![l] = "returned"]
  /\ orphan' = [orphan EXCEPT ![l] = TRUE]
  /\ UNCHANGED <<now, asked, left, wait, podName, ctxDone, result, cluster>>

(* The process ends without running deferred calls: it is killed, another  *)
(* check panics, or the watch is quit.                                     *)
Kill(l) ==
  /\ pc[l] \notin {"start", "returned", "killed"}
  /\ pc' = [pc EXCEPT ![l] = "killed"]
  /\ LeaveLoop(l)
  /\ UNCHANGED <<now, asked, podName, ctxDone, result, orphan, cluster>>
-----------------------------------------------------------------------------
(* The Job controller. *)
PodStarts(l) ==
  /\ job[l] = "present"
  /\ pod[l] = "none"
  /\ pod' = [pod EXCEPT ![l] = "running"]
  /\ born' = [born EXCEPT ![l] = now]
  /\ UNCHANGED <<now, launcher, ctxDone, job, out, ttl, due>>

(* khealth etcd-probe ends: with a JSON line whenever it got a Status, be  *)
(* it one of an etcd that did not respond.  The line is the last thing it  *)
(* does; writing it and the end of the pod are one step.                   *)
PodFinishes(l) ==
  /\ pod[l] = "running"
  /\ pod' = [pod EXCEPT ![l] = "finished"]
  /\ \E o \in {"nothing", "json"} :
       /\ out' = [out EXCEPT ![l] = o]
       /\ due' = [due EXCEPT ![l] = (o = "json" /\ pc[l] = "sleep" /\ left[l] > PollEvery)]
  /\ ttl' = [ttl EXCEPT ![l] = TTL]
  /\ UNCHANGED <<now, launcher, ctxDone, job, born>>

(* Mutant: the Job has no TTLSecondsAfterFinished. *)
NeverExpires(l) == FALSE /\ UNCHANGED vars

(* The TTL controller, for the TTLSecondsAfterFinished of the Job. *)
TTLExpires(l) ==
  /\ job[l] = "present"
  /\ pod[l] = "finished"
  /\ ttl[l] = 0
  /\ job' = [job EXCEPT ![l] = "gone"]
  /\ UNCHANGED <<now, launcher, ctxDone, pod, out, born, ttl, due>>

(* The garbage collector: the pod of a Job that is gone. *)
PodCollected(l) ==
  /\ job[l] = "gone"
  /\ pod[l] # "gone"
  /\ pod' = [pod EXCEPT ![l] = "gone"]
  /\ UNCHANGED <<now, launcher, ctxDone, job, out, born, ttl, due>>
-----------------------------------------------------------------------------
LaunchStep(l) ==
  \/ NoImage(l) \/ Create(l) \/ CreateFails(l) \/ CreateUnanswered(l)
  \/ WaitCanceled(l) \/ PollNothing(l) \/ PollPod(l)
  \/ ReadLogs(l) \/ ReadLogsFails(l) \/ Cleanup(l) \/ CleanupFails(l)

Next ==
  \/ Tick
  \/ \E l \in Launchers :
       \/ Begin(l) \/ LaunchStep(l) \/ ContextEnds(l) \/ Kill(l)
       \/ PodStarts(l) \/ PodFinishes(l) \/ TTLExpires(l) \/ PodCollected(l)

Spec == Init /\ [][Next]_vars

(* Time passes, launchers that are not killed move on, and the cluster's   *)
(* controllers do their work; PodFinishes stands for a pod that can be     *)
(* scheduled and whose probe, which has a 30 s context, ends.              *)
Fairness ==
  /\ WF_vars(Tick)
  /\ \A l \in Launchers :
       /\ WF_vars(LaunchStep(l))
       /\ WF_vars(PodStarts(l)) /\ WF_vars(PodFinishes(l))
       /\ WF_vars(TTLExpires(l)) /\ WF_vars(PodCollected(l))

FairSpec == Spec /\ Fairness
-----------------------------------------------------------------------------
(* A launcher that has a Job has made it, and still has to delete it       *)
(* unless it was killed or the API did not answer it.                      *)
JobInv ==
  \A l \in Launchers : job[l] = "present" =>
    /\ pc[l] \notin {"start", "create"}
    /\ pc[l] = "returned" => orphan[l]

(* A pod is no older than its Job's name, nor is the pod a launcher found  *)
(* older than the launcher's question; a pod that was found had started.   *)
PodInv ==
  /\ \A l \in Launchers : asked[l] <= now /\ born[l] <= now
  /\ \A l \in Launchers : pod[l] \in {"running", "finished"} =>
       pc[l] \notin {"start", "create"} /\ born[l] >= asked[l]
  /\ \A l \in Launchers : podName[l] # NoPod =>
       /\ pc[l] \notin {"start", "create"}
       /\ pod[podName[l]] # "none"
       /\ born[podName[l]] >= asked[l]
  /\ \A l \in Launchers : pc[l] = "logs" \/ result[l] = "status" => podName[l] # NoPod

(* A result is there once a pod has ended with it, and it is what a status *)
(* was read from; a launcher that is about to return has something to say, *)
(* and only one with an image ever got beyond the first line.              *)
AnswerInv ==
  /\ \A l \in Launchers : pod[l] \in {"none", "running"} => out[l] = "nothing"
  /\ \A l \in Launchers : result[l] = "status" => out[podName[l]] = "json"
  /\ \A l \in Launchers : pc[l] = "cleanup" => result[l] # "none"
  /\ \A l \in Launchers : pc[l] \in {"start", "create", "sleep", "logs"} => result[l] = "none"
  /\ \A l \in Launchers \ WithImage :
       pc[l] \in {"start", "returned"} /\ job[l] = "none" /\ pod[l] = "none"

(* The inductive invariant of launchers and cluster: types, who still has  *)
(* a Job to delete, the age of pods and what is about to be returned       *)
(* (inclusterjob.go 34-96).                                                *)
IInv == TypeOK /\ JobInv /\ PodInv /\ AnswerInv

(* No way out of the launcher leaves its Job behind, be it the status, a   *)
(* timeout, an interrupt or a pod that never came, except those in which   *)
(* the API did not answer it (inclusterjob.go 36-45, 53-54).               *)
NoJobLeftBehind ==
  \A l \in Launchers : pc[l] = "returned" /\ job[l] = "present" => orphan[l]

(* The status a launcher returns is never older than its question, even    *)
(* when it reads the pod of another launcher's Job: the probe it is read   *)
(* from was started in the second the launcher asked or later              *)
(* (inclusterjob.go 34, 56-62).                                            *)
FreshResult ==
  \A l \in Launchers : result[l] = "status" => born[podName[l]] >= asked[l]

(* What of a launcher its caller sees; Jobs, pods, names and polls are     *)
(* hidden.                                                                 *)
Answered(l) ==
  CASE pc[l] = "start" -> "idle"
    [] pc[l] = "killed" -> "lost"
    [] pc[l] = "returned" -> result[l]
    [] OTHER -> "asked"

Contract == INSTANCE JobContract
  WITH Callers <- Launchers,
       answer <- [l \in Launchers |-> Answered(l)],
       probes <- {born[m] : m \in {k \in Launchers : out[k] = "json"}}

(* The launchers keep the contract Collect relies on, although they share  *)
(* names, find one another's pods and delete one another's Jobs: each      *)
(* answers once, and a status it returns is of a probe that gave one and   *)
(* was started in the second of its question or later (inclusterjob.go     *)
(* 24-97, JobContract).                                                    *)
RefinesJobContract == Contract!Spec

(* Every Job goes, also those whose launcher was killed, or never learned  *)
(* that it made them, or could not delete them (inclusterjob.go 118).      *)
EveryJobGoes == \A l \in Launchers : job[l] = "present" ~> job[l] = "gone"

(* Every launcher comes back, whatever becomes of its Job                  *)
(* (inclusterjob.go 47-70).                                                *)
EveryLauncherReturns ==
  \A l \in Launchers : pc[l] = "create" ~> pc[l] \in {"returned", "killed"}

(* "The launching khealth waits for completion, reads the result, deletes  *)
(* the Job" (docs/adr/0005 56-57): a probe that ended with a result while  *)
(* its launcher was waiting, with time for one more poll, is read, unless  *)
(* the launcher is interrupted.                                            *)
ResultIsRead ==
  \A l \in Launchers :
    pc[l] = "returned" /\ due[l] /\ ~ ctxDone[l] => result[l] = "status"
=============================================================================
