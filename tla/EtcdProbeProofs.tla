--------------------------- MODULE EtcdProbeProofs ---------------------------
(***************************************************************************)
(* Proofs about EtcdProbe, for any number of launchers, any times and any  *)
(* failures of the API.                                                    *)
(***************************************************************************)
EXTENDS EtcdProbe, TLAPS

(* The invariant holds before anything is launched. *)
LEMMA InitInv == Init => IInv
  BY LaunchersAssumption, TimesAssumption DEF Init, IInv, TypeOK, JobInv, PodInv, AnswerInv

(* A timer that runs down stays within its range. *)
LEMMA LessType ==
  ASSUME NEW N \in Nat, NEW n \in 0..N
  PROVE  Less(n) \in 0..N
  BY DEF Less

(* Every step keeps the types. *)
LEMMA TypeStep == IInv /\ [Next]_vars => TypeOK'
<1> SUFFICES ASSUME IInv, [Next]_vars PROVE TypeOK'
  OBVIOUS
<1> USE TimesAssumption, LaunchersAssumption DEF IInv, TypeOK
<1>1. CASE Tick
  BY <1>1, LessType DEF Tick
<1>2. ASSUME NEW l \in Launchers,
             NoImage(l) \/ Begin(l) \/ Create(l) \/ CreateFails(l) \/ CreateUnanswered(l)
      PROVE  TypeOK'
  <2>1. CASE NoImage(l)
    BY <2>1 DEF NoImage, Return, cluster
  <2>2. CASE Begin(l)
    BY <2>2 DEF Begin, cluster
  <2>3. CASE Create(l)
    BY <2>3 DEF Create
  <2>4. CASE CreateFails(l)
    BY <2>4 DEF CreateFails, Return, cluster
  <2>5. CASE CreateUnanswered(l)
    BY <2>5 DEF CreateUnanswered, Return
  <2> QED
    BY <1>2, <2>1, <2>2, <2>3, <2>4, <2>5
<1>3. ASSUME NEW l \in Launchers, WaitCanceled(l) \/ PollNothing(l) \/ PollPod(l)
      PROVE  TypeOK'
  <2>1. CASE WaitCanceled(l)
    BY <2>1 DEF WaitCanceled, LeaveLoop, ReturnAndDelete, cluster
  <2>2. CASE PollNothing(l)
    BY <2>2 DEF PollNothing, Loop, LeaveLoop, ReturnAndDelete, cluster
  <2>3. CASE PollPod(l)
    BY <2>3 DEF PollPod, Listed, Loop, LeaveLoop, ReturnAndDelete, cluster
  <2> QED
    BY <1>3, <2>1, <2>2, <2>3
<1>4. ASSUME NEW l \in Launchers,
             ReadLogs(l) \/ ReadLogsFails(l) \/ Cleanup(l) \/ CleanupFails(l)
      PROVE  TypeOK'
  <2>1. CASE ReadLogs(l)
    BY <2>1 DEF ReadLogs, ReturnAndDelete, cluster
  <2>2. CASE ReadLogsFails(l)
    BY <2>2 DEF ReadLogsFails, ReturnAndDelete, cluster
  <2>3. CASE Cleanup(l)
    BY <2>3 DEF Cleanup
  <2>4. CASE CleanupFails(l)
    BY <2>4 DEF CleanupFails, cluster
  <2> QED
    BY <1>4, <2>1, <2>2, <2>3, <2>4
<1>5. ASSUME NEW l \in Launchers, ContextEnds(l) \/ Kill(l)
      PROVE  TypeOK'
  <2>1. CASE ContextEnds(l)
    BY <2>1 DEF ContextEnds, launcher, cluster
  <2>2. CASE Kill(l)
    BY <2>2 DEF Kill, LeaveLoop, cluster
  <2> QED
    BY <1>5, <2>1, <2>2
<1>6. ASSUME NEW l \in Launchers,
             PodStarts(l) \/ PodFinishes(l) \/ TTLExpires(l) \/ PodCollected(l)
      PROVE  TypeOK'
  <2>1. CASE PodStarts(l)
    BY <2>1 DEF PodStarts, launcher
  <2>2. CASE PodFinishes(l)
    BY <2>2 DEF PodFinishes, launcher
  <2>3. CASE TTLExpires(l)
    BY <2>3 DEF TTLExpires, launcher
  <2>4. CASE PodCollected(l)
    BY <2>4 DEF PodCollected, launcher
  <2> QED
    BY <1>6, <2>1, <2>2, <2>3, <2>4
<1>7. CASE UNCHANGED vars
  BY <1>7 DEF vars
<1> QED
  BY <1>1, <1>2, <1>3, <1>4, <1>5, <1>6, <1>7 DEF Next, LaunchStep

(* A Job outlives its launcher only when the launcher was killed or not    *)
(* answered: the deferred delete, by name, takes the launcher's own Job    *)
(* with any other of that name.                                            *)
LEMMA JobStep == IInv /\ [Next]_vars => JobInv'
<1> SUFFICES ASSUME IInv, [Next]_vars PROVE JobInv'
  OBVIOUS
<1> USE DEF IInv, TypeOK, JobInv
<1>1. CASE Tick
  BY <1>1 DEF Tick
<1>2. ASSUME NEW l \in Launchers,
             NoImage(l) \/ Begin(l) \/ Create(l) \/ CreateFails(l) \/ CreateUnanswered(l)
      PROVE  JobInv'
  BY <1>2 DEF NoImage, Begin, Create, CreateFails, CreateUnanswered, Return, cluster
<1>3. ASSUME NEW l \in Launchers, WaitCanceled(l) \/ PollNothing(l) \/ PollPod(l)
      PROVE  JobInv'
  BY <1>3 DEF WaitCanceled, PollNothing, PollPod, Loop, LeaveLoop, ReturnAndDelete, cluster
<1>4. ASSUME NEW l \in Launchers,
             ReadLogs(l) \/ ReadLogsFails(l) \/ Cleanup(l) \/ CleanupFails(l)
      PROVE  JobInv'
  BY <1>4 DEF ReadLogs, ReadLogsFails, Cleanup, CleanupFails, ReturnAndDelete, JobName, cluster
<1>5. ASSUME NEW l \in Launchers, ContextEnds(l) \/ Kill(l)
      PROVE  JobInv'
  BY <1>5 DEF ContextEnds, Kill, LeaveLoop, launcher, cluster
<1>6. ASSUME NEW l \in Launchers,
             PodStarts(l) \/ PodFinishes(l) \/ TTLExpires(l) \/ PodCollected(l)
      PROVE  JobInv'
  BY <1>6 DEF PodStarts, PodFinishes, TTLExpires, PodCollected, launcher
<1>7. CASE UNCHANGED vars
  BY <1>7 DEF vars
<1> QED
  BY <1>1, <1>2, <1>3, <1>4, <1>5, <1>6, <1>7 DEF Next, LaunchStep

(* Pods are started after their Job's name was taken from the clock, and a *)
(* launcher finds only pods of its own second.                             *)
LEMMA PodStep == IInv /\ [Next]_vars => PodInv'
<1> SUFFICES ASSUME IInv, [Next]_vars PROVE PodInv'
  OBVIOUS
<1> USE TimesAssumption, LaunchersAssumption DEF IInv, TypeOK, PodInv
<1>1. CASE Tick
  BY <1>1 DEF Tick
<1>2. ASSUME NEW l \in Launchers,
             NoImage(l) \/ Begin(l) \/ Create(l) \/ CreateFails(l) \/ CreateUnanswered(l)
      PROVE  PodInv'
  BY <1>2 DEF NoImage, Begin, Create, CreateFails, CreateUnanswered, Return, cluster
<1>3. ASSUME NEW l \in Launchers, WaitCanceled(l) \/ PollNothing(l) \/ PollPod(l)
      PROVE  PodInv'
  <2>1. CASE WaitCanceled(l)
    BY <2>1 DEF WaitCanceled, LeaveLoop, ReturnAndDelete, cluster
  <2>2. CASE PollNothing(l)
    BY <2>2 DEF PollNothing, Loop, LeaveLoop, ReturnAndDelete, cluster
  <2>3. CASE PollPod(l)
    BY <2>3 DEF PollPod, Listed, JobName, Loop, LeaveLoop, ReturnAndDelete, cluster
  <2> QED
    BY <1>3, <2>1, <2>2, <2>3
<1>4. ASSUME NEW l \in Launchers,
             ReadLogs(l) \/ ReadLogsFails(l) \/ Cleanup(l) \/ CleanupFails(l)
      PROVE  PodInv'
  BY <1>4 DEF ReadLogs, ReadLogsFails, Cleanup, CleanupFails, ReturnAndDelete, cluster
<1>5. ASSUME NEW l \in Launchers, ContextEnds(l) \/ Kill(l)
      PROVE  PodInv'
  BY <1>5 DEF ContextEnds, Kill, LeaveLoop, launcher, cluster
<1>6. ASSUME NEW l \in Launchers,
             PodStarts(l) \/ PodFinishes(l) \/ TTLExpires(l) \/ PodCollected(l)
      PROVE  PodInv'
  BY <1>6 DEF JobInv, PodStarts, PodFinishes, TTLExpires, PodCollected, launcher
<1>7. CASE UNCHANGED vars
  BY <1>7 DEF vars
<1> QED
  BY <1>1, <1>2, <1>3, <1>4, <1>5, <1>6, <1>7 DEF Next, LaunchStep

(* What a probe found stays what it found, and what a launcher is about to *)
(* return was read from it.                                                *)
LEMMA AnswerStep == IInv /\ [Next]_vars => AnswerInv'
<1> SUFFICES ASSUME IInv, [Next]_vars PROVE AnswerInv'
  OBVIOUS
<1> USE LaunchersAssumption DEF IInv, TypeOK, PodInv, AnswerInv
<1>1. CASE Tick
  BY <1>1 DEF Tick
<1>2. ASSUME NEW l \in Launchers,
             NoImage(l) \/ Begin(l) \/ Create(l) \/ CreateFails(l) \/ CreateUnanswered(l)
      PROVE  AnswerInv'
  BY <1>2 DEF NoImage, Begin, Create, CreateFails, CreateUnanswered, Return, cluster
<1>3. ASSUME NEW l \in Launchers, WaitCanceled(l) \/ PollNothing(l) \/ PollPod(l)
      PROVE  AnswerInv'
  <2>1. CASE WaitCanceled(l)
    BY <2>1 DEF WaitCanceled, LeaveLoop, ReturnAndDelete, cluster
  <2>2. CASE PollNothing(l)
    BY <2>2 DEF PollNothing, Loop, LeaveLoop, ReturnAndDelete, cluster
  <2>3. CASE PollPod(l)
    BY <2>3 DEF PollPod, Listed, Loop, LeaveLoop, ReturnAndDelete, cluster
  <2> QED
    BY <1>3, <2>1, <2>2, <2>3
<1>4. ASSUME NEW l \in Launchers,
             ReadLogs(l) \/ ReadLogsFails(l) \/ Cleanup(l) \/ CleanupFails(l)
      PROVE  AnswerInv'
  BY <1>4 DEF ReadLogs, ReadLogsFails, Cleanup, CleanupFails, ReturnAndDelete, cluster
<1>5. ASSUME NEW l \in Launchers, ContextEnds(l) \/ Kill(l)
      PROVE  AnswerInv'
  BY <1>5 DEF ContextEnds, Kill, LeaveLoop, launcher, cluster
<1>6. ASSUME NEW l \in Launchers,
             PodStarts(l) \/ PodFinishes(l) \/ TTLExpires(l) \/ PodCollected(l)
      PROVE  AnswerInv'
  BY <1>6 DEF JobInv, PodStarts, PodFinishes, TTLExpires, PodCollected, launcher
<1>7. CASE UNCHANGED vars
  BY <1>7 DEF vars
<1> QED
  BY <1>1, <1>2, <1>3, <1>4, <1>5, <1>6, <1>7 DEF Next, LaunchStep

(* The invariant holds throughout, however launchers and controllers       *)
(* interleave and whichever calls fail.                                    *)
THEOREM Inductive == Spec => []IInv
<1>1. IInv /\ [Next]_vars => IInv'
  BY TypeStep, JobStep, PodStep, AnswerStep DEF IInv
<1> QED
  BY InitInv, <1>1, PTL DEF Spec

(* The types of the launchers' and the cluster's state. *)
THEOREM TypeCorrect == Spec => []TypeOK
<1>1. IInv => TypeOK
  BY DEF IInv
<1> QED
  BY Inductive, <1>1, PTL

(* A launcher that returns has deleted its Job, on every path, unless the  *)
(* API did not answer it.                                                  *)
THEOREM CleansUp == Spec => []NoJobLeftBehind
<1>1. IInv => NoJobLeftBehind
  BY DEF IInv, JobInv, NoJobLeftBehind
<1> QED
  BY Inductive, <1>1, PTL

(* No launcher returns a status older than its question.                   *)
THEOREM NeverStale == Spec => []FreshResult
<1>1. IInv => FreshResult
  BY DEF IInv, PodInv, FreshResult
<1> QED
  BY Inductive, <1>1, PTL

(* Where a launcher is decides what its caller sees. *)
LEMMA AnsweredIs ==
  \A l : /\ pc[l] = "start" => Answered(l) = "idle"
         /\ pc[l] = "killed" => Answered(l) = "lost"
         /\ pc[l] = "returned" => Answered(l) = result[l]
         /\ pc[l] \notin {"start", "killed", "returned"} => Answered(l) = "asked"
  BY DEF Answered

(* The same of the state after a step. *)
LEMMA AnsweredIsNext ==
  \A l : /\ pc'[l] = "start" => Answered(l)' = "idle"
         /\ pc'[l] = "killed" => Answered(l)' = "lost"
         /\ pc'[l] = "returned" => Answered(l)' = result'[l]
         /\ pc'[l] \notin {"start", "killed", "returned"} => Answered(l)' = "asked"
  BY DEF Answered

(* A step of a launcher or of the cluster is one of the contract, or none  *)
(* that a caller sees.                                                     *)
LEMMA ContractStep == IInv /\ [Next]_vars => [Contract!Next]_(Contract!jvars)
<1> SUFFICES ASSUME IInv, [Next]_vars PROVE Contract!Next \/ UNCHANGED Contract!jvars
  OBVIOUS
<1> DEFINE answer == [l \in Launchers |-> Answered(l)]
           probes == {born[m] : m \in {k \in Launchers : out[k] = "json"}}
           Seen(l) == \A m \in Launchers \ {l} : Answered(m)' = Answered(m)
<1>a. ASSUME NEW l \in Launchers, NEW a, Answered(l)' = a, Seen(l)
      PROVE  Contract!Becomes(l, a)
  BY <1>a DEF Contract!Becomes
<1>b. ASSUME UNCHANGED <<out, born>> PROVE UNCHANGED probes
  BY <1>b
<1>c. ASSUME UNCHANGED <<now, asked>>, UNCHANGED probes,
             \A m \in Launchers : Answered(m)' = Answered(m)
      PROVE  UNCHANGED Contract!jvars
  BY <1>c DEF Contract!jvars
<1>d. \A l \in Launchers : answer[l] = Answered(l)
  OBVIOUS
<1> HIDE DEF answer, probes
<1> USE AnsweredIs, AnsweredIsNext DEF IInv, TypeOK
<1>1. CASE Tick
  <2>1. UNCHANGED probes /\ UNCHANGED answer
    BY <1>1, <1>b DEF Tick, answer, Answered
  <2>2. CASE now < LastSecond
    BY <1>1, <2>1, <2>2 DEF Tick, Contract!Tick, Contract!Next, probes, answer
  <2>3. CASE ~ (now < LastSecond)
    BY <1>1, <2>1, <2>3 DEF Tick, Contract!jvars, probes, answer
  <2> QED
    BY <2>2, <2>3
<1>2. ASSUME NEW l \in Launchers, NoImage(l) PROVE Contract!Next
  <2>1. Contract!Becomes(l, "unavailable") /\ UNCHANGED probes
    BY <1>2, <1>a, <1>b DEF NoImage, Return, cluster
  <2>2. Contract!Refuse(l)
    BY <1>2, <1>d, <2>1 DEF NoImage, Contract!Refuse, probes, answer
  <2> QED
    BY <2>2 DEF Contract!Next
<1>3. ASSUME NEW l \in Launchers, Begin(l) PROVE Contract!Next
  <2>1. Contract!Becomes(l, "asked") /\ UNCHANGED probes
    BY <1>3, <1>a, <1>b DEF Begin, cluster
  <2>2. Contract!Ask(l)
    BY <1>3, <1>d, <2>1 DEF Begin, Contract!Ask, probes, answer
  <2> QED
    BY <2>2 DEF Contract!Next
<1>4. ASSUME NEW l \in Launchers, CreateFails(l) \/ CreateUnanswered(l) PROVE Contract!Next
  <2>1. Contract!Becomes(l, "unavailable") /\ UNCHANGED probes
    BY <1>4, <1>a, <1>b DEF CreateFails, CreateUnanswered, Return, cluster
  <2>2. Contract!Answer(l)
    BY <1>4, <1>d, <2>1 DEF CreateFails, CreateUnanswered, Contract!Answer, probes, answer
  <2> QED
    BY <2>2 DEF Contract!Next
<1>5. ASSUME NEW l \in Launchers,
             \/ Create(l) \/ WaitCanceled(l) \/ PollNothing(l) \/ PollPod(l)
             \/ ReadLogs(l) \/ ReadLogsFails(l)
      PROVE  UNCHANGED Contract!jvars
  <2>1. /\ UNCHANGED <<now, asked, out, born>>
        /\ pc[l] \notin {"start", "killed", "returned"} /\ pc'[l] \notin {"start", "killed", "returned"}
        /\ \A m \in Launchers \ {l} : pc'[m] = pc[m] /\ result'[m] = result[m]
    BY <1>5 DEF Create, WaitCanceled, PollNothing, PollPod, ReadLogs, ReadLogsFails, Loop,
                LeaveLoop, ReturnAndDelete, cluster
  <2> QED
    BY <1>b, <1>c, <2>1
<1>6. ASSUME NEW l \in Launchers, Cleanup(l) \/ CleanupFails(l) PROVE Contract!Next
  <2>1. /\ UNCHANGED <<now, asked, out, born, result>>
        /\ pc[l] = "cleanup" /\ pc' = [pc EXCEPT ![l] = "returned"]
    BY <1>6 DEF Cleanup, CleanupFails, cluster
  <2>2. Contract!Becomes(l, result[l]) /\ UNCHANGED probes
    BY <2>1, <1>a, <1>b
  <2>3. result[l] = "status" => \E b \in probes : asked[l] <= b
    <3> HAVE result[l] = "status"
    <3>1. podName[l] \in Launchers /\ out[podName[l]] = "json" /\ asked[l] <= born[podName[l]]
      BY LaunchersAssumption DEF PodInv, AnswerInv
    <3> QED
      BY <3>1 DEF probes
  <2>4. result[l] \in {"unavailable", "ctx", "status"}
    BY <2>1 DEF AnswerInv
  <2>5. Contract!Answer(l)
    BY <1>d, <2>1, <2>2, <2>3, <2>4 DEF Contract!Answer, probes, answer
  <2> QED
    BY <2>5 DEF Contract!Next
<1>7. ASSUME NEW l \in Launchers, Kill(l)
      PROVE  Contract!Next
  <2>1. Contract!Becomes(l, "lost") /\ UNCHANGED probes
    BY <1>7, <1>a, <1>b DEF Kill, LeaveLoop, cluster
  <2>2. Contract!Lose(l)
    BY <1>7, <1>d, <2>1 DEF Kill, Contract!Lose, probes, answer
  <2> QED
    BY <2>2 DEF Contract!Next
<1>8. ASSUME NEW l \in Launchers,
             ContextEnds(l) \/ TTLExpires(l) \/ PodCollected(l) \/ PodStarts(l)
      PROVE  UNCHANGED Contract!jvars
  <2>1. UNCHANGED <<now, asked, pc, result>>
    BY <1>8 DEF ContextEnds, TTLExpires, PodCollected, PodStarts, launcher
  <2>2. UNCHANGED probes
    <3>1. out' = out /\ \A m \in Launchers : out[m] = "json" => born'[m] = born[m]
      BY <1>8 DEF ContextEnds, TTLExpires, PodCollected, PodStarts, cluster, AnswerInv
    <3> QED
      BY <3>1 DEF probes
  <2> QED
    BY <1>c, <2>1, <2>2
<1>9. ASSUME NEW l \in Launchers, PodFinishes(l)
      PROVE  Contract!Next \/ UNCHANGED Contract!jvars
  <2>1. UNCHANGED <<now, asked, pc, result, born>>
    BY <1>9 DEF PodFinishes, launcher
  <2>2. UNCHANGED answer
    BY <2>1 DEF answer, Answered
  <2>3. CASE out' = [out EXCEPT ![l] = "json"]
    <3>1. probes' = probes \cup {born[l]}
      BY <2>1, <2>3 DEF probes
    <3>2. /\ born[l] \in 0..now /\ asked[l] <= born[l]
          /\ Answered(l) # "idle" /\ l \in WithImage
      BY <1>9 DEF PodFinishes, PodInv, AnswerInv
    <3>3. Contract!ProbeEnds
      BY <1>d, <2>1, <2>2, <3>1, <3>2 DEF Contract!ProbeEnds, probes, answer
    <3> QED
      BY <3>3 DEF Contract!Next
  <2>4. CASE out' = [out EXCEPT ![l] = "nothing"]
    <3>1. out' = out
      BY <1>9, <2>4 DEF PodFinishes, AnswerInv
    <3> QED
      BY <1>b, <2>1, <2>2, <3>1 DEF Contract!jvars, probes, answer
  <2> QED
    BY <1>9, <2>3, <2>4 DEF PodFinishes
<1>10. CASE UNCHANGED vars
  BY <1>10, <1>b, <1>c DEF vars, Answered
<1> QED
  BY <1>1, <1>2, <1>3, <1>4, <1>5, <1>6, <1>7, <1>8, <1>9, <1>10 DEF Next, LaunchStep

(* The launchers and the cluster implement the contract Collect relies on, *)
(* for any number of launchers, any times and any failures of the API.     *)
THEOREM Refinement == Spec => RefinesJobContract
<1>1. Init => Contract!Init
  BY DEF Init, Contract!Init, Answered
<1> QED
  BY <1>1, ContractStep, Inductive, PTL DEF Spec, RefinesJobContract, Contract!Spec
=============================================================================
