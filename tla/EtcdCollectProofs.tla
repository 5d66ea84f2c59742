-------------------------- MODULE EtcdCollectProofs --------------------------
(***************************************************************************)
(* Proofs about EtcdCollect, for any number of members, any options and    *)
(* any failures of the calls a collection makes.                           *)
(***************************************************************************)
EXTENDS EtcdCollect, FiniteSetTheorems, TLAPS

(* A new Status is one. *)
LEMMA EmptyType ==
  ASSUME NEW mode \in Sources, NEW q \in Nat
  PROVE  EmptyStatus(mode, q) \in StatusSet
  BY DEF EmptyStatus, StatusSet

(* The quota of the options, or the default. *)
LEMMA QuotaType == TypeOK => OptQuota \in Nat
  BY BytesAssumption DEF TypeOK, Options, OptQuota

(* Reading a member keeps a Status one. *)
LEMMA ReadType ==
  ASSUME TypeOK, NEW m \in Members
  PROVE  Reached(m) \in StatusSet /\ Missed(m) \in StatusSet
<1>1. DBSize[m] \in Nat /\ DBSizeInUse[m] \in Nat
  BY BytesAssumption
<1>2. Reached(m) \in StatusSet
  <2>1. st \in StatusSet /\ leader \in BOOLEAN
    BY DEF TypeOK
  <2>2. (st.hasLeader \/ leader) \in BOOLEAN
    OBVIOUS
  <2>3. st.size + DBSize[m] \in Nat /\ st.inUse + DBSizeInUse[m] \in Nat
    BY <1>1, <2>1 DEF StatusSet
  <2>4. [st.members EXCEPT ![m] = "reachable"] \in [Members -> {"absent", "reachable", "unreachable"}]
    BY <2>1 DEF StatusSet
  <2> QED
    BY <2>1, <2>2, <2>3, <2>4 DEF StatusSet, Reached
<1>3. Missed(m) \in StatusSet
  BY DEF TypeOK, StatusSet, Missed
<1> QED
  BY <1>2, <1>3

(* And so is what the probe reads of its one member. *)
LEMMA JobType ==
  ASSUME TypeOK, NEW m \in Members
  PROVE  JobReached(m) \in StatusSet /\ JobMissed(m) \in StatusSet
<1>1. EmptyStatus("in-cluster", DefaultQuota) \in StatusSet
  BY EmptyType, BytesAssumption DEF Sources
<1>2. DBSize[m] \in Nat /\ DBSizeInUse[m] \in Nat /\ leader \in BOOLEAN
  BY BytesAssumption DEF TypeOK
<1>3. [EmptyStatus("in-cluster", DefaultQuota).members EXCEPT ![m] = "reachable"]
        \in [Members -> {"absent", "reachable", "unreachable"}]
  BY <1>1 DEF StatusSet
<1>4. JobReached(m) \in StatusSet
  BY <1>1, <1>2, <1>3 DEF StatusSet, JobReached
<1>5. JobMissed(m) \in StatusSet
  BY <1>1 DEF StatusSet, JobMissed
<1> QED
  BY <1>4, <1>5

(* The invariant holds when a call begins. *)
LEMMA InitInv == Init => IInv
<1> SUFFICES ASSUME Init PROVE IInv
  OBVIOUS
<1>1. EmptyStatus("direct", 0) \in StatusSet
  BY EmptyType DEF Sources
<1>2. TypeOK
  <2>1. up \subseteq Members /\ opts \in Options /\ i \in 1..(N + 1) /\ wasUp \subseteq Members
    BY SizeAssumption, OptionsAssumption DEF Init
  <2>2. leader \in BOOLEAN /\ alarm \in BOOLEAN /\ hadLeader \in BOOLEAN /\ alarmFree \in BOOLEAN
    BY DEF Init
  <2>3. answer \in [kind : {"none", "status", "unavailable", "error"}, st : StatusSet]
    BY <1>1 DEF Init
  <2> QED
    BY <1>1, <2>1, <2>2, <2>3 DEF Init, TypeOK
<1>3. PastInv
  BY DEF Init, PastInv
<1>4. StatusInv
  BY DEF Init, StatusInv, Witnessed, EmptyStatus, Sources
<1>5. TriedInv
  BY DEF Init, TriedInv, Sources
<1>6. CoverInv
  BY DEF Init, CoverInv, EmptyStatus
<1>7. SumInv
  <2>1. Summed(EmptyStatus("direct", 0))
    BY DEF Summed, Read, EmptyStatus
  <2> QED
    BY <2>1 DEF Init, SumInv
<1> QED
  BY <1>2, <1>3, <1>4, <1>5, <1>6, <1>7 DEF IInv
-----------------------------------------------------------------------------
(* What the steps of a call leave alone. *)
Outside == <<world, opts, past>>

(* A call that goes on to a source, or returns, keeps the types. *)
LEMMA AskType ==
  ASSUME TypeOK, NEW s \in Sources, Ask(s), tried' \subseteq Sources, UNCHANGED Outside
  PROVE  TypeOK'
  BY DEF TypeOK, Ask, Outside, world, past

LEMMA ReturnType ==
  ASSUME TypeOK, NEW k \in {"status", "unavailable", "error"}, NEW s \in StatusSet,
         Return(k, s), tried' \subseteq Sources, UNCHANGED Outside
  PROVE  TypeOK'
  BY DEF TypeOK, Return, Outside, world, past

(* So does one that finds a source unavailable ... *)
LEMMA UnavailableType ==
  ASSUME TypeOK, NEW s \in Sources, Unavailable(s), UNCHANGED Outside
  PROVE  TypeOK'
<1>1. tried' \subseteq Sources /\ Following(s) \in Sources
  BY DEF TypeOK, Unavailable, Following, Sources
<1>2. EmptyStatus("direct", 0) \in StatusSet
  BY EmptyType DEF Sources
<1> QED
  BY <1>1, <1>2, AskType, ReturnType DEF Unavailable

(* ... or meets another error ... *)
LEMMA FailType ==
  ASSUME TypeOK, Fail, UNCHANGED Outside
  PROVE  TypeOK'
<1>1. EmptyStatus("direct", 0) \in StatusSet
  BY EmptyType DEF Sources
<1>2. tried' \subseteq Sources /\ Return("error", EmptyStatus("direct", 0))
  BY DEF TypeOK, Fail
<1> QED
  BY <1>1, <1>2, ReturnType

(* ... or starts on the members of a source ... *)
LEMMA ReadMembersType ==
  ASSUME TypeOK, NEW mode \in Sources, NEW q \in Nat, ReadMembers(mode, q), UNCHANGED Outside
  PROVE  TypeOK'
<1>1. st' \in StatusSet
  BY EmptyType DEF ReadMembers
<1>2. i' \in 1..(N + 1)
  BY SizeAssumption DEF ReadMembers
<1> QED
  BY <1>1, <1>2 DEF TypeOK, ReadMembers, Outside, world, past

(* ... or has read them all. *)
LEMMA FinishType ==
  ASSUME TypeOK, NEW s \in Sources, NEW status \in StatusSet, Finish(s, status), UNCHANGED Outside
  PROVE  TypeOK'
<1>1. CASE status.reachable
  <2>1. Return("status", status) /\ tried' \subseteq Sources
    BY <1>1 DEF Finish, TypeOK
  <2> QED
    BY <2>1, ReturnType
<1>2. CASE ~ status.reachable
  BY <1>2, UnavailableType DEF Finish
<1> QED
  BY <1>1, <1>2

(* A change of etcd keeps the types. *)
LEMMA ChangeType == TypeOK /\ EtcdChanges => TypeOK'
<1> SUFFICES ASSUME TypeOK, EtcdChanges PROVE TypeOK'
  OBVIOUS
<1>1. up' \subseteq Members /\ leader' \in BOOLEAN /\ alarm' \in BOOLEAN
  BY DEF TypeOK, EtcdChanges
<1>2. wasUp' \subseteq Members
  BY <1>1 DEF TypeOK, EtcdChanges
<1>3. hadLeader' \in BOOLEAN /\ alarmFree' \in BOOLEAN
  BY DEF EtcdChanges
<1> QED
  BY <1>1, <1>2, <1>3 DEF TypeOK, EtcdChanges

(* Every step keeps the types. *)
LEMMA TypeStep == IInv /\ [Next]_vars => TypeOK'
<1> SUFFICES ASSUME TypeOK, StatusInv, [Next]_vars PROVE TypeOK'
  BY DEF IInv
<1>0. OptQuota \in Nat /\ Sources = {"direct", "pod-exec", "in-cluster", "via-apiserver"}
  BY QuotaType DEF Sources
<1>1. CASE EtcdChanges
  BY <1>1, ChangeType
<1>2. CASE Collect
  <2>1. UNCHANGED Outside
    BY <1>2 DEF Collect, Outside
  <2>2. CASE opts.mode = "bogus"
    BY <1>2, <2>1, <2>2, FailType DEF Collect
  <2>3. CASE opts.mode = "auto"
    <3>1. PICK s \in Sources : Ask(s) /\ UNCHANGED tried
      BY <1>0, <1>2, <2>3 DEF Collect
    <3> QED
      BY <2>1, <3>1, AskType DEF TypeOK
  <2>4. CASE opts.mode \notin {"auto", "bogus"}
    <3>1. opts.mode \in Sources
      BY <2>4 DEF TypeOK, Options, Modes
    <3>2. Ask(opts.mode) /\ UNCHANGED tried
      BY <1>2, <2>4 DEF Collect
    <3> QED
      BY <2>1, <3>1, <3>2, AskType DEF TypeOK
  <2> QED
    BY <2>2, <2>3, <2>4
<1>3. CASE DirectUnavailable \/ PodExecUnavailable \/ JobUnavailable \/ ViaAPIServerUnavailable
  BY <1>0, <1>3, UnavailableType
     DEF DirectUnavailable, PodExecUnavailable, JobUnavailable, ViaAPIServerUnavailable, Outside
<1>4. CASE DirectTLSFails \/ JobCanceled
  BY <1>4, FailType DEF DirectTLSFails, JobCanceled, Outside
<1>5. CASE DirectStarts \/ PodExecStarts
  BY <1>0, <1>5, ReadMembersType DEF DirectStarts, PodExecStarts, Outside
<1>6. CASE DirectStatus
  <2>1. i \in Members /\ i' \in 1..(N + 1)
    BY <1>6, SizeAssumption DEF DirectStatus, TypeOK, Members
  <2>2. st' \in StatusSet
    BY <1>6, <2>1, ReadType DEF DirectStatus, TypeOK
  <2> QED
    BY <1>6, <2>1, <2>2 DEF TypeOK, DirectStatus, world, past
<1>7. CASE DirectAlarms
  <2>1. [st EXCEPT !.alarms = alarm] \in StatusSet
    BY DEF TypeOK, StatusSet
  <2> QED
    BY <1>7, <2>1 DEF TypeOK, DirectAlarms, world, past
<1>8. CASE DirectEnds
  BY <1>0, <1>8, FinishType DEF DirectEnds, TypeOK, Outside
<1>9. CASE PodStatus
  <2>1. i \in Members /\ i' \in 1..(N + 1) /\ step' \in {"enter", "members", "quota", "alarms"}
    BY <1>9, SizeAssumption DEF PodStatus, At, TypeOK, Members
  <2>2. st' \in StatusSet
    BY <1>9, <2>1, ReadType DEF PodStatus, TypeOK
  <2> QED
    BY <1>9, <2>1, <2>2 DEF TypeOK, PodStatus, world, past
<1>10. CASE FetchQuota
  <2>1. [st EXCEPT !.quota = ServerQuota] \in StatusSet
    BY BytesAssumption DEF TypeOK, StatusSet
  <2> QED
    BY <1>10, <2>1 DEF TypeOK, FetchQuota, world, past
<1>11. CASE FetchAlarms
  <2>1. [st EXCEPT !.alarms = alarm] \in StatusSet
    BY DEF TypeOK, StatusSet
  <2>2. i' \in 1..(N + 1)
    BY <1>11, SizeAssumption DEF FetchAlarms, At, TypeOK, StatusInv
  <2> QED
    BY <1>11, <2>1, <2>2 DEF TypeOK, FetchAlarms, world, past
<1>12. CASE PodExecEnds
  <2>1. [st EXCEPT !.quota = OptQuota] \in StatusSet
    BY <1>0 DEF TypeOK, StatusSet
  <2> QED
    BY <1>0, <1>12, <2>1, FinishType DEF PodExecEnds, TypeOK, Outside
<1>13. CASE JobAnswers
  <2>1. answer' \in [kind : {"none", "status", "unavailable", "error"}, st : StatusSet]
    <3>1. PICK m \in up : \E s \in {JobReached(m), JobMissed(m)} :
             \/ answer' = [kind |-> "status", st |-> [s EXCEPT !.alarms = alarm]] /\ alarmsRead' = TRUE
             \/ answer' = [kind |-> "status", st |-> s] /\ alarmsRead' = FALSE
      BY <1>13 DEF JobAnswers
    <3>2. JobReached(m) \in StatusSet /\ JobMissed(m) \in StatusSet
      BY JobType DEF TypeOK
    <3>3. \A s \in StatusSet : [s EXCEPT !.alarms = alarm] \in StatusSet
      BY DEF TypeOK, StatusSet
    <3> QED
      BY <3>1, <3>2, <3>3
  <2> QED
    BY <1>13, <2>1 DEF TypeOK, JobAnswers, world, past
<1>14. CASE ViaAPIServer
  <2>1. PICK lines \in ReadyzLines :
          Return("status", [EmptyStatus("via-apiserver", OptQuota)
                              EXCEPT !.reachable = parseReadyzEtcd(lines).healthy,
                                     !.hasLeader = parseReadyzEtcd(lines).healthy])
    BY <1>14 DEF ViaAPIServer
  <2>2. parseReadyzEtcd(lines).healthy \in BOOLEAN
    BY DEF parseReadyzEtcd
  <2>3. [EmptyStatus("via-apiserver", OptQuota)
           EXCEPT !.reachable = parseReadyzEtcd(lines).healthy,
                  !.hasLeader = parseReadyzEtcd(lines).healthy] \in StatusSet
    <3>1. EmptyStatus("via-apiserver", OptQuota) \in StatusSet
      BY <1>0, EmptyType
    <3>2. \A e \in StatusSet, b \in BOOLEAN :
            [e EXCEPT !.reachable = b, !.hasLeader = b] \in StatusSet
      BY DEF StatusSet
    <3> QED
      BY <2>2, <3>1, <3>2
  <2>4. tried' \subseteq Sources /\ UNCHANGED Outside
    BY <1>14 DEF ViaAPIServer, TypeOK, Outside
  <2> QED
    BY <2>1, <2>3, <2>4, ReturnType
<1>15. CASE UNCHANGED vars
  BY <1>15 DEF TypeOK, vars
<1> QED
  BY <1>1, <1>2, <1>3, <1>4, <1>5, <1>6, <1>7, <1>8, <1>9, <1>10, <1>11, <1>12, <1>13, <1>14,
     <1>15 DEF Next, Done

(* What was the case stays so. *)
LEMMA PastStep == IInv /\ [Next]_vars => PastInv'
<1> SUFFICES ASSUME TypeOK, PastInv, [Next]_vars PROVE PastInv'
  BY DEF IInv
<1>1. CASE EtcdChanges
  BY <1>1 DEF EtcdChanges, PastInv
<1>2. CASE UNCHANGED <<up, leader, alarm, wasUp, hadLeader, alarmFree>>
  BY <1>2 DEF PastInv
<1> QED
  BY <1>1, <1>2 DEF Next, vars, world, past, Collect, Done, DirectUnavailable, DirectTLSFails,
     DirectStarts, DirectStatus, DirectAlarms, DirectEnds, PodExecUnavailable, PodExecStarts,
     PodStatus, FetchQuota, FetchAlarms, PodExecEnds, JobUnavailable, JobCanceled, JobAnswers,
     ViaAPIServerUnavailable, ViaAPIServer

(* A call that goes on to a source or returns without a Status leaves the  *)
(* one it was filling behind.                                              *)
LEMMA LeaveStatus ==
  ASSUME IInv, src # "done", UNCHANGED Outside,
         \/ \E s \in Sources : Unavailable(s)
         \/ Fail
         \/ \E s \in Sources : Ask(s) /\ UNCHANGED tried
  PROVE  StatusInv'
<1>1. CASE \E s \in {"direct", "pod-exec", "in-cluster", "via-apiserver"} : Ask(s)
  BY <1>1 DEF IInv, StatusInv, Witnessed, Outside, past, Ask
<1>2. CASE \E k \in {"unavailable", "error"} : Return(k, EmptyStatus("direct", 0))
  <2>1. src' = "done" /\ answer'.kind # "status"
    BY <1>2 DEF Return
  <2> QED
    BY <2>1 DEF StatusInv, Sources
<1>3. \A s \in Sources : Following(s) \in {"direct", "pod-exec", "in-cluster", "via-apiserver"}
  BY DEF Following, Sources
<1> QED
  BY <1>1, <1>2, <1>3 DEF Unavailable, Fail, Sources

(* One that has read the members of a source returns what it filled. *)
LEMMA FinishStatus ==
  ASSUME IInv, UNCHANGED Outside, src # "done", NEW s \in Sources, NEW status \in StatusSet,
         Witnessed(status), Finish(s, status)
  PROVE  StatusInv'
<1>1. CASE Unavailable(s)
  BY <1>1, LeaveStatus
<1>2. CASE Return("status", status)
  <2>1. src' = "done" /\ answer'.st = status /\ UNCHANGED <<alarmsRead, wasUp, hadLeader, alarmFree>>
    BY <1>2 DEF Return, Outside, past
  <2> QED
    BY <2>1 DEF StatusInv, Witnessed, Sources
<1> QED
  BY <1>1, <1>2 DEF Finish

(* What the Status says is witnessed, whatever is read into it. *)
LEMMA StatusStep == IInv /\ [Next]_vars => StatusInv'
<1> SUFFICES ASSUME IInv, [Next]_vars PROVE StatusInv'
  OBVIOUS
<1>0. Sources = {"direct", "pod-exec", "in-cluster", "via-apiserver"} /\ st \in StatusSet
  BY DEF Sources, IInv, TypeOK
<1>1. CASE EtcdChanges
  BY <1>1 DEF EtcdChanges, IInv, StatusInv, Witnessed
<1>2. CASE Collect
  <2>1. \/ Fail
        \/ \E s \in Sources : Ask(s) /\ UNCHANGED tried
    BY <1>0, <1>2 DEF Collect, IInv, TypeOK, Options, Modes
  <2> QED
    BY <1>2, <2>1, LeaveStatus DEF Collect, Outside
<1>3. CASE DirectUnavailable \/ PodExecUnavailable \/ JobUnavailable \/ ViaAPIServerUnavailable
  BY <1>0, <1>3, LeaveStatus
     DEF DirectUnavailable, PodExecUnavailable, JobUnavailable, ViaAPIServerUnavailable, At, Outside
<1>4. CASE DirectTLSFails \/ JobCanceled
  BY <1>4, LeaveStatus DEF DirectTLSFails, JobCanceled, At, Outside
<1>5. CASE DirectStarts \/ PodExecStarts
  BY <1>5 DEF DirectStarts, PodExecStarts, ReadMembers, EmptyStatus, At, past,
              IInv, StatusInv, Witnessed
<1>6. CASE DirectStatus
  <2>1. st'.mode = st.mode /\ st'.alarms = st.alarms
    BY <1>0, <1>6 DEF DirectStatus, Reached, Missed, StatusSet
  <2>2. st'.reachable => st.reachable \/ up # {}
    BY <1>0, <1>6 DEF DirectStatus, Reached, Missed, StatusSet
  <2>3. st'.hasLeader => st.hasLeader \/ leader
    BY <1>0, <1>6 DEF DirectStatus, Reached, Missed, StatusSet
  <2> QED
    BY <1>6, <2>1, <2>2, <2>3 DEF DirectStatus, At, past, IInv, StatusInv, PastInv, Witnessed
<1>7. CASE DirectAlarms
  <2>1. /\ st'.mode = st.mode /\ st'.reachable = st.reachable /\ st'.hasLeader = st.hasLeader
        /\ alarmsRead' /\ ~ st'.alarms => ~ alarm \/ (alarmsRead /\ ~ st.alarms)
    BY <1>0, <1>7 DEF DirectAlarms, StatusSet
  <2> QED
    BY <1>7, <2>1 DEF DirectAlarms, At, past, IInv, StatusInv, PastInv, Witnessed
<1>8. CASE DirectEnds
  <2>1. Witnessed(st) /\ src # "done"
    BY <1>8 DEF DirectEnds, At, IInv, StatusInv
  <2> QED
    BY <1>0, <1>8, <2>1, FinishStatus DEF DirectEnds, Outside
<1>9. CASE PodStatus
  <2>1. st'.mode = st.mode /\ st'.alarms = st.alarms
    BY <1>0, <1>9 DEF PodStatus, Reached, Missed, StatusSet
  <2>2. st'.reachable => st.reachable \/ up # {}
    BY <1>0, <1>9 DEF PodStatus, Reached, Missed, StatusSet
  <2>3. st'.hasLeader => st.hasLeader \/ leader
    BY <1>0, <1>9 DEF PodStatus, Reached, Missed, StatusSet
  <2> QED
    BY <1>9, <2>1, <2>2, <2>3 DEF PodStatus, At, past, IInv, StatusInv, PastInv, Witnessed
<1>10. CASE FetchQuota
  <2>1. /\ st'.mode = st.mode /\ st'.reachable = st.reachable /\ st'.hasLeader = st.hasLeader
        /\ st'.alarms = st.alarms
    BY <1>0, <1>10 DEF FetchQuota, StatusSet
  <2> QED
    BY <1>10, <2>1 DEF FetchQuota, At, past, IInv, StatusInv, Witnessed
<1>11. CASE FetchAlarms
  <2>1. /\ st'.mode = st.mode /\ st'.reachable = st.reachable /\ st'.hasLeader = st.hasLeader
        /\ alarmsRead' /\ ~ st'.alarms => ~ alarm \/ (alarmsRead /\ ~ st.alarms)
    BY <1>0, <1>11 DEF FetchAlarms, StatusSet
  <2> QED
    BY <1>11, <2>1 DEF FetchAlarms, At, past, IInv, StatusInv, PastInv, Witnessed
<1>12. CASE PodExecEnds
  <2>1. Witnessed(st) /\ src # "done"
    BY <1>12 DEF PodExecEnds, At, IInv, StatusInv
  <2>2. [st EXCEPT !.quota = OptQuota] \in StatusSet /\ Witnessed([st EXCEPT !.quota = OptQuota])
    BY <1>0, <2>1, QuotaType DEF IInv, StatusSet, Witnessed
  <2> QED
    BY <1>0, <1>12, <2>1, <2>2, FinishStatus DEF PodExecEnds, Outside
<1>13. CASE JobAnswers
  <2>1. PICK m \in up : \E s \in {JobReached(m), JobMissed(m)} :
          \/ answer' = [kind |-> "status", st |-> [s EXCEPT !.alarms = alarm]] /\ alarmsRead' = TRUE
          \/ answer' = [kind |-> "status", st |-> s] /\ alarmsRead' = FALSE
    BY <1>13 DEF JobAnswers
  <2>2. \A s \in {JobReached(m), JobMissed(m)} :
          /\ s \in StatusSet
          /\ s.hasLeader => leader
    <3>1. JobReached(m) \in StatusSet /\ JobMissed(m) \in StatusSet
      BY JobType DEF IInv, TypeOK
    <3>2. JobReached(m).hasLeader = leader
      BY DEF JobReached, EmptyStatus
    <3>3. JobMissed(m).hasLeader = FALSE
      BY DEF JobMissed, EmptyStatus
    <3> QED
      BY <3>1, <3>2, <3>3
  <2>3. /\ answer'.st.hasLeader => leader
        /\ alarmsRead' /\ ~ answer'.st.alarms => ~ alarm
    BY <2>1, <2>2 DEF StatusSet
  <2> QED
    BY <1>13, <2>3 DEF JobAnswers, past, IInv, StatusInv, PastInv, Witnessed, Sources
<1>14. CASE ViaAPIServer
  <2>1. PICK lines \in ReadyzLines :
          Return("status", [EmptyStatus("via-apiserver", OptQuota)
                              EXCEPT !.reachable = parseReadyzEtcd(lines).healthy,
                                     !.hasLeader = parseReadyzEtcd(lines).healthy])
    BY <1>14 DEF ViaAPIServer
  <2>2. parseReadyzEtcd(lines).healthy => up # {} /\ leader
    BY <2>1 DEF parseReadyzEtcd, ReadyzLines
  <2>3. /\ answer'.st.reachable = parseReadyzEtcd(lines).healthy
        /\ answer'.st.hasLeader = parseReadyzEtcd(lines).healthy
    BY <2>1 DEF Return, EmptyStatus
  <2>4. ~ alarmsRead'
    BY <1>14, <2>1 DEF Return, ViaAPIServer, At, IInv, StatusInv
  <2> QED
    BY <1>14, <2>1, <2>2, <2>3, <2>4 DEF ViaAPIServer, Return, past, IInv, StatusInv, PastInv, Witnessed, Sources
<1>15. CASE UNCHANGED vars
  BY <1>15 DEF IInv, StatusInv, Witnessed, vars
<1> QED
  BY <1>1, <1>2, <1>3, <1>4, <1>5, <1>6, <1>7, <1>8, <1>9, <1>10, <1>11, <1>12, <1>13, <1>14,
     <1>15 DEF Next, Done

(* Auto comes to a source only through the better ones. *)
LEMMA FollowBetter ==
  ASSUME NEW s \in Sources \ {"via-apiserver"}, s = "direct" => opts.endpoints # {}
  PROVE  Better(Following(s)) = Better(s) \cup {s}
  BY DEF Better, Following, Sources

(* A source that is unavailable is the next one tried. *)
LEMMA UnavailableTried ==
  ASSUME IInv, NEW s \in Sources, src = s, Unavailable(s), UNCHANGED Outside
  PROVE  TriedInv'
<1> SUFFICES ASSUME opts.mode = "auto" PROVE TriedInv'
  BY DEF TriedInv, Outside
<1>1. tried = Better(s) /\ (opts.endpoints = {} => s # "direct")
  BY DEF IInv, TriedInv, Sources
<1>2. CASE s # "via-apiserver"
  <2>1. src' = Following(s) /\ tried' = Better(Following(s)) /\ answer'.kind = "none"
    BY <1>1, <1>2, FollowBetter DEF Unavailable, Ask, IInv, StatusInv, Sources
  <2>2. Following(s) \in Sources \ {"direct"}
    BY DEF Following, Sources
  <2> QED
    BY <2>1, <2>2 DEF TriedInv, Better, Outside, Sources
<1>3. CASE s = "via-apiserver"
  BY <1>1, <1>3 DEF Unavailable, Return, TriedInv, Better, Outside, Sources
<1> QED
  BY <1>2, <1>3

(* Every step of auto is one to the next source, or to an answer. *)
LEMMA TriedStep == IInv /\ [Next]_vars => TriedInv'
<1> SUFFICES ASSUME IInv, [Next]_vars PROVE TriedInv'
  OBVIOUS
<1>0. Sources = {"direct", "pod-exec", "in-cluster", "via-apiserver"}
  BY DEF Sources
<1>1. CASE UNCHANGED <<opts, src, tried, answer>>
  BY <1>1 DEF IInv, TriedInv, Better
<1>2. CASE Collect
  <2>1. CASE opts.mode = "auto"
    <3>1. /\ src' = (IF opts.endpoints = {} THEN "pod-exec" ELSE "direct")
          /\ tried' = {} /\ answer'.kind = "none" /\ opts' = opts
      BY <1>2, <2>1 DEF Collect, Ask, IInv, TriedInv, StatusInv
    <3> QED
      BY <1>0, <3>1 DEF TriedInv, Better
  <2>2. CASE opts.mode # "auto"
    BY <1>2, <2>2 DEF Collect, TriedInv
  <2> QED
    BY <2>1, <2>2
<1>3. CASE DirectUnavailable \/ PodExecUnavailable \/ JobUnavailable \/ ViaAPIServerUnavailable
  BY <1>0, <1>3, UnavailableTried
     DEF DirectUnavailable, PodExecUnavailable, JobUnavailable, ViaAPIServerUnavailable, At, Outside
<1>4. CASE DirectTLSFails \/ JobCanceled
  <2>1. src' = "done" /\ answer'.kind = "error"
    BY <1>4 DEF DirectTLSFails, JobCanceled, Fail, Return
  <2> QED
    BY <1>0, <2>1 DEF TriedInv
<1>5. CASE DirectEnds
  <2>1. CASE st.reachable
    <3>1. src' = "done" /\ answer' = [kind |-> "status", st |-> st] /\ UNCHANGED <<opts, tried>>
      BY <1>5, <2>1 DEF DirectEnds, Finish, Return
    <3>2. src = "direct" /\ st.mode = "direct"
      BY <1>0, <1>5 DEF DirectEnds, At, IInv, StatusInv
    <3> QED
      BY <1>0, <3>1, <3>2 DEF IInv, TriedInv, Better
  <2>2. CASE ~ st.reachable
    BY <1>0, <1>5, <2>2, UnavailableTried DEF DirectEnds, Finish, At, Outside
  <2> QED
    BY <2>1, <2>2
<1>6. CASE PodExecEnds
  <2> DEFINE full == IF st.quota = 0 THEN [st EXCEPT !.quota = OptQuota] ELSE st
  <2>1. full.mode = st.mode /\ full.reachable = st.reachable
    BY DEF IInv, TypeOK, StatusSet
  <2>2. src = "pod-exec" /\ st.mode = "pod-exec" /\ Finish("pod-exec", full) /\ UNCHANGED Outside
    BY <1>0, <1>6 DEF PodExecEnds, At, IInv, StatusInv, Outside
  <2> HIDE DEF full
  <2>3. CASE full.reachable
    <3>1. src' = "done" /\ answer' = [kind |-> "status", st |-> full] /\ UNCHANGED <<opts, tried>>
      BY <2>2, <2>3 DEF Finish, Return, Outside
    <3> QED
      BY <1>0, <2>1, <2>2, <3>1 DEF IInv, TriedInv, Better
  <2>4. CASE ~ full.reachable
    BY <1>0, <2>2, <2>4, UnavailableTried DEF Finish
  <2> QED
    BY <2>3, <2>4
<1>7. CASE JobAnswers
  <2>1. src' = "done" /\ answer'.kind = "status" /\ answer'.st.mode = "in-cluster"
    <3>1. PICK m \in up, s \in StatusSet :
            /\ s \in {JobReached(m), JobMissed(m)}
            /\ \/ answer' = [kind |-> "status", st |-> [s EXCEPT !.alarms = alarm]]
               \/ answer' = [kind |-> "status", st |-> s]
      BY <1>7, JobType DEF JobAnswers, IInv, TypeOK
    <3>2. JobReached(m).mode = "in-cluster" /\ JobMissed(m).mode = "in-cluster"
      BY DEF JobReached, JobMissed, EmptyStatus
    <3> QED
      BY <1>7, <3>1, <3>2 DEF JobAnswers, StatusSet
  <2> QED
    BY <1>0, <1>7, <2>1 DEF JobAnswers, At, IInv, TriedInv, Better
<1>8. CASE ViaAPIServer
  <2>1. src' = "done" /\ answer'.kind = "status" /\ answer'.st.mode = "via-apiserver"
    <3>1. PICK lines \in ReadyzLines :
            Return("status", [EmptyStatus("via-apiserver", OptQuota)
                                EXCEPT !.reachable = parseReadyzEtcd(lines).healthy,
                                       !.hasLeader = parseReadyzEtcd(lines).healthy])
      BY <1>8 DEF ViaAPIServer
    <3> QED
      BY <3>1 DEF Return, EmptyStatus
  <2> QED
    BY <1>0, <1>8, <2>1 DEF ViaAPIServer, At, IInv, TriedInv, Better
<1>9. CASE DirectStarts \/ PodExecStarts \/ DirectStatus \/ DirectAlarms \/ PodStatus
           \/ FetchQuota \/ FetchAlarms \/ EtcdChanges \/ Done \/ UNCHANGED vars
  BY <1>1, <1>9 DEF DirectStarts, PodExecStarts, ReadMembers, DirectStatus, DirectAlarms, PodStatus,
     FetchQuota, FetchAlarms, EtcdChanges, Done, vars
<1> QED
  BY <1>2, <1>3, <1>4, <1>5, <1>6, <1>7, <1>8, <1>9 DEF Next
-----------------------------------------------------------------------------
(* A Status that tells of no member has nothing to add up. *)
LEMMA EmptySummed ==
  ASSUME NEW s \in StatusSet, \A m \in Members : s.members[m] # "reachable",
         s.size = 0, s.inUse = 0
  PROVE  Summed(s)
  BY DEF Summed, Read

(* What keeps the members that responded and the sums keeps Summed. *)
LEMMA SameSummed ==
  ASSUME NEW s \in StatusSet, NEW t \in StatusSet, Summed(s), t.size = s.size, t.inUse = s.inUse,
         \A m \in Members : t.members[m] = "reachable" <=> s.members[m] = "reachable"
  PROVE  Summed(t)
<1>1. Read(t) = Read(s)
  BY DEF Read
<1> QED
  BY <1>1 DEF Summed

(* Only so many members are read. *)
LEMMA ReadFinite ==
  ASSUME NEW s
  PROVE  IsFiniteSet(Read(s)) /\ Cardinality(Read(s)) \in Nat
<1>1. IsFiniteSet(Members)
  BY SizeAssumption, FS_Interval DEF Members
<1>2. Read(s) \subseteq Members
  BY DEF Read
<1>3. IsFiniteSet(Read(s))
  BY <1>1, <1>2, FS_Subset
<1> QED
  BY <1>3, FS_CardinalityType

(* One more summand keeps a sum within as many times the largest. *)
LEMMA OneMore ==
  ASSUME NEW c \in Nat, NEW x \in Nat, NEW d \in Nat, NEW sum \in Nat, sum <= c * x
  PROVE  (sum + d <= (c + 1) * x) \/ (sum + d <= (c + 1) * d)
<1>1. (c + 1) * x = c * x + x /\ (c + 1) * d = c * d + d /\ c * x \in Nat /\ c * d \in Nat
  OBVIOUS
<1>2. CASE d <= x
  BY <1>1, <1>2
<1>3. CASE x < d
  <2>1. c * x <= c * d
    BY <1>3
  <2> QED
    BY <1>1, <2>1
<1> QED
  BY <1>2, <1>3

(* Sums that are each fragmented by less than a half are so together. *)
LEMMA BelowHalf ==
  ASSUME NEW a \in Nat, NEW b \in Nat, NEW c \in Nat, NEW d \in Nat,
         a = 0 \/ 100 * (a - b) < 50 * a, c = 0 \/ 100 * (c - d) < 50 * c
  PROVE  a + c = 0 \/ 100 * ((a + c) - (b + d)) < 50 * (a + c)
  OBVIOUS

(* A member that responds adds its sizes: linear inequalities add up. *)
LEMMA AddSummed ==
  ASSUME NEW s \in StatusSet, NEW t \in StatusSet, Summed(s), NEW m \in Members,
         s.members[m] = "absent",
         t.members = [s.members EXCEPT ![m] = "reachable"],
         t.size = s.size + DBSize[m], t.inUse = s.inUse + DBSizeInUse[m]
  PROVE  Summed(t)
<1>1. DBSize[m] \in Nat /\ DBSizeInUse[m] \in Nat /\ \A k \in Members : DBSize[k] \in Nat
  BY BytesAssumption
<1>2. s.size \in Nat /\ s.inUse \in Nat /\ s.members \in [Members -> {"absent", "reachable", "unreachable"}]
  BY DEF StatusSet
<1>3. Read(t) = Read(s) \cup {m} /\ m \notin Read(s) /\ Read(t) \subseteq Members
  BY <1>2 DEF Read
<1>4. \A k \in Read(t) : t.size >= DBSize[k]
  <2>1. \A k \in Read(s) : s.size >= DBSize[k]
    BY Zenon DEF Summed
  <2> QED
    BY <1>1, <1>2, <1>3, <2>1
<1>5. ASSUME \A k \in Read(t) : ~ Fragmented(k, 50)
      PROVE  t.size = 0 \/ 100 * (t.size - t.inUse) < 50 * t.size
  <2>1. s.size = 0 \/ 100 * (s.size - s.inUse) < 50 * s.size
    BY <1>3, <1>5, Zenon DEF Summed
  <2>2. DBSize[m] = 0 \/ 100 * (DBSize[m] - DBSizeInUse[m]) < 50 * DBSize[m]
    BY <1>1, <1>3, <1>5 DEF Fragmented, AtLeast
  <2> QED
    BY <1>1, <1>2, <2>1, <2>2, BelowHalf
<1>6. ASSUME \A k \in Read(t) : Fragmented(k, 25)
      PROVE  100 * (t.size - t.inUse) >= 25 * t.size
  <2>1. 100 * (s.size - s.inUse) >= 25 * s.size
    BY <1>3, <1>6 DEF Summed
  <2>2. 100 * (DBSize[m] - DBSizeInUse[m]) >= 25 * DBSize[m]
    BY <1>1, <1>3, <1>6 DEF Fragmented, AtLeast
  <2> QED
    BY <1>1, <1>2, <2>1, <2>2
<1>7. \E k \in Read(t) : t.size <= Cardinality(Read(t)) * DBSize[k]
  <2> DEFINE c == Cardinality(Read(s))
  <2>1. c \in Nat /\ Cardinality(Read(t)) = c + 1
    BY <1>3, ReadFinite, FS_AddElement
  <2> HIDE DEF c
  <2>2. CASE s.size = 0
    <3>1. 0 <= c * DBSize[m]
      BY <1>1, <2>1
    <3>2. t.size <= (c + 1) * DBSize[m]
      BY <1>1, <1>2, <2>1, <2>2, <3>1, OneMore
    <3> QED
      BY <1>3, <2>1, <3>2
  <2>3. CASE s.size # 0
    <3>1. PICK k \in Read(s) : s.size <= c * DBSize[k]
      BY <2>3 DEF Summed, c
    <3>2. DBSize[k] \in Nat /\ k \in Read(t)
      BY <1>1, <1>3
    <3>3. (s.size + DBSize[m] <= (c + 1) * DBSize[k]) \/ (s.size + DBSize[m] <= (c + 1) * DBSize[m])
      BY <1>1, <1>2, <2>1, <3>1, <3>2, OneMore
    <3> QED
      BY <1>3, <2>1, <3>2, <3>3
  <2> QED
    BY <2>2, <2>3
<1> QED
  BY <1>4, <1>5, <1>6, <1>7 DEF Summed

(* The member that is read next is not yet in the Status. *)
LEMMA NextUnread ==
  ASSUME IInv, src \in {"direct", "pod-exec"}, step = "members"
  PROVE  \A m \in Members : m >= i => st.members[m] = "absent"
<1>1. i \in Nat /\ \A m \in Members : m \in Nat
  BY DEF IInv, TypeOK, Members
<1> QED
  BY <1>1 DEF IInv, CoverInv, Listed, Asked

(* What a source that gives up, an error and the end of a source do. *)
LEMMA GivesUp ==
  ASSUME NEW s, Unavailable(s)
  PROVE  /\ st' = st
         /\ answer' = answer \/ answer' = [kind |-> "unavailable", st |-> EmptyStatus("direct", 0)]
<1>1. CASE opts.mode = "auto" /\ s # "via-apiserver"
  BY <1>1 DEF Unavailable, Ask
<1>2. CASE ~ (opts.mode = "auto" /\ s # "via-apiserver")
  BY <1>2 DEF Unavailable, Return
<1> QED
  BY <1>1, <1>2

LEMMA Fails == Fail => st' = st /\ answer' = [kind |-> "error", st |-> EmptyStatus("direct", 0)]
  BY DEF Fail, Return

LEMMA Finishes ==
  ASSUME NEW s, NEW x, Finish(s, x)
  PROVE  /\ st' = st
         /\ \/ answer' = answer
            \/ answer' = [kind |-> "unavailable", st |-> EmptyStatus("direct", 0)]
            \/ src' = "done" /\ answer' = [kind |-> "status", st |-> x]
<1>1. CASE x.reachable
  BY <1>1 DEF Finish, Return
<1>2. CASE ~ x.reachable
  <2>1. Unavailable(s)
    BY <1>2 DEF Finish
  <2> QED
    BY <2>1, GivesUp
<1> QED
  BY <1>1, <1>2

LEMMA Switches ==
  ASSUME Collect
  PROVE  /\ st' = st
         /\ answer' = answer \/ answer' = [kind |-> "error", st |-> EmptyStatus("direct", 0)]
<1>1. CASE opts.mode = "bogus"
  BY <1>1, Fails DEF Collect
<1>2. CASE opts.mode = "auto"
  BY <1>2 DEF Collect, Ask
<1>3. CASE opts.mode \notin {"bogus", "auto"}
  BY <1>3 DEF Collect, Ask
<1> QED
  BY <1>1, <1>2, <1>3

(* What a step may do to the Status being filled. *)
LEMMA StatusMoves ==
  ASSUME IInv, [Next]_vars
  PROVE  \/ st' = st
         \/ DirectStarts \/ PodExecStarts
         \/ (DirectStatus \/ PodStatus) /\ i \in Members /\ ((st' = Reached(i) /\ i \in up) \/ st' = Missed(i))
         \/ (DirectAlarms \/ FetchAlarms) /\ st' = [st EXCEPT !.alarms = alarm]
         \/ FetchQuota /\ st' = [st EXCEPT !.quota = ServerQuota]
<1>1. CASE DirectStatus
  BY <1>1, SizeAssumption DEF DirectStatus, IInv, TypeOK, Members
<1>2. CASE PodStatus
  BY <1>2, SizeAssumption DEF PodStatus, IInv, TypeOK, Members
<1>3. CASE DirectAlarms \/ FetchAlarms \/ FetchQuota
  BY <1>3 DEF DirectAlarms, FetchAlarms, FetchQuota
<1>4. CASE DirectUnavailable \/ PodExecUnavailable \/ JobUnavailable \/ ViaAPIServerUnavailable
  BY <1>4, GivesUp DEF DirectUnavailable, PodExecUnavailable, JobUnavailable, ViaAPIServerUnavailable
<1>5. CASE DirectTLSFails \/ JobCanceled
  BY <1>5, Fails DEF DirectTLSFails, JobCanceled
<1>6. CASE DirectEnds
  BY <1>6, Finishes DEF DirectEnds
<1>7. CASE PodExecEnds
  BY <1>7, Finishes DEF PodExecEnds
<1>8. CASE Collect
  BY <1>8, Switches
<1>9. CASE EtcdChanges \/ JobAnswers \/ Done \/ UNCHANGED vars
  BY <1>9 DEF EtcdChanges, JobAnswers, Done, vars
<1>10. CASE ViaAPIServer
  BY <1>10 DEF ViaAPIServer, Return
<1> QED
  BY <1>1, <1>2, <1>3, <1>4, <1>5, <1>6, <1>7, <1>8, <1>9, <1>10 DEF Next

(* And what a step may answer. *)
Answers(s) == src' = "done" /\ answer' = [kind |-> "status", st |-> s]
Refuses == answer'.kind # "status" /\ answer'.st = EmptyStatus("direct", 0)
JobSays(m, s) ==
  m \in up /\ s \in {JobReached(m), JobMissed(m)} /\ (Answers(s) \/ Answers([s EXCEPT !.alarms = alarm]))
ReadyzSays(b) ==
  Answers([EmptyStatus("via-apiserver", OptQuota) EXCEPT !.reachable = b, !.hasLeader = b])

LEMMA Refusing ==
  ASSUME NEW kind, kind # "status", answer' = [kind |-> kind, st |-> EmptyStatus("direct", 0)]
  PROVE  Refuses
  BY DEF Refuses

LEMMA AnswerMoves ==
  ASSUME IInv, [Next]_vars
  PROVE  \/ answer' = answer
         \/ Refuses
         \/ DirectEnds /\ Answers(st)
         \/ PodExecEnds /\ (Answers(st) \/ Answers([st EXCEPT !.quota = OptQuota]))
         \/ \E m, s : JobSays(m, s)
         \/ \E b \in BOOLEAN : ReadyzSays(b)
<1>1. CASE DirectUnavailable \/ PodExecUnavailable \/ JobUnavailable \/ ViaAPIServerUnavailable
  <2>1. \E s \in Sources : Unavailable(s)
    BY <1>1 DEF DirectUnavailable, PodExecUnavailable, JobUnavailable, ViaAPIServerUnavailable, Sources
  <2>2. answer' = answer \/ answer' = [kind |-> "unavailable", st |-> EmptyStatus("direct", 0)]
    BY <2>1, GivesUp
  <2> QED
    BY <2>2, Refusing
<1>2. CASE DirectTLSFails \/ JobCanceled \/ Collect
  <2>1. answer' = answer \/ answer' = [kind |-> "error", st |-> EmptyStatus("direct", 0)]
    BY <1>2, Fails, Switches DEF DirectTLSFails, JobCanceled
  <2> QED
    BY <2>1, Refusing
<1>3. CASE DirectEnds
  <2>1. Finish("direct", st)
    BY <1>3 DEF DirectEnds
  <2>2. \/ answer' = answer
        \/ answer' = [kind |-> "unavailable", st |-> EmptyStatus("direct", 0)]
        \/ Answers(st)
    BY <2>1, Finishes DEF Answers
  <2> QED
    BY <1>3, <2>2, Refusing
<1>4. CASE PodExecEnds
  <2> DEFINE full == IF st.quota = 0 THEN [st EXCEPT !.quota = OptQuota] ELSE st
  <2>1. Finish("pod-exec", full)
    BY <1>4 DEF PodExecEnds
  <2>2. full \in {st, [st EXCEPT !.quota = OptQuota]}
    OBVIOUS
  <2> HIDE DEF full
  <2>3. \/ answer' = answer
        \/ answer' = [kind |-> "unavailable", st |-> EmptyStatus("direct", 0)]
        \/ Answers(full)
    BY <2>1, Finishes DEF Answers
  <2> QED
    BY <1>4, <2>2, <2>3, Refusing
<1>5. CASE JobAnswers
  <2>1. PICK m \in up : \E s \in {JobReached(m), JobMissed(m)} :
          \/ answer' = [kind |-> "status", st |-> [s EXCEPT !.alarms = alarm]]
          \/ answer' = [kind |-> "status", st |-> s]
    BY <1>5 DEF JobAnswers
  <2>2. PICK s \in {JobReached(m), JobMissed(m)} :
          \/ answer' = [kind |-> "status", st |-> [s EXCEPT !.alarms = alarm]]
          \/ answer' = [kind |-> "status", st |-> s]
    BY <2>1
  <2>3. JobSays(m, s)
    BY <1>5, <2>1, <2>2 DEF JobAnswers, Answers, JobSays
  <2> QED
    BY <2>3
<1>6. CASE ViaAPIServer
  <2>1. PICK lines \in ReadyzLines :
          Return("status", [EmptyStatus("via-apiserver", OptQuota)
                              EXCEPT !.reachable = parseReadyzEtcd(lines).healthy,
                                     !.hasLeader = parseReadyzEtcd(lines).healthy])
    BY <1>6 DEF ViaAPIServer
  <2>2. parseReadyzEtcd(lines).healthy \in BOOLEAN
    BY DEF parseReadyzEtcd
  <2>3. ReadyzSays(parseReadyzEtcd(lines).healthy)
    BY <2>1 DEF Return, Answers, ReadyzSays
  <2> QED
    BY <2>2, <2>3
<1>7. CASE DirectStarts \/ DirectStatus \/ DirectAlarms \/ PodExecStarts \/ PodStatus \/ FetchQuota
           \/ FetchAlarms \/ EtcdChanges \/ Done \/ UNCHANGED vars
  BY <1>7 DEF DirectStarts, DirectStatus, DirectAlarms, PodExecStarts, ReadMembers, PodStatus,
     FetchQuota, FetchAlarms, EtcdChanges, Done, vars
<1> QED
  BY <1>1, <1>2, <1>3, <1>4, <1>5, <1>6, <1>7 DEF Next
-----------------------------------------------------------------------------
(* A Status with no member in it. *)
LEMMA EmptyListed ==
  ASSUME NEW mode \in Sources, NEW q \in Nat
  PROVE  /\ \A m \in Members : EmptyStatus(mode, q).members[m] = "absent"
         /\ Summed(EmptyStatus(mode, q))
<1>1. EmptyStatus(mode, q) \in StatusSet
  BY EmptyType
<1>2. /\ \A m \in Members : EmptyStatus(mode, q).members[m] = "absent"
      /\ EmptyStatus(mode, q).size = 0 /\ EmptyStatus(mode, q).inUse = 0
  BY DEF EmptyStatus
<1> QED
  BY <1>1, <1>2, EmptySummed

(* The sums of the Status being filled stay founded, because every member  *)
(* is read once (direct.go 57-80, podexec.go 113-146).                     *)
LEMMA FilledSummed ==
  ASSUME IInv, [Next]_vars
  PROVE  Summed(st)'
<1>0. TypeOK' /\ st \in StatusSet /\ st' \in StatusSet /\ Summed(st)
  BY TypeStep DEF IInv, TypeOK, SumInv
<1>1. CASE st' = st
  BY <1>0, <1>1
<1>2. CASE DirectStarts
  <2>1. st' = EmptyStatus("direct", OptQuota) /\ OptQuota \in Nat
    BY <1>2, QuotaType DEF DirectStarts, ReadMembers, IInv
  <2> QED
    BY <2>1, EmptyListed DEF Sources
<1>3. CASE PodExecStarts
  <2>1. st' = EmptyStatus("pod-exec", 0)
    BY <1>3 DEF PodExecStarts, ReadMembers
  <2> QED
    BY <2>1, EmptyListed DEF Sources
<1>7. ASSUME DirectStatus \/ PodStatus, i \in Members
      PROVE  st.members[i] = "absent"
  <2>1. src \in {"direct", "pod-exec"} /\ step = "members"
    BY <1>7 DEF DirectStatus, PodStatus, At
  <2>2. i \in Nat
    BY DEF IInv, TypeOK
  <2> QED
    BY <1>7, <2>1, <2>2, NextUnread
<1>4. CASE (DirectStatus \/ PodStatus) /\ i \in Members /\ st' = Reached(i)
  <2>1. /\ st'.members = [st.members EXCEPT ![i] = "reachable"]
        /\ st'.size = st.size + DBSize[i] /\ st'.inUse = st.inUse + DBSizeInUse[i]
    BY <1>0, <1>4 DEF Reached, StatusSet
  <2> QED
    BY <1>0, <1>4, <1>7, <2>1, AddSummed
<1>5. CASE (DirectStatus \/ PodStatus) /\ i \in Members /\ st' = Missed(i)
  <2>1. st.members[i] = "absent"
    BY <1>5, <1>7
  <2>2. /\ st'.members = [st.members EXCEPT ![i] = "unreachable"]
        /\ st'.size = st.size /\ st'.inUse = st.inUse
    BY <1>0, <1>5 DEF Missed, StatusSet
  <2>3. \A m \in Members : st'.members[m] = "reachable" <=> st.members[m] = "reachable"
    BY <1>0, <1>5, <2>1, <2>2 DEF StatusSet
  <2> QED
    BY <1>0, <2>2, <2>3, SameSummed
<1>6. CASE st' = [st EXCEPT !.alarms = alarm] \/ st' = [st EXCEPT !.quota = ServerQuota]
  <2>1. st'.members = st.members /\ st'.size = st.size /\ st'.inUse = st.inUse
    BY <1>0, <1>6 DEF StatusSet
  <2> QED
    BY <1>0, <2>1, SameSummed
<1> QED
  BY <1>1, <1>2, <1>3, <1>4, <1>5, <1>6, StatusMoves

(* What a Job or /readyz answers: no sums but those of one member. *)
LEMMA JobAnswer ==
  ASSUME IInv, NEW m, NEW s, JobSays(m, s)
  PROVE  /\ answer'.kind = "status" /\ answer'.st.mode = "in-cluster"
         /\ Summed(answer'.st)
         /\ \A k \in Members : answer'.st.members[k] = "reachable" => k \in up
         /\ \A k \in Members : answer'.st.members[k] # "absent" => k = m
<1> DEFINE none == EmptyStatus("in-cluster", DefaultQuota)
<1>1. m \in Members /\ m \in up /\ alarm \in BOOLEAN
  BY DEF JobSays, IInv, TypeOK
<1>2. s \in StatusSet
  BY <1>1, JobType DEF JobSays, IInv
<1>3. none \in StatusSet /\ Summed(none) /\ (\A k \in Members : none.members[k] = "absent")
      /\ none.size = 0 /\ none.inUse = 0 /\ none.mode = "in-cluster"
  <2>1. DefaultQuota \in Nat /\ "in-cluster" \in Sources
    BY BytesAssumption DEF Sources
  <2> QED
    BY <2>1, EmptyType, EmptyListed DEF EmptyStatus
<1> HIDE DEF none
<1>4. /\ s.mode = "in-cluster" /\ Summed(s)
      /\ \A k \in Members : s.members[k] = "reachable" => k \in up
      /\ \A k \in Members : s.members[k] # "absent" => k = m
  <2>1. CASE s = JobReached(m)
    <3>1. /\ s.mode = "in-cluster"
          /\ s.members = [none.members EXCEPT ![m] = "reachable"]
          /\ s.size = DBSize[m] /\ s.inUse = DBSizeInUse[m]
      BY <1>3, <2>1 DEF none, JobReached, StatusSet
    <3>2. s.size = none.size + DBSize[m] /\ s.inUse = none.inUse + DBSizeInUse[m]
      BY <1>1, <1>3, <3>1, BytesAssumption
    <3>3. Summed(s)
      BY <1>1, <1>2, <1>3, <3>1, <3>2, AddSummed
    <3> QED
      BY <1>1, <1>3, <3>1, <3>3 DEF StatusSet
  <2>2. CASE s = JobMissed(m)
    <3>1. /\ s.mode = "in-cluster"
          /\ s.members = [none.members EXCEPT ![m] = "unreachable"]
          /\ s.size = 0 /\ s.inUse = 0
      BY <1>3, <2>2 DEF none, JobMissed, StatusSet
    <3>2. \A k \in Members : s.members[k] # "reachable"
      BY <1>1, <1>3, <3>1 DEF StatusSet
    <3> QED
      BY <1>1, <1>2, <1>3, <3>1, <3>2, EmptySummed DEF StatusSet
  <2> QED
    BY <2>1, <2>2 DEF JobSays
<1>5. CASE Answers(s)
  BY <1>4, <1>5 DEF Answers
<1>6. CASE Answers([s EXCEPT !.alarms = alarm])
  <2> DEFINE a == [s EXCEPT !.alarms = alarm]
  <2>1. /\ a \in StatusSet /\ a.mode = s.mode /\ a.members = s.members
        /\ a.size = s.size /\ a.inUse = s.inUse
    BY <1>1, <1>2 DEF StatusSet
  <2>2. answer'.kind = "status" /\ answer'.st = a
    BY <1>6 DEF Answers
  <2> HIDE DEF a
  <2>3. Summed(a)
    BY <1>2, <1>4, <2>1, SameSummed
  <2> QED
    BY <1>4, <2>1, <2>2, <2>3
<1> QED
  BY <1>5, <1>6 DEF JobSays

LEMMA ReadyzAnswer ==
  ASSUME IInv, NEW b \in BOOLEAN, ReadyzSays(b)
  PROVE  /\ answer'.kind = "status" /\ answer'.st.mode = "via-apiserver"
         /\ Summed(answer'.st)
         /\ \A k \in Members : answer'.st.members[k] = "absent"
<1> DEFINE none == EmptyStatus("via-apiserver", OptQuota)
           a == [none EXCEPT !.reachable = b, !.hasLeader = b]
<1>1. none \in StatusSet /\ Summed(none) /\ (\A k \in Members : none.members[k] = "absent")
      /\ none.mode = "via-apiserver"
  <2>1. OptQuota \in Nat /\ "via-apiserver" \in Sources
    BY QuotaType DEF Sources, IInv
  <2> QED
    BY <2>1, EmptyType, EmptyListed DEF EmptyStatus
<1>2. answer'.kind = "status" /\ answer'.st = a
  BY DEF ReadyzSays, Answers
<1> HIDE DEF none
<1>3. /\ a \in StatusSet /\ a.mode = none.mode /\ a.members = none.members
      /\ a.size = none.size /\ a.inUse = none.inUse
  BY <1>1 DEF StatusSet
<1> HIDE DEF a
<1>4. Summed(a)
  BY <1>1, <1>3, SameSummed
<1> QED
  BY <1>1, <1>2, <1>3, <1>4

(* What the end of a source answers is the Status it filled. *)
LEMMA EndAnswer ==
  ASSUME IInv, Answers(st) \/ Answers([st EXCEPT !.quota = OptQuota])
  PROVE  /\ answer'.kind = "status" /\ answer'.st.mode = st.mode
         /\ answer'.st.members = st.members /\ Summed(answer'.st)
<1>0. st \in StatusSet /\ OptQuota \in Nat /\ Summed(st)
  BY QuotaType DEF IInv, TypeOK, SumInv
<1>1. CASE Answers(st)
  BY <1>0, <1>1 DEF Answers
<1>2. CASE Answers([st EXCEPT !.quota = OptQuota])
  <2> DEFINE a == [st EXCEPT !.quota = OptQuota]
  <2>1. /\ a \in StatusSet /\ a.mode = st.mode /\ a.members = st.members
        /\ a.size = st.size /\ a.inUse = st.inUse
    BY <1>0 DEF StatusSet
  <2>2. answer'.kind = "status" /\ answer'.st = a
    BY <1>2 DEF Answers
  <2> HIDE DEF a
  <2> QED
    BY <1>0, <2>1, <2>2, SameSummed
<1> QED
  BY <1>1, <1>2

(* What is summed is read: in every step, of the Status being filled and   *)
(* of the one returned (direct.go 67-68, podexec.go 125-126).              *)
LEMMA SumStep ==
  ASSUME IInv, [Next]_vars
  PROVE  SumInv'
<1>0. Summed(answer.st)
  BY DEF IInv, SumInv
<1>1. Summed(answer'.st)
  <2>1. CASE answer' = answer
    BY <1>0, <2>1
  <2>2. CASE Refuses
    BY <2>2, EmptyListed DEF Refuses, Sources
  <2>3. CASE (DirectEnds /\ Answers(st)) \/ (PodExecEnds /\ (Answers(st) \/ Answers([st EXCEPT !.quota = OptQuota])))
    BY <2>3, EndAnswer
  <2>4. CASE \E m, s : JobSays(m, s)
    BY <2>4, JobAnswer
  <2>5. CASE \E b \in BOOLEAN : ReadyzSays(b)
    BY <2>5, ReadyzAnswer
  <2> QED
    BY <2>1, <2>2, <2>3, <2>4, <2>5, AnswerMoves
<1>2. Summed(st)'
  BY FilledSummed
<1> QED
  BY <1>1, <1>2 DEF SumInv, Summed, Read
-----------------------------------------------------------------------------
(* No step takes back that a member was up, and none changes the options. *)
LEMMA WasUpGrows ==
  ASSUME IInv, [Next]_vars
  PROVE  wasUp \subseteq wasUp' /\ up \subseteq wasUp' /\ opts' = opts
<1>0. up \subseteq wasUp
  BY DEF IInv, PastInv
<1>1. CASE EtcdChanges
  BY <1>0, <1>1 DEF EtcdChanges
<1>2. CASE Collect \/ DirectUnavailable \/ DirectTLSFails \/ DirectStarts \/ DirectStatus \/ DirectAlarms
           \/ DirectEnds \/ PodExecUnavailable \/ PodExecStarts \/ PodStatus
  BY <1>0, <1>2 DEF Collect, DirectUnavailable, DirectTLSFails, DirectStarts, DirectStatus,
     DirectAlarms, DirectEnds, PodExecUnavailable, PodExecStarts, PodStatus, past
<1>3. CASE FetchQuota \/ FetchAlarms \/ PodExecEnds \/ JobUnavailable \/ JobCanceled \/ JobAnswers
           \/ ViaAPIServerUnavailable \/ ViaAPIServer \/ Done \/ UNCHANGED vars
  BY <1>0, <1>3 DEF FetchQuota, FetchAlarms, PodExecEnds, JobUnavailable, JobCanceled, JobAnswers,
     ViaAPIServerUnavailable, ViaAPIServer, Done, past, vars
<1> QED
  BY <1>1, <1>2, <1>3 DEF Next

(* A member that the Status being filled calls reachable was up. *)
LEMMA FilledUp ==
  ASSUME IInv, [Next]_vars
  PROVE  \A m \in Members : st'.members[m] = "reachable" => m \in wasUp'
<1>0. /\ st \in StatusSet /\ \A m \in Members : st.members[m] = "reachable" => m \in wasUp'
      /\ up \subseteq wasUp'
  BY WasUpGrows DEF IInv, TypeOK, CoverInv
<1>1. CASE st' = st
  BY <1>0, <1>1
<1>2. CASE DirectStarts
  <2>1. st' = EmptyStatus("direct", OptQuota) /\ OptQuota \in Nat
    BY <1>2, QuotaType DEF DirectStarts, ReadMembers, IInv
  <2> QED
    BY <2>1, EmptyListed DEF Sources
<1>3. CASE PodExecStarts
  <2>1. st' = EmptyStatus("pod-exec", 0)
    BY <1>3 DEF PodExecStarts, ReadMembers
  <2> QED
    BY <2>1, EmptyListed DEF Sources
<1>4. CASE i \in up /\ i \in Members /\ st' = Reached(i)
  <2>1. st'.members = [st.members EXCEPT ![i] = "reachable"]
    BY <1>0, <1>4 DEF Reached, StatusSet
  <2> QED
    BY <1>0, <1>4, <2>1 DEF StatusSet
<1>5. CASE i \in Members /\ st' = Missed(i)
  <2>1. st'.members = [st.members EXCEPT ![i] = "unreachable"]
    BY <1>0, <1>5 DEF Missed, StatusSet
  <2> QED
    BY <1>0, <1>5, <2>1 DEF StatusSet
<1>6. CASE st' = [st EXCEPT !.alarms = alarm] \/ st' = [st EXCEPT !.quota = ServerQuota]
  <2>1. st'.members = st.members
    BY <1>0, <1>6 DEF StatusSet
  <2> QED
    BY <1>0, <2>1
<1> QED
  BY <1>1, <1>2, <1>3, <1>4, <1>5, <1>6, StatusMoves

(* What the Status being filled covers. *)
Covered(s, k, at) ==
  {m \in Asked(s) : m < k \/ (m = k /\ s = "pod-exec" /\ at \in {"quota", "alarms"})}

LEMMA AskedMembers ==
  ASSUME TypeOK
  PROVE  /\ \A s : Asked(s) \subseteq Members
         /\ \A m \in Members : m \in Nat /\ m <= N
<1>1. opts.endpoints \subseteq Members
  BY DEF TypeOK, Options
<1>2. \A m \in Members : m \in Nat /\ m <= N
  BY SizeAssumption DEF Members
<1> QED
  BY <1>1, <1>2, OptionsAssumption DEF Asked

(* Reading member i, asked or not, covers the members up to i. *)
LEMMA ReadCovers ==
  ASSUME IInv, src \in {"direct", "pod-exec"}, step = "members", i \in Members, st' \in StatusSet,
         \/ i \in Asked(src) /\ (st' = Reached(i) \/ st' = Missed(i))
         \/ i \notin Asked(src) /\ st' = st
  PROVE  Listed(st') = {m \in Asked(src) : m < i + 1}
<1>1. st \in StatusSet /\ i \in Nat /\ Asked(src) \subseteq Members /\ \A m \in Asked(src) : m \in Nat
  BY AskedMembers DEF IInv, TypeOK
<1>2. Listed(st) = {m \in Asked(src) : m < i}
  BY DEF IInv, CoverInv
<1>3. ASSUME NEW x \in {"reachable", "unreachable"}, st'.members = [st.members EXCEPT ![i] = x]
      PROVE  Listed(st') = Listed(st) \cup {i}
  BY <1>1, <1>3 DEF Listed, StatusSet
<1>4. CASE i \in Asked(src) /\ (st' = Reached(i) \/ st' = Missed(i))
  <2>1. \E x \in {"reachable", "unreachable"} : st'.members = [st.members EXCEPT ![i] = x]
    BY <1>1, <1>4 DEF Reached, Missed, StatusSet
  <2>2. Listed(st') = Listed(st) \cup {i}
    BY <1>3, <2>1
  <2>3. \A k \in Asked(src) : k < i + 1 <=> (k < i \/ k = i)
    BY <1>1
  <2>4. {k \in Asked(src) : k < i} \cup {i} = {k \in Asked(src) : k < i + 1}
    BY <1>4, <2>3, Zenon
  <2> QED
    BY <1>2, <2>2, <2>4
<1>5. CASE i \notin Asked(src) /\ st' = st
  BY <1>1, <1>2, <1>5
<1> QED
  BY <1>4, <1>5

(* The Status being filled covers what was asked so far: no member is left *)
(* out and none asked twice (direct.go 57-80, podexec.go 113-146).         *)
LEMMA FilledCovers ==
  ASSUME IInv, [Next]_vars, src' \in {"direct", "pod-exec"}, step' # "enter"
  PROVE  /\ Listed(st') = Covered(src, i, step)'
         /\ src' = "direct" /\ step' = "alarms" => i' > N
<1>0. st \in StatusSet /\ st' \in StatusSet /\ i \in Nat /\ i' \in Nat /\ opts' = opts /\ N \in Nat
      /\ Members = 1..N /\ i \in 1..(N + 1)
  BY TypeStep, WasUpGrows, SizeAssumption DEF IInv, TypeOK, Members
<1>2. \A s : Asked(s)' = Asked(s)
  BY <1>0 DEF Asked
<1>1. /\ \A s : Asked(s) \subseteq Members /\ \A m \in Asked(s) : m \in Nat
      /\ Asked(src)' \subseteq Members /\ \A m \in Members : m \in Nat
  BY <1>0, AskedMembers DEF IInv, Asked
<1>3. CASE DirectStarts \/ PodExecStarts
  <2>1. (\A m \in Members : st'.members[m] = "absent") /\ i' = 1 /\ step' = "members"
    <3>1. CASE DirectStarts
      <4>1. st' = EmptyStatus("direct", OptQuota) /\ OptQuota \in Nat /\ i' = 1 /\ step' = "members"
        BY <3>1, QuotaType DEF DirectStarts, ReadMembers, IInv
      <4> QED
        BY <4>1, EmptyListed DEF Sources
    <3>2. CASE PodExecStarts
      <4>1. st' = EmptyStatus("pod-exec", 0) /\ i' = 1 /\ step' = "members"
        BY <3>2 DEF PodExecStarts, ReadMembers
      <4> QED
        BY <4>1, EmptyListed DEF Sources
    <3> QED
      BY <1>3, <3>1, <3>2
  <2>2. Listed(st') = {}
    BY <2>1 DEF Listed
  <2>3. Covered(src, i, step)' = {}
    BY <1>0, <1>1, <2>1 DEF Covered
  <2> QED
    BY <2>1, <2>2, <2>3
<1>4. CASE DirectStatus
  <2>1. /\ src = "direct" /\ step = "members" /\ i \in Members /\ i' = i + 1
        /\ src' = src /\ step' = step
        /\ \/ i \in Asked(src) /\ (st' = Reached(i) \/ st' = Missed(i))
           \/ i \notin Asked(src) /\ st' = st
    BY <1>0, <1>4 DEF DirectStatus, At, Asked
  <2>2. Listed(st') = {m \in Asked(src) : m < i + 1}
    BY <1>0, <2>1, ReadCovers
  <2> QED
    BY <1>2, <2>1, <2>2 DEF Covered
<1>5. CASE PodStatus
  <2>1. /\ src = "pod-exec" /\ step = "members" /\ i \in Members /\ src' = src
        /\ \/ i' = i + 1 /\ step' = step
           \/ i' = i /\ step' = "quota" /\ i \in Asked(src)
        /\ \/ i \in Asked(src) /\ (st' = Reached(i) \/ st' = Missed(i))
           \/ i \notin Asked(src) /\ st' = st
    <3>1. /\ src = "pod-exec" /\ step = "members" /\ i \in Members /\ src' = src
          /\ Asked(src) = Pods
      BY <1>0, <1>5 DEF PodStatus, At, Asked
    <3> QED
      BY <1>5, <3>1 DEF PodStatus
  <2>2. Listed(st') = {m \in Asked(src) : m < i + 1}
    BY <1>0, <2>1, ReadCovers
  <2>3. Asked(src)' = Asked(src)
    BY <1>2, <2>1
  <2>4. Covered(src, i, step)' = {m \in Asked(src) : m < i + 1}
    BY <1>0, <1>1, <2>1, <2>3 DEF Covered
  <2> QED
    BY <2>1, <2>2, <2>4
<1>6. CASE DirectAlarms \/ FetchQuota \/ FetchAlarms
  <2>1. st'.members = st.members
    BY <1>0, <1>6 DEF DirectAlarms, FetchQuota, FetchAlarms, StatusSet
  <2>2. Listed(st') = Listed(st)
    BY <2>1 DEF Listed
  <2>3. Listed(st) = Covered(src, i, step) /\ Asked(src)' = Asked(src) /\ src' = src
    BY <1>2, <1>6 DEF DirectAlarms, FetchQuota, FetchAlarms, At, IInv, CoverInv, Covered
  <2>4. CASE DirectAlarms
    BY <1>0, <2>2, <2>3, <2>4 DEF DirectAlarms, At, Covered
  <2>5. CASE FetchQuota
    BY <1>0, <2>2, <2>3, <2>5 DEF FetchQuota, At, Covered
  <2>6. CASE FetchAlarms
    <3>1. src = "pod-exec" /\ step = "alarms" /\ step' = "members" /\ i' = i + 1
      BY <2>6 DEF FetchAlarms, At
    <3>2. \A m \in Asked(src) : m \in Nat
      BY <1>1, <2>3
    <3>3. Covered(src, i, step)' = Covered(src, i, step)
      BY <1>0, <2>3, <3>1, <3>2 DEF Covered
    <3> QED
      BY <2>2, <2>3, <3>1, <3>3
  <2> QED
    BY <1>6, <2>4, <2>5, <2>6
<1>7. CASE UNCHANGED <<src, step, i, st>>
  <2>1. Asked(src)' = Asked(src)
    BY <1>2, <1>7
  <2> QED
    BY <1>7, <2>1 DEF IInv, CoverInv, Covered
<1>8. CASE src' = "done" \/ step' = "enter"
  BY <1>8
<1>9. CASE Collect \/ DirectUnavailable \/ DirectTLSFails \/ DirectEnds \/ PodExecUnavailable \/ PodExecEnds
           \/ JobUnavailable \/ JobCanceled \/ ViaAPIServerUnavailable
  <2>1. \A s : Unavailable(s) => src' = "done" \/ step' = "enter"
    BY DEF Unavailable, Ask, Return
  <2>2. Fail => src' = "done"
    BY DEF Fail, Return
  <2>3. \A s, x : Finish(s, x) => src' = "done" \/ step' = "enter"
    BY <2>1 DEF Finish, Return
  <2>4. Collect => src' = "done" \/ step' = "enter"
    BY <2>2 DEF Collect, Ask
  <2> QED
    BY <1>8, <1>9, <2>1, <2>2, <2>3, <2>4 DEF DirectUnavailable, DirectTLSFails, DirectEnds,
       PodExecUnavailable, PodExecEnds, JobUnavailable, JobCanceled, ViaAPIServerUnavailable
<1>10. CASE JobAnswers \/ ViaAPIServer
  BY <1>8, <1>10 DEF JobAnswers, ViaAPIServer, Return
<1>11. CASE EtcdChanges \/ Done \/ UNCHANGED vars
  BY <1>7, <1>11 DEF EtcdChanges, Done, vars
<1> QED
  BY <1>3, <1>4, <1>5, <1>6, <1>9, <1>10, <1>11 DEF Next

(* What is returned covers all that the source asks, or one member. *)
AnswerCovers ==
  answer.kind = "status" =>
    /\ \A m \in Members : answer.st.members[m] = "reachable" => m \in wasUp
    /\ IF answer.st.mode \in {"direct", "pod-exec"}
       THEN Listed(answer.st) = Asked(answer.st.mode)
       ELSE \A m, k \in Listed(answer.st) : m = k

LEMMA AnswerStep ==
  ASSUME IInv, [Next]_vars
  PROVE  AnswerCovers'
<1>0. wasUp \subseteq wasUp' /\ up \subseteq wasUp' /\ \A s : Asked(s)' = Asked(s)
  BY WasUpGrows DEF Asked
<1>1. CASE answer' = answer
  <2>1. AnswerCovers
    BY DEF IInv, CoverInv, AnswerCovers
  <2>2. Asked(answer.st.mode)' = Asked(answer.st.mode)
    BY <1>0, <1>1 DEF Asked
  <2> QED
    BY <1>0, <1>1, <2>1, <2>2 DEF AnswerCovers, Listed
<1>2. CASE Refuses
  BY <1>2 DEF Refuses, AnswerCovers
<1>3. CASE (DirectEnds /\ Answers(st)) \/ (PodExecEnds /\ (Answers(st) \/ Answers([st EXCEPT !.quota = OptQuota])))
  <2>1. answer'.kind = "status" /\ answer'.st.mode = st.mode /\ answer'.st.members = st.members
    BY <1>3, EndAnswer
  <2>2. /\ src \in {"direct", "pod-exec"} /\ st.mode = src /\ i > N
        /\ step # "enter" /\ (src = "pod-exec" => step = "members")
    BY <1>3 DEF DirectEnds, PodExecEnds, At, IInv, StatusInv, CoverInv, Sources
  <2>3. Listed(st) = Covered(src, i, step) /\ Listed(answer'.st) = Listed(st)
    BY <2>1, <2>2 DEF IInv, CoverInv, Covered, Listed
  <2>4. \A m \in Asked(src) : m \in Nat /\ m < i
    BY <2>2, SizeAssumption, OptionsAssumption DEF IInv, TypeOK, Options, Asked, Members
  <2>5. Listed(answer'.st) = Asked(src)
    BY <2>2, <2>3, <2>4 DEF Covered
  <2>6. Asked(answer.st.mode)' = Asked(src)
    BY <1>0, <2>1, <2>2 DEF Asked
  <2>7. \A m \in Members : st.members[m] = "reachable" => m \in wasUp
    BY DEF IInv, CoverInv
  <2> QED
    BY <1>0, <2>1, <2>2, <2>5, <2>6, <2>7 DEF AnswerCovers
<1>4. CASE \E m, s : JobSays(m, s)
  <2>1. PICK m, s : JobSays(m, s)
    BY <1>4
  <2> QED
    BY <1>0, <2>1, JobAnswer DEF AnswerCovers, Listed
<1>5. CASE \E b \in BOOLEAN : ReadyzSays(b)
  <2>1. PICK b \in BOOLEAN : ReadyzSays(b)
    BY <1>5
  <2> QED
    BY <1>0, <2>1, ReadyzAnswer DEF AnswerCovers, Listed
<1> QED
  BY <1>1, <1>2, <1>3, <1>4, <1>5, AnswerMoves

LEMMA CoverStep ==
  ASSUME IInv, [Next]_vars
  PROVE  CoverInv'
  BY FilledCovers, FilledUp, AnswerStep DEF CoverInv, AnswerCovers, Covered
-----------------------------------------------------------------------------
(* IInv is inductive: it holds of every state of a call of Collect         *)
(* (etcd.go 110-176), whatever etcd does and whichever reads fail.         *)
THEOREM Inductive == Spec => []IInv
<1>1. IInv /\ [Next]_vars => IInv'
  BY TypeStep, PastStep, StatusStep, TriedStep, CoverStep, SumStep DEF IInv
<1> QED
  BY InitInv, <1>1, PTL DEF Spec

(* The state of a call keeps its types. *)
THEOREM TypeCorrect == Spec => []TypeOK
<1>1. IInv => TypeOK
  BY DEF IInv
<1> QED
  BY Inductive, <1>1, PTL

(* etcd.health says OK only of an etcd that was up, had a leader and, as   *)
(* far as the alarms were read, was free of them at some moment of the     *)
(* call (etcd_checks.go 60-88).                                            *)
THEOREM HealthWitnessed == Spec => []HealthOKWitnessed
<1>1. IInv => HealthOKWitnessed
  <2> SUFFICES ASSUME IInv, Answered, Health(answer) = "OK"
               PROVE  wasUp # {} /\ hadLeader /\ (alarmsRead => alarmFree)
    BY DEF HealthOKWitnessed
  <2>1. answer.kind = "status" /\ answer.st.reachable /\ answer.st.hasLeader /\ ~ answer.st.alarms
    BY DEF Health, FromError
  <2> QED
    BY <2>1 DEF IInv, StatusInv, Witnessed
<1> QED
  BY Inductive, <1>1, PTL

(* In auto mode a source gives the answer only after every better one was  *)
(* asked and was unavailable, and Collect gives up only after all          *)
(* (etcd.go 144-176).                                                      *)
THEOREM AutoOrder == Spec => []NoSourceSkipped
<1>1. IInv => NoSourceSkipped
  BY DEF IInv, TriedInv, NoSourceSkipped, Answered
<1> QED
  BY Inductive, <1>1, PTL

(* etcd.members says OK only of three members or more, all of which were   *)
(* up at some moment of the call and which are all the endpoints or pods   *)
(* of the source that answered (etcd_checks.go 220-271).                   *)
THEOREM MembersWitnessed == Spec => []MembersOKWitnessed
<1>1. IInv => MembersOKWitnessed
  <2> SUFFICES ASSUME IInv, Answered, MembersCheck(answer) = "OK"
               PROVE  /\ Listed(answer.st) \subseteq wasUp
                      /\ Cardinality(Listed(answer.st)) >= 3
                      /\ Listed(answer.st) = IF answer.st.mode = "direct" THEN opts.endpoints ELSE Pods
    BY DEF MembersOKWitnessed, Listed
  <2> DEFINE listed == Listed(answer.st)
             read == {m \in Members : answer.st.members[m] = "reachable"}
  <2>1. answer.st \in StatusSet /\ DOMAIN answer.st.members = Members
    BY DEF IInv, TypeOK, StatusSet
  <2>2. /\ listed = {m \in DOMAIN answer.st.members : answer.st.members[m] \in {"reachable", "unreachable"}}
        /\ read = {m \in DOMAIN answer.st.members : answer.st.members[m] \in {"reachable"}}
    BY <2>1 DEF Listed, StatusSet
  <2>3. IsFiniteSet(Members)
    <3>1. IsFiniteSet(1..N)
      BY SizeAssumption, FS_Interval
    <3> QED
      BY <3>1 DEF Members
  <2>4. /\ IsFiniteSet(listed) /\ IsFiniteSet(read) /\ read \subseteq listed
        /\ Cardinality(listed) \in Nat /\ Cardinality(read) \in Nat
    <3>1. listed \subseteq Members /\ read \subseteq Members /\ read \subseteq listed
      BY DEF Listed
    <3>2. IsFiniteSet(listed) /\ IsFiniteSet(read)
      BY <2>3, <3>1, FS_Subset
    <3> QED
      BY <3>1, <3>2, FS_CardinalityType
  <2>5. /\ answer.kind = "status"
        /\ ~ (Cardinality(read) < Cardinality(listed)) /\ ~ (Cardinality(listed) < 3)
    BY <2>2 DEF MembersCheck, FromError
  <2> HIDE DEF listed, read
  <2>6. read = listed
    <3>1. read # listed => Cardinality(read) < Cardinality(listed)
      BY <2>4, FS_Subset
    <3> QED
      BY <2>5, <3>1
  <2>7. listed \subseteq wasUp
    BY <2>5, <2>6 DEF IInv, CoverInv, read
  <2>8. answer.st.mode \in {"direct", "pod-exec"}
    <3> SUFFICES ASSUME answer.st.mode \notin {"direct", "pod-exec"}
                 PROVE  FALSE
      OBVIOUS
    <3>1. \A m, k \in listed : m = k
      BY <2>5 DEF IInv, CoverInv, listed
    <3>2. CASE listed = {}
      BY <2>4, <2>5, <3>2, FS_EmptySet
    <3>3. CASE listed # {}
      <4>1. PICK m : m \in listed
        BY <3>3
      <4>2. listed = {m}
        BY <3>1, <4>1
      <4> QED
        BY <2>5, <4>2, FS_Singleton
    <3> QED
      BY <3>2, <3>3
  <2> QED
    BY <2>4, <2>5, <2>7, <2>8 DEF IInv, CoverInv, Asked, listed
<1> QED
  BY Inductive, <1>1, PTL

(* The sum that etcd.defrag judges is CRIT only if a member is, and OK     *)
(* only if one is: a sum of fragmented members is fragmented.              *)
LEMMA DefragFounded == IInv => DefragIsSomeMembers
<1> SUFFICES ASSUME IInv, Defrag(answer) \in {"OK", "CRIT"}
             PROVE  \E m \in Members :
                      /\ answer.st.members[m] = "reachable"
                      /\ Band(DBSize[m] - DBSizeInUse[m], DBSize[m], 25, 50) = Defrag(answer)
  BY DEF DefragIsSomeMembers
<1> DEFINE s == answer.st
<1>0. \A m \in Read(s) : m \in Members /\ s.members[m] = "reachable"
  BY DEF Read
<1>1. s.size \in Nat /\ s.inUse \in Nat /\ Summed(s)
  BY DEF IInv, TypeOK, StatusSet, SumInv
<1>2. \A m \in Members : DBSize[m] \in Nat /\ DBSizeInUse[m] \in Nat
  BY BytesAssumption
<1>3. s.size # 0 /\ Defrag(answer) = Band(s.size - s.inUse, s.size, 25, 50)
  BY DEF Defrag, FromError
<1>4. CASE Defrag(answer) = "CRIT"
  <2>1. 100 * (s.size - s.inUse) >= 50 * s.size
    BY <1>3, <1>4 DEF Band, AtLeast
  <2>2. PICK m \in Read(s) : Fragmented(m, 50)
    BY <1>1, <1>3, <2>1 DEF Summed
  <2>3. Band(DBSize[m] - DBSizeInUse[m], DBSize[m], 25, 50) = "CRIT"
    BY <2>2 DEF Fragmented, Band
  <2> QED
    BY <1>0, <1>4, <2>2, <2>3
<1>5. CASE Defrag(answer) = "OK"
  <2>1. ~ (100 * (s.size - s.inUse) >= 25 * s.size)
    BY <1>1, <1>3, <1>5 DEF Band, AtLeast
  <2>2. PICK m \in Read(s) : ~ Fragmented(m, 25)
    BY <2>1, <1>1 DEF Summed
  <2>3. ~ Fragmented(m, 50)
    BY <1>0, <1>2, <2>2 DEF Fragmented, AtLeast
  <2>4. Band(DBSize[m] - DBSizeInUse[m], DBSize[m], 25, 50) = "OK"
    BY <2>2, <2>3 DEF Fragmented, Band
  <2> QED
    BY <1>0, <1>5, <2>2, <2>4
<1> QED
  BY <1>4, <1>5

(* The sum that etcd.size judges is no less than any member it is made of. *)
LEMMA SizeFounded == IInv => SizeNotUnderstated
<1> SUFFICES ASSUME IInv, answer.kind = "status",
                    NEW m \in Members, answer.st.members[m] = "reachable"
             PROVE  /\ AtLeast(90, DBSize[m], answer.st.quota) => Size(answer) = "CRIT"
                    /\ Size(answer) = "OK" => ~ AtLeast(75, DBSize[m], answer.st.quota)
  BY DEF SizeNotUnderstated
<1>1. /\ answer.st.size \in Nat /\ answer.st.quota \in Nat /\ DBSize[m] \in Nat
      /\ answer.st.size >= DBSize[m]
  BY BytesAssumption DEF IInv, TypeOK, StatusSet, SumInv, Summed, Read
<1>2. ASSUME NEW pct \in {75, 90}, AtLeast(pct, DBSize[m], answer.st.quota)
      PROVE  answer.st.size # 0 /\ AtLeast(pct, answer.st.size, answer.st.quota)
  <2>1. CASE pct = 75
    BY <1>1, <1>2, <2>1 DEF AtLeast
  <2>2. CASE pct = 90
    BY <1>1, <1>2, <2>2 DEF AtLeast
  <2> QED
    BY <2>1, <2>2
<1>3. AtLeast(90, DBSize[m], answer.st.quota) => Size(answer) = "CRIT"
  BY <1>2 DEF Size, Band
<1>4. Size(answer) = "OK" => ~ AtLeast(75, DBSize[m], answer.st.quota)
  BY <1>2 DEF Size, Band
<1> QED
  BY <1>3, <1>4

(* And no more than as many times the largest of them as were read. *)
LEMMA SizeOverstated == IInv => SizeOverstatedAtMostByMembers
<1> SUFFICES ASSUME IInv, Size(answer) \in {"WARN", "CRIT"}
             PROVE  \E m \in Read(answer.st) :
                      AtLeast(IF Size(answer) = "CRIT" THEN 90 ELSE 75,
                              Cardinality(Read(answer.st)) * DBSize[m], answer.st.quota)
  BY DEF SizeOverstatedAtMostByMembers
<1> DEFINE s == answer.st
           pct == IF Size(answer) = "CRIT" THEN 90 ELSE 75
           c == Cardinality(Read(s))
<1>1. s.size \in Nat /\ s.quota \in Nat /\ Summed(s) /\ c \in Nat
  BY ReadFinite DEF IInv, TypeOK, StatusSet, SumInv
<1>2. s.size # 0 /\ AtLeast(pct, s.size, s.quota) /\ pct \in {75, 90}
  BY DEF Size, FromError, Band
<1>3. PICK m \in Read(s) : s.size <= c * DBSize[m]
  BY <1>1, <1>2 DEF Summed
<1>4. DBSize[m] \in Nat
  BY BytesAssumption DEF Read
<1> HIDE DEF pct, c, s
<1>5. c * DBSize[m] \in Nat
  BY <1>1, <1>4
<1>6. AtLeast(pct, c * DBSize[m], s.quota)
  <2> DEFINE most == c * DBSize[m]
  <2>1. most \in Nat /\ s.size <= most
    BY <1>3, <1>5
  <2> HIDE DEF most
  <2>2. AtLeast(pct, most, s.quota)
    BY <1>1, <1>2, <2>1 DEF AtLeast
  <2> QED
    BY <2>2 DEF most
<1> QED
  BY <1>3, <1>6 DEF pct, c, s

(* For any number of members of any sizes: the CRIT and the OK of          *)
(* etcd.defrag are true of some member that was read; etcd.size, which     *)
(* holds the sum of n members against the quota of one, plays none down    *)
(* and exaggerates at most n-fold (etcd_checks.go 110-209).                *)
THEOREM SizesBounded == Spec => []SizeVerdictsBounded
<1>1. IInv => SizeVerdictsBounded
  BY DefragFounded, SizeFounded, SizeOverstated DEF SizeVerdictsBounded
<1> QED
  BY Inductive, <1>1, PTL
=============================================================================
