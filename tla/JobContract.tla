---------------------------- MODULE JobContract -----------------------------
(***************************************************************************)
(* What a caller of InClusterJob may rely on, with no Jobs, pods, polls or *)
(* names: a question is answered at most once and for good, without an     *)
(* image it is refused at once, and an answer with a status comes from a   *)
(* probe that was started no earlier than the second of the question.      *)
(* EtcdCollect takes such an answer in one step.                           *)
(***************************************************************************)
EXTENDS Integers

CONSTANTS
  Callers,     \* calls of the function InClusterJob returns
  WithImage,   \* those with --etcd-job-image
  LastSecond   \* bound: the clock stands still from this second on

VARIABLES
  now,         \* the clock, in seconds
  asked,       \* the second of each question
  answer,      \* "idle", "asked", "lost", or what was returned
  probes       \* the seconds in which probes that gave a status were started

jvars == <<now, asked, answer, probes>>

Init ==
  /\ now = 0
  /\ asked = [l \in Callers |-> 0]
  /\ answer = [l \in Callers |-> "idle"]
  /\ probes = {}

Becomes(l, a) == answer' = [answer EXCEPT ![l] = a]

Tick ==
  /\ now < LastSecond
  /\ now' = now + 1
  /\ UNCHANGED <<asked, answer, probes>>

Refuse(l) ==
  /\ answer[l] = "idle"
  /\ l \notin WithImage
  /\ Becomes(l, "unavailable")
  /\ UNCHANGED <<now, asked, probes>>

Ask(l) ==
  /\ answer[l] = "idle"
  /\ l \in WithImage
  /\ Becomes(l, "asked")
  /\ asked' = [asked EXCEPT ![l] = now]
  /\ UNCHANGED <<now, probes>>

(* A probe ends with a status.  None is started unless someone has asked.  *)
ProbeEnds ==
  /\ \E b \in 0..now :
       /\ \E l \in Callers : answer[l] # "idle" /\ l \in WithImage /\ asked[l] <= b
       /\ probes' = probes \cup {b}
  /\ UNCHANGED <<now, asked, answer>>

Answer(l) ==
  /\ answer[l] = "asked"
  /\ \/ Becomes(l, "unavailable")
     \/ Becomes(l, "ctx")
     \/ Becomes(l, "status") /\ \E b \in probes : asked[l] <= b
  /\ UNCHANGED <<now, asked, probes>>

(* The process of the caller ends first. *)
Lose(l) ==
  /\ answer[l] = "asked"
  /\ Becomes(l, "lost")
  /\ UNCHANGED <<now, asked, probes>>

Next ==
  \/ Tick
  \/ ProbeEnds
  \/ \E l \in Callers : Refuse(l) \/ Ask(l) \/ Answer(l) \/ Lose(l)

Spec == Init /\ [][Next]_jvars
=============================================================================
