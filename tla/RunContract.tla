---------------------------- MODULE RunContract -----------------------------
(***************************************************************************)
(* What a caller of runner.Run may rely on, with no workers, channels or   *)
(* goroutines: every check of the list is run at most once, what it        *)
(* returned is delivered into the report completely and in order, and the  *)
(* call returns the report of a whole run unless its context ended.        *)
(***************************************************************************)
EXTENDS Result

CONSTANTS
  NumChecks,   \* checks are numbered in the order of their IDs
  NotRun       \* the output of a check that has not run

Checks == 1..NumChecks

VARIABLES
  ctx,         \* "live", "canceled" or "deadline"
  output,      \* what each check returned, NotRun before
  report,      \* the findings collected so far
  err          \* "running", then what Run returned: "nil" or "deadline"

cvars == <<ctx, output, report, err>>

(* The k-th finding that check c returned. *)
Finding(c, k) == [check |-> c, idx |-> k, status |-> output[c][k]]

Delivered(c, k) == \E p \in DOMAIN report : report[p].check = c /\ report[p].idx = k

(* Everything some check returned is in the report. *)
AllDelivered ==
  \A c \in Checks : output[c] # NotRun =>
    \A k \in DOMAIN output[c] : Delivered(c, k)

AllRun == \A c \in Checks : output[c] # NotRun

Init ==
  /\ ctx = "live"
  /\ output = [c \in Checks |-> NotRun]
  /\ report = <<>>
  /\ err = "running"

(* The signal handler's or the deadline's doing; a context ends once. *)
ContextEnds ==
  /\ ctx = "live"
  /\ ctx' \in {"canceled", "deadline"}
  /\ UNCHANGED <<output, report, err>>

RunCheck(c) ==
  /\ err = "running"
  /\ output[c] = NotRun
  /\ output'[c] \in Seq(Status)
  /\ output' = [output EXCEPT ![c] = output'[c]]
  /\ UNCHANGED <<ctx, report, err>>

Deliver(c) ==
  /\ err = "running"
  /\ output[c] # NotRun
  /\ \E k \in DOMAIN output[c] :
       /\ ~ Delivered(c, k)
       /\ \A j \in 1..(k - 1) : Delivered(c, j)
       /\ report' = Append(report, Finding(c, k))
  /\ UNCHANGED <<ctx, output, err>>

Return ==
  /\ err = "running"
  /\ AllDelivered
  /\ ctx = "live" => AllRun
  /\ err' = IF ctx = "deadline" THEN "deadline" ELSE "nil"
  /\ UNCHANGED <<ctx, output, report>>

Next ==
  \/ ContextEnds
  \/ \E c \in Checks : RunCheck(c) \/ Deliver(c)
  \/ Return

Spec == Init /\ [][Next]_cvars
=============================================================================
