------------------------------- MODULE Runner -------------------------------
(***************************************************************************)
(* internal/runner/runner.go: Run's worker pool.  A feeder goroutine hands *)
(* the checks to the workers over the unbuffered channel jobs, each worker *)
(* runs one check at a time and sends its findings over the unbuffered     *)
(* channel findings to a collector goroutine, and Run itself waits for the *)
(* workers, closes findings, waits for the collector and looks at the      *)
(* context.  A send and its receive over an unbuffered channel are one     *)
(* step of both goroutines.                                                *)
(***************************************************************************)
EXTENDS Result

CONSTANTS
  NumChecks,       \* length of the list Run is given, in the order of IDs
  OptWorkers,      \* Options.Workers
  DefaultWorkers,  \* defaultWorkers, used when Options.Workers is not positive
  PerCheckTimeout, \* is Options.PerCheckTimeout positive?
  Capable,         \* the checks whose Requires() the environment offers
  RunResults,      \* what Run(ctx, env) of each check may return
  Panicky,         \* the checks whose Run may panic
  NotRun           \* not a sequence: the output of a check that has not run

Checks == 1..NumChecks

Workers == 1..(IF OptWorkers <= 0 THEN DefaultWorkers ELSE OptWorkers)

ASSUME NumChecksAssumption == NumChecks \in Nat
ASSUME WorkersAssumption == OptWorkers \in Int /\ DefaultWorkers \in Nat \ {0}
ASSUME TimeoutAssumption == PerCheckTimeout \in BOOLEAN
ASSUME ChecksAssumption == Capable \subseteq Checks /\ Panicky \subseteq Checks
ASSUME ResultsAssumption ==
  \A c \in Checks : RunResults[c] # {} /\ \A out \in RunResults[c] : out \in Seq(Status)
ASSUME NotRunAssumption == NotRun \notin Seq(Status)

VARIABLES
  ctx,      \* the context given to Run: "live", "canceled" or "deadline"
  next,     \* the feeder's position in the list
  feeder,   \* "feeding", or "closed" once it has returned and closed jobs
  worker,   \* each worker's place in its loop, its check and findings sent
  output,   \* the slice each check returned
  report,   \* report.Findings, appended to by the collector
  collector,\* "ranging" over findings, or "done" (doneCollect is closed)
  main,     \* "waiting" for the workers, "closed" findings, "returned"
  err,      \* "running", then the error Run returned: "nil" or "deadline"
  crashed   \* a panic in a goroutine has killed the process

vars == <<ctx, next, feeder, worker, output, report, collector, main, err, crashed>>

Idle == [pc |-> "idle", check |-> 0, sent |-> 0]

Worker == [pc : {"idle", "running", "sending", "done"},
           check : 0..NumChecks, sent : Nat]

Finding(c, k) == [check |-> c, idx |-> k, status |-> output[c][k]]

(* The types of the pool's state: in particular Run returns no error but  *)
(* nil and the deadline's (runner.go 38-88).                               *)
TypeOK ==
  /\ ctx \in {"live", "canceled", "deadline"}
  /\ next \in 1..(NumChecks + 1)
  /\ feeder \in {"feeding", "closed"}
  /\ worker \in [Workers -> Worker]
  /\ output \in [Checks -> Seq(Status) \cup {NotRun}]
  /\ report \in Seq([check : Checks, idx : Nat, status : Status])
  /\ collector \in {"ranging", "done"}
  /\ main \in {"waiting", "closed", "returned"}
  /\ err \in {"running", "nil", "deadline"}
  /\ crashed \in BOOLEAN

Init ==
  /\ ctx = "live"
  /\ next = 1
  /\ feeder = "feeding"
  /\ worker = [w \in Workers |-> Idle]
  /\ output = [c \in Checks |-> NotRun]
  /\ report = <<>>
  /\ collector = "ranging"
  /\ main = "waiting"
  /\ err = "running"
  /\ crashed = FALSE
-----------------------------------------------------------------------------
(* A signal cancels the context or its deadline passes, at any moment of   *)
(* the run (main.go's NotifyContext, check.go's WithTimeout).              *)
ContextEnds ==
  /\ ~ crashed
  /\ ctx = "live"
  /\ main # "returned"
  /\ ctx' \in {"canceled", "deadline"}
  /\ UNCHANGED <<next, feeder, worker, output, report, collector, main, err, crashed>>

(* Mutant: the feeder's loop does not advance. *)
FeedSameAgain(w) ==
  /\ ~ crashed
  /\ feeder = "feeding"
  /\ next <= NumChecks
  /\ worker[w].pc = "idle"
  /\ worker' = [worker EXCEPT ![w] = [pc |-> "running", check |-> next, sent |-> 0]]
  /\ UNCHANGED <<ctx, next, feeder, output, report, collector, main, err, crashed>>

(* The feeder's select takes its send case: worker w receives the job. It  *)
(* may do so even after the context ended, for select picks at random.     *)
Feed(w) ==
  /\ ~ crashed
  /\ feeder = "feeding"
  /\ next <= NumChecks
  /\ worker[w].pc = "idle"
  /\ worker' = [worker EXCEPT ![w] = [pc |-> "running", check |-> next, sent |-> 0]]
  /\ next' = next + 1
  /\ UNCHANGED <<ctx, feeder, output, report, collector, main, err, crashed>>

(* Mutant: the last check of the list is never handed out. *)
FeederReturnsEarly ==
  /\ ~ crashed
  /\ feeder = "feeding"
  /\ next >= NumChecks \/ ctx # "live"
  /\ feeder' = "closed"
  /\ UNCHANGED <<ctx, next, worker, output, report, collector, main, err, crashed>>

(* The feeder leaves its loop, at the end of the list or through           *)
(* <-ctx.Done(), and its deferred close(jobs) runs.                        *)
FeederReturns ==
  /\ ~ crashed
  /\ feeder = "feeding"
  /\ next > NumChecks \/ ctx # "live"
  /\ feeder' = "closed"
  /\ UNCHANGED <<ctx, next, worker, output, report, collector, main, err, crashed>>

(* What runOne may return: a SKIP finding when a capability is missing; a  *)
(* result of the check; or the UNKNOWN a check makes of a context that     *)
(* ended under it, its own or the one given to Run.                        *)
RunOneResults(c) ==
  IF c \notin Capable THEN {<<"SKIP">>}
  ELSE RunResults[c] \cup
       (IF ctx # "live" \/ PerCheckTimeout THEN {<<"UNKNOWN">>} ELSE {})

RunOne(w) ==
  /\ ~ crashed
  /\ worker[w].pc = "running"
  /\ \E out \in RunOneResults(worker[w].check) :
       output' = [output EXCEPT ![worker[w].check] = out]
  /\ worker' = [worker EXCEPT ![w].pc = "sending"]
  /\ UNCHANGED <<ctx, next, feeder, report, collector, main, err, crashed>>

(* A check panics.  Nothing recovers it, so the whole process dies. *)
Panic(w) ==
  /\ ~ crashed
  /\ worker[w].pc = "running"
  /\ worker[w].check \in Capable \cap Panicky
  /\ crashed' = TRUE
  /\ UNCHANGED <<ctx, next, feeder, worker, output, report, collector, main, err>>

(* findings <- f, received and appended by the collector. *)
Send(w) ==
  /\ ~ crashed
  /\ worker[w].pc = "sending"
  /\ worker[w].sent < Len(output[worker[w].check])
  /\ collector = "ranging"
  /\ worker' = [worker EXCEPT ![w].sent = @ + 1]
  /\ report' = Append(report, Finding(worker[w].check, worker[w].sent + 1))
  /\ UNCHANGED <<ctx, next, feeder, output, collector, main, err, crashed>>

(* Mutant: an ended context makes a worker drop what it has left to send. *)
NextJobDropping(w) ==
  /\ ~ crashed
  /\ worker[w].pc = "sending"
  /\ worker[w].sent = Len(output[worker[w].check]) \/ ctx # "live"
  /\ worker' = [worker EXCEPT ![w] = Idle]
  /\ UNCHANGED <<ctx, next, feeder, output, report, collector, main, err, crashed>>

(* The findings are sent: back to the next job. *)
NextJob(w) ==
  /\ ~ crashed
  /\ worker[w].pc = "sending"
  /\ worker[w].sent = Len(output[worker[w].check])
  /\ worker' = [worker EXCEPT ![w] = Idle]
  /\ UNCHANGED <<ctx, next, feeder, output, report, collector, main, err, crashed>>

(* jobs is closed: the worker's range ends and wg.Done() runs. *)
WorkerDone(w) ==
  /\ ~ crashed
  /\ worker[w].pc = "idle"
  /\ feeder = "closed"
  /\ worker' = [worker EXCEPT ![w].pc = "done"]
  /\ UNCHANGED <<ctx, next, feeder, output, report, collector, main, err, crashed>>

(* Mutant: findings is closed when the feeder is done, without wg.Wait(). *)
CloseFindingsEarly ==
  /\ ~ crashed
  /\ main = "waiting"
  /\ feeder = "closed"
  /\ main' = "closed"
  /\ UNCHANGED <<ctx, next, feeder, worker, output, report, collector, err, crashed>>

(* Mutant: <-doneCollect before close(findings). *)
CloseFindingsLast ==
  /\ ~ crashed
  /\ main = "waiting"
  /\ \A w \in Workers : worker[w].pc = "done"
  /\ collector = "done"
  /\ main' = "closed"
  /\ UNCHANGED <<ctx, next, feeder, worker, output, report, collector, err, crashed>>

(* wg.Wait() returns and findings is closed. *)
CloseFindings ==
  /\ ~ crashed
  /\ main = "waiting"
  /\ \A w \in Workers : worker[w].pc = "done"
  /\ main' = "closed"
  /\ UNCHANGED <<ctx, next, feeder, worker, output, report, collector, err, crashed>>

(* findings is closed: the collector's range ends, doneCollect is closed. *)
CollectorDone ==
  /\ ~ crashed
  /\ main = "closed"
  /\ collector = "ranging"
  /\ collector' = "done"
  /\ UNCHANGED <<ctx, next, feeder, worker, output, report, main, err, crashed>>

(* Mutant: ctx.Err() is not looked at. *)
ReturnNil ==
  /\ ~ crashed
  /\ main = "closed"
  /\ collector = "done"
  /\ main' = "returned"
  /\ err' = "nil"
  /\ UNCHANGED <<ctx, next, feeder, worker, output, report, collector, crashed>>

(* <-doneCollect, then ctx.Err(): only a deadline is an error of Run. *)
Return ==
  /\ ~ crashed
  /\ main = "closed"
  /\ collector = "done"
  /\ main' = "returned"
  /\ err' = IF ctx = "deadline" THEN "deadline" ELSE "nil"
  /\ UNCHANGED <<ctx, next, feeder, worker, output, report, collector, crashed>>

(* Run has returned or the process is gone: nothing is left to do. *)
Finished ==
  /\ crashed \/ main = "returned"
  /\ UNCHANGED vars

WorkerStep(w) ==
  RunOne(w) \/ Panic(w) \/ Send(w) \/ NextJob(w) \/ WorkerDone(w)

Next ==
  \/ ContextEnds
  \/ FeederReturns
  \/ \E w \in Workers : Feed(w) \/ WorkerStep(w)
  \/ CloseFindings
  \/ CollectorDone
  \/ Return
  \/ Finished

Spec == Init /\ [][Next]_vars

(* Go runs every goroutine that can move; a check's Run is assumed to      *)
(* return.  Nothing is assumed of the context, nor of a panic.             *)
Fairness ==
  /\ WF_vars(FeederReturns)
  /\ \A w \in Workers : WF_vars(Feed(w)) /\ WF_vars(WorkerStep(w))
  /\ WF_vars(CloseFindings)
  /\ WF_vars(CollectorDone)
  /\ WF_vars(Return)

FairSpec == Spec /\ Fairness
-----------------------------------------------------------------------------
(* The k-th finding of check c has been sent: it is one of those returned  *)
(* and a worker still sending for c is past it.                            *)
WasSent(c, k) ==
  /\ output[c] # NotRun
  /\ k \in 1..Len(output[c])
  /\ \A w \in Workers : worker[w].pc = "sending" /\ worker[w].check = c => k <= worker[w].sent

Busy(w) == worker[w].pc \in {"running", "sending"}

(* A check is with at most one worker, which holds a check already handed  *)
(* out; it has no output while it runs and has one while it is sent.       *)
WorkerInv ==
  \A w \in Workers : Busy(w) =>
    /\ worker[w].check \in 1..(next - 1)
    /\ worker[w].pc = "running" =>
         output[worker[w].check] = NotRun /\ worker[w].sent = 0
    /\ worker[w].pc = "sending" =>
         /\ output[worker[w].check] # NotRun
         /\ worker[w].sent \in 0..Len(output[worker[w].check])
    /\ \A v \in Workers : Busy(v) /\ worker[v].check = worker[w].check => v = w

(* Exactly the checks handed out have run or are running, and the feeder   *)
(* stops short of the end of the list only because the context ended.      *)
FeederInv ==
  /\ \A c \in Checks : output[c] # NotRun => c < next
  /\ \A c \in 1..(next - 1) :
       \/ output[c] # NotRun
       \/ \E w \in Workers : worker[w].pc = "running" /\ worker[w].check = c
  /\ feeder = "closed" => next = NumChecks + 1 \/ ctx # "live"

(* The order in which the goroutines end: feeder, workers, Run's wait,     *)
(* collector, return, with an error that agrees with the context.          *)
ShutdownInv ==
  /\ \A w \in Workers : worker[w].pc = "done" => feeder = "closed"
  /\ main # "waiting" => \A w \in Workers : worker[w].pc = "done"
  /\ collector = "done" => main # "waiting"
  /\ main = "returned" => collector = "done"
  /\ main = "returned" <=> err # "running"
  /\ err = "nil" => ctx # "deadline"

(* The report holds only findings sent, all the findings sent, and those   *)
(* of one check in the order in which the check returned them.             *)
OnlySent ==
  \A p \in DOMAIN report :
    /\ WasSent(report[p].check, report[p].idx)
    /\ report[p] = Finding(report[p].check, report[p].idx)

AllSent ==
  \A c \in Checks : output[c] # NotRun =>
    \A k \in 1..Len(output[c]) : WasSent(c, k) =>
      \E p \in DOMAIN report : report[p].check = c /\ report[p].idx = k

InOrder ==
  \A p, q \in DOMAIN report :
    p < q /\ report[p].check = report[q].check => report[p].idx < report[q].idx

ReportInv == OnlySent /\ AllSent /\ InOrder

(* The inductive invariant of the pool: types, who holds which check, how  *)
(* far the feeder is, the order of shutdown and the content of the report  *)
(* (runner.go 45-88).                                                      *)
IInv == TypeOK /\ WorkerInv /\ FeederInv /\ ShutdownInv /\ ReportInv
-----------------------------------------------------------------------------
(* No worker has a finding left to send once findings is closed or its     *)
(* collector gone: a send on a closed channel would panic, and one nobody  *)
(* receives would block Run for ever (runner.go 55, 81-83).                *)
NoSendAfterClose ==
  main # "waiting" \/ collector = "done" =>
    \A w \in Workers : ~ Busy(w)

(* When Run returns, with or without an error, after an interrupt or not,  *)
(* the report holds every finding returned by every check that ran: none   *)
(* lost on the way out of the pool, none repeated, and the findings of one *)
(* check in the order in which the check returned them, whatever the       *)
(* interleaving of the workers (runner.go 53-57, 76-78).                   *)
NothingLostOrRepeated ==
  main = "returned" =>
    /\ \A c \in Checks : output[c] # NotRun =>
         \A k \in DOMAIN output[c] : \E p \in DOMAIN report : report[p] = Finding(c, k)
    /\ InOrder

(* A nil error stands for a complete run, every check of the list having   *)
(* run, in every case but one: the context was canceled (runner.go 64-68,  *)
(* 85-88).  In particular a deadline never passes for a complete run.      *)
NilMeansCompleteOrCanceled ==
  main = "returned" /\ err = "nil" =>
    \/ \A c \in Checks : output[c] # NotRun
    \/ ctx = "canceled"

(* What of the pool a caller sees; the feeder, the workers, the collector  *)
(* and the place Run is at are hidden.                                     *)
Contract == INSTANCE RunContract
  WITH NumChecks <- NumChecks, NotRun <- NotRun,
       ctx <- ctx, output <- output, report <- report, err <- err

(* The pool keeps the contract its callers rely on: seen from outside,     *)
(* checks run, their findings arrive whole and Run returns with an error   *)
(* exactly for a deadline (runner.go 38-89, RunContract).                  *)
RefinesContract == Contract!Spec

(* Run always returns, whatever the interleaving and whenever the context  *)
(* ends, unless a check panics: no goroutine waits for one that waits for  *)
(* it (runner.go 45-84).                                                   *)
Termination == <>(crashed \/ main = "returned")
=============================================================================
