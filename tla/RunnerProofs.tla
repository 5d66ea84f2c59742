---------------------------- MODULE RunnerProofs ----------------------------
(***************************************************************************)
(* Proofs about Runner, for every list of checks, every number of workers  *)
(* and whatever the checks return.                                         *)
(***************************************************************************)
EXTENDS Runner, TLAPS

(* runOne returns a slice of findings, whatever the check and the context. *)
LEMMA RunOneType ==
  ASSUME NEW c \in Checks, NEW out \in RunOneResults(c)
  PROVE  out \in Seq(Status)
<1>1. <<"SKIP">> \in Seq(Status) /\ <<"UNKNOWN">> \in Seq(Status)
  <2>1. "SKIP" \in Status /\ "UNKNOWN" \in Status
    BY DEF Status
  <2> QED BY <2>1
<1>2. \A o \in RunResults[c] : o \in Seq(Status)
  BY ResultsAssumption
<1> QED BY <1>1, <1>2 DEF RunOneResults

(* There is at least one worker. *)
LEMMA WorkersNonEmpty == 1 \in Workers /\ Workers \subseteq Nat
BY WorkersAssumption DEF Workers

(* Every step keeps every variable in its type. *)
LEMMA TypeStep == TypeOK /\ WorkerInv /\ [Next]_vars => TypeOK'
<1> SUFFICES ASSUME TypeOK, WorkerInv, [Next]_vars PROVE TypeOK'
  OBVIOUS
<1> USE NumChecksAssumption DEF TypeOK, Checks
<1>1. CASE ContextEnds
  BY <1>1 DEF ContextEnds
<1>2. CASE FeederReturns
  BY <1>2 DEF FeederReturns
<1>3. ASSUME NEW w \in Workers, Feed(w) PROVE TypeOK'
  <2>1. worker' \in [Workers -> Worker]
    BY <1>3 DEF Feed, Worker
  <2>2. next' \in 1..(NumChecks + 1)
    BY <1>3 DEF Feed
  <2> QED BY <1>3, <2>1, <2>2 DEF Feed
<1>4. ASSUME NEW w \in Workers, RunOne(w) PROVE TypeOK'
  <2>1. worker[w].check \in Checks
    BY <1>4 DEF RunOne, WorkerInv, Busy
  <2>2. PICK out \in RunOneResults(worker[w].check) :
          output' = [output EXCEPT ![worker[w].check] = out]
    BY <1>4 DEF RunOne
  <2>3. output' \in [Checks -> Seq(Status) \cup {NotRun}]
    BY <2>1, <2>2, RunOneType
  <2>4. worker' \in [Workers -> Worker]
    <3>1. [worker[w] EXCEPT !.pc = "sending"] \in Worker
      BY DEF Worker
    <3>2. worker' = [worker EXCEPT ![w] = [worker[w] EXCEPT !.pc = "sending"]]
      BY <1>4 DEF RunOne
    <3> QED BY <3>1, <3>2
  <2> QED BY <1>4, <2>3, <2>4 DEF RunOne
<1>5. ASSUME NEW w \in Workers, Panic(w) PROVE TypeOK'
  BY <1>5 DEF Panic
<1>6. ASSUME NEW w \in Workers, Send(w) PROVE TypeOK'
  <2>1. /\ worker[w].check \in Checks
        /\ worker[w].sent + 1 \in 1..Len(output[worker[w].check])
        /\ output[worker[w].check] \in Seq(Status)
    BY <1>6 DEF Send, WorkerInv, Busy, Worker
  <2>2. Finding(worker[w].check, worker[w].sent + 1)
          \in [check : Checks, idx : Nat, status : Status]
    BY <2>1 DEF Finding
  <2>3. report' \in Seq([check : Checks, idx : Nat, status : Status])
    BY <1>6, <2>2 DEF Send
  <2>4. worker' \in [Workers -> Worker]
    BY <1>6 DEF Send, Worker
  <2> QED BY <1>6, <2>3, <2>4 DEF Send
<1>7. ASSUME NEW w \in Workers, NextJob(w) PROVE TypeOK'
  <2>1. worker' \in [Workers -> Worker]
    BY <1>7 DEF NextJob, Worker, Idle
  <2> QED BY <1>7, <2>1 DEF NextJob
<1>8. ASSUME NEW w \in Workers, WorkerDone(w) PROVE TypeOK'
  <2>1. worker' \in [Workers -> Worker]
    BY <1>8 DEF WorkerDone, Worker
  <2> QED BY <1>8, <2>1 DEF WorkerDone
<1>9. CASE CloseFindings
  BY <1>9 DEF CloseFindings
<1>10. CASE CollectorDone
  BY <1>10 DEF CollectorDone
<1>11. CASE Return
  BY <1>11 DEF Return
<1>12. CASE Finished
  BY <1>12 DEF Finished, vars
<1>13. CASE UNCHANGED vars
  BY <1>13 DEF vars
<1> QED
  BY <1>1, <1>2, <1>3, <1>4, <1>5, <1>6, <1>7, <1>8, <1>9, <1>10, <1>11, <1>12, <1>13
     DEF Next, WorkerStep

(* A check stays with one worker from the moment it is handed out until    *)
(* its last finding is sent.                                               *)
LEMMA WorkerStepInv == IInv /\ [Next]_vars => WorkerInv'
<1> SUFFICES ASSUME IInv, [Next]_vars PROVE WorkerInv'
  OBVIOUS
<1> USE NumChecksAssumption DEF IInv, TypeOK, WorkerInv, Busy, Checks, Worker
<1>1. CASE ContextEnds
  BY <1>1 DEF ContextEnds
<1>2. CASE FeederReturns
  BY <1>2 DEF FeederReturns
<1>3. ASSUME NEW w \in Workers, Feed(w) PROVE WorkerInv'
  <2>1. output[next] = NotRun
    BY <1>3 DEF Feed, FeederInv
  <2>2. /\ worker'[w] = [pc |-> "running", check |-> next, sent |-> 0]
        /\ \A v \in Workers : v # w => worker'[v] = worker[v]
    BY <1>3 DEF Feed
  <2> QED BY <1>3, <2>1, <2>2 DEF Feed
<1>4. ASSUME NEW w \in Workers, RunOne(w) PROVE WorkerInv'
  <2>1. worker[w].check \in Checks /\ worker[w].sent \in Nat
    BY <1>4 DEF RunOne
  <2>2. PICK out \in RunOneResults(worker[w].check) :
          output' = [output EXCEPT ![worker[w].check] = out]
    BY <1>4 DEF RunOne
  <2>3. out \in Seq(Status) /\ out # NotRun
    BY <2>1, RunOneType, NotRunAssumption
  <2>4. /\ worker'[w] = [worker[w] EXCEPT !.pc = "sending"]
        /\ \A v \in Workers : v # w => worker'[v] = worker[v]
    BY <1>4 DEF RunOne
  <2>5. worker[w].sent = 0
    BY <1>4 DEF RunOne
  <2> QED BY <1>4, <2>1, <2>2, <2>3, <2>4, <2>5 DEF RunOne
<1>5. ASSUME NEW w \in Workers, Panic(w) PROVE WorkerInv'
  BY <1>5 DEF Panic
<1>6. ASSUME NEW w \in Workers, Send(w) PROVE WorkerInv'
  <2>1. /\ worker'[w] = [worker[w] EXCEPT !.sent = @ + 1]
        /\ \A v \in Workers : v # w => worker'[v] = worker[v]
    BY <1>6 DEF Send
  <2> QED BY <1>6, <2>1 DEF Send
<1>7. ASSUME NEW w \in Workers, NextJob(w) PROVE WorkerInv'
  <2>1. /\ worker'[w] = Idle
        /\ \A v \in Workers : v # w => worker'[v] = worker[v]
    BY <1>7 DEF NextJob
  <2> QED BY <1>7, <2>1 DEF NextJob, Idle
<1>8. ASSUME NEW w \in Workers, WorkerDone(w) PROVE WorkerInv'
  <2>1. /\ worker'[w] = [worker[w] EXCEPT !.pc = "done"]
        /\ \A v \in Workers : v # w => worker'[v] = worker[v]
    BY <1>8 DEF WorkerDone
  <2> QED BY <1>8, <2>1 DEF WorkerDone
<1>9. CASE CloseFindings
  BY <1>9 DEF CloseFindings
<1>10. CASE CollectorDone
  BY <1>10 DEF CollectorDone
<1>11. CASE Return
  BY <1>11 DEF Return
<1>12. CASE Finished
  BY <1>12 DEF Finished, vars
<1>13. CASE UNCHANGED vars
  BY <1>13 DEF vars
<1> QED
  BY <1>1, <1>2, <1>3, <1>4, <1>5, <1>6, <1>7, <1>8, <1>9, <1>10, <1>11, <1>12, <1>13
     DEF Next, WorkerStep

(* The checks handed out are those that have run or are running, and an    *)
(* early end of the feeder is owed to the context.                         *)
LEMMA FeederStepInv == IInv /\ [Next]_vars => FeederInv'
<1> SUFFICES ASSUME IInv, [Next]_vars PROVE FeederInv'
  OBVIOUS
<1> USE NumChecksAssumption DEF IInv, TypeOK, FeederInv, Checks, Worker
<1>1. CASE ContextEnds
  BY <1>1 DEF ContextEnds
<1>2. CASE FeederReturns
  BY <1>2 DEF FeederReturns
<1>3. ASSUME NEW w \in Workers, Feed(w) PROVE FeederInv'
  <2>1. /\ worker'[w] = [pc |-> "running", check |-> next, sent |-> 0]
        /\ \A v \in Workers : v # w => worker'[v] = worker[v]
    BY <1>3 DEF Feed
  <2>2. worker[w].pc # "running"
    BY <1>3 DEF Feed
  <2> QED BY <1>3, <2>1, <2>2 DEF Feed
<1>4. ASSUME NEW w \in Workers, RunOne(w) PROVE FeederInv'
  <2>1. worker[w].check \in 1..(next - 1)
    BY <1>4 DEF RunOne, WorkerInv, Busy
  <2>2. PICK out \in RunOneResults(worker[w].check) :
          output' = [output EXCEPT ![worker[w].check] = out]
    BY <1>4 DEF RunOne
  <2>3. out # NotRun
    BY <2>1, RunOneType, NotRunAssumption
  <2>4. \A v \in Workers : v # w => worker'[v] = worker[v]
    BY <1>4 DEF RunOne
  <2> QED BY <1>4, <2>1, <2>2, <2>3, <2>4 DEF RunOne
<1>5. ASSUME NEW w \in Workers, Panic(w) PROVE FeederInv'
  BY <1>5 DEF Panic
<1>6. ASSUME NEW w \in Workers, Send(w) PROVE FeederInv'
  <2>1. /\ worker'[w].pc = worker[w].pc /\ worker'[w].check = worker[w].check
        /\ \A v \in Workers : v # w => worker'[v] = worker[v]
    BY <1>6 DEF Send
  <2> QED BY <1>6, <2>1 DEF Send
<1>7. ASSUME NEW w \in Workers, NextJob(w) PROVE FeederInv'
  <2>1. \A v \in Workers : v # w => worker'[v] = worker[v]
    BY <1>7 DEF NextJob
  <2>2. worker[w].pc # "running"
    BY <1>7 DEF NextJob
  <2> QED BY <1>7, <2>1, <2>2 DEF NextJob
<1>8. ASSUME NEW w \in Workers, WorkerDone(w) PROVE FeederInv'
  <2>1. \A v \in Workers : v # w => worker'[v] = worker[v]
    BY <1>8 DEF WorkerDone
  <2>2. worker[w].pc # "running"
    BY <1>8 DEF WorkerDone
  <2> QED BY <1>8, <2>1, <2>2 DEF WorkerDone
<1>9. CASE CloseFindings
  BY <1>9 DEF CloseFindings
<1>10. CASE CollectorDone
  BY <1>10 DEF CollectorDone
<1>11. CASE Return
  BY <1>11 DEF Return
<1>12. CASE Finished
  BY <1>12 DEF Finished, vars
<1>13. CASE UNCHANGED vars
  BY <1>13 DEF vars
<1> QED
  BY <1>1, <1>2, <1>3, <1>4, <1>5, <1>6, <1>7, <1>8, <1>9, <1>10, <1>11, <1>12, <1>13
     DEF Next, WorkerStep

(* The goroutines end in order. *)
LEMMA ShutdownStepInv == IInv /\ [Next]_vars => ShutdownInv'
<1> SUFFICES ASSUME IInv, [Next]_vars PROVE ShutdownInv'
  OBVIOUS
<1> USE DEF IInv, TypeOK, ShutdownInv, Worker
<1>1. CASE ContextEnds
  BY <1>1 DEF ContextEnds
<1>2. CASE FeederReturns
  BY <1>2 DEF FeederReturns
<1>3. ASSUME NEW w \in Workers, Feed(w) PROVE ShutdownInv'
  BY <1>3 DEF Feed
<1>4. ASSUME NEW w \in Workers, RunOne(w) PROVE ShutdownInv'
  BY <1>4 DEF RunOne
<1>5. ASSUME NEW w \in Workers, Panic(w) PROVE ShutdownInv'
  BY <1>5 DEF Panic
<1>6. ASSUME NEW w \in Workers, Send(w) PROVE ShutdownInv'
  BY <1>6 DEF Send
<1>7. ASSUME NEW w \in Workers, NextJob(w) PROVE ShutdownInv'
  BY <1>7 DEF NextJob, Idle
<1>8. ASSUME NEW w \in Workers, WorkerDone(w) PROVE ShutdownInv'
  BY <1>8 DEF WorkerDone
<1>9. CASE CloseFindings
  BY <1>9 DEF CloseFindings
<1>10. CASE CollectorDone
  BY <1>10 DEF CollectorDone
<1>11. CASE Return
  BY <1>11 DEF Return
<1>12. CASE Finished
  BY <1>12 DEF Finished, vars
<1>13. CASE UNCHANGED vars
  BY <1>13 DEF vars
<1> QED
  BY <1>1, <1>2, <1>3, <1>4, <1>5, <1>6, <1>7, <1>8, <1>9, <1>10, <1>11, <1>12, <1>13
     DEF Next, WorkerStep

(* The checks and indices of a report's findings. *)
LEMMA ReportDomain ==
  ASSUME TypeOK, NEW p \in DOMAIN report
  PROVE  report[p].check \in Checks /\ report[p].idx \in Nat /\ p \in Nat
<1> DEFINE R == [check : Checks, idx : Nat, status : Status]
<1>1. report \in Seq(R)
  BY DEF TypeOK
<1> SUFFICES report[p] \in R /\ p \in Nat
  OBVIOUS
<1> HIDE DEF R
<1> QED BY <1>1

(* A step that sends nothing and changes no output already there leaves    *)
(* the report right.                                                       *)
LEMMA ReportUntouched ==
  ASSUME TypeOK, ReportInv, report' = report,
         \A c \in Checks : output[c] # NotRun => output'[c] = output[c],
         \A c \in Checks, k \in Nat : WasSent(c, k)' <=> WasSent(c, k)
  PROVE  ReportInv'
<1>1. OnlySent'
  <2> SUFFICES ASSUME NEW p \in DOMAIN report
               PROVE  WasSent(report[p].check, report[p].idx)'
                      /\ report'[p] = Finding(report[p].check, report[p].idx)'
    BY DEF OnlySent
  <2>1. WasSent(report[p].check, report[p].idx)
        /\ report[p] = Finding(report[p].check, report[p].idx)
    BY DEF ReportInv, OnlySent
  <2>2. output[report[p].check] # NotRun
    BY <2>1 DEF WasSent
  <2>3. output'[report[p].check] = output[report[p].check]
    BY <2>2, ReportDomain
  <2>4. WasSent(report[p].check, report[p].idx)'
    <3>1. PICK c \in Checks, k \in Nat : c = report[p].check /\ k = report[p].idx
      BY ReportDomain
    <3>2. WasSent(c, k)'
      BY <2>1, <3>1
    <3> QED BY <3>1, <3>2 DEF WasSent
  <2>5. report'[p] = Finding(report[p].check, report[p].idx)'
    BY <2>1, <2>3 DEF Finding
  <2> QED BY <2>4, <2>5
<1>2. AllSent'
  <2> SUFFICES ASSUME NEW c \in Checks, NEW k \in 1..Len(output'[c]), WasSent(c, k)'
               PROVE  \E p \in DOMAIN report : report[p].check = c /\ report[p].idx = k
    BY DEF AllSent
  <2>1. k \in Nat
    OBVIOUS
  <2>2. WasSent(c, k)
    BY <2>1
  <2> QED BY <2>2 DEF WasSent, ReportInv, AllSent
<1>3. InOrder'
  BY DEF ReportInv, InOrder
<1> QED BY <1>1, <1>2, <1>3 DEF ReportInv

(* The report holds exactly what was sent, once and in order. *)
LEMMA ReportStepInv == IInv /\ [Next]_vars => ReportInv'
<1> SUFFICES ASSUME IInv, [Next]_vars PROVE ReportInv'
  OBVIOUS
<1> USE DEF IInv
<1>a. ASSUME UNCHANGED <<report, output, worker>> PROVE ReportInv'
  BY <1>a, ReportUntouched DEF WasSent
<1>1. CASE ContextEnds
  BY <1>1, <1>a DEF ContextEnds
<1>2. CASE FeederReturns
  BY <1>2, <1>a DEF FeederReturns
<1>3. ASSUME NEW w \in Workers, Feed(w) PROVE ReportInv'
  <2>1. /\ worker'[w].pc # "sending" /\ worker[w].pc # "sending"
        /\ \A v \in Workers : v # w => worker'[v] = worker[v]
    BY <1>3 DEF Feed, TypeOK
  <2>2. \A c \in Checks, k \in Nat : WasSent(c, k)' <=> WasSent(c, k)
    BY <1>3, <2>1 DEF Feed, WasSent
  <2> QED BY <1>3, <2>2, ReportUntouched DEF Feed
<1>4. ASSUME NEW w \in Workers, RunOne(w) PROVE ReportInv'
  <2>1. PICK c0 \in Checks :
          c0 = worker[w].check /\ output[c0] = NotRun /\ worker[w].sent = 0
    BY <1>4, NumChecksAssumption DEF RunOne, WorkerInv, Busy, Checks, TypeOK
  <2>2. PICK out \in RunOneResults(c0) : output' = [output EXCEPT ![c0] = out]
    BY <1>4, <2>1 DEF RunOne
  <2>3. out \in Seq(Status) /\ out # NotRun
    BY <2>1, RunOneType, NotRunAssumption
  <2>4. /\ worker'[w].pc = "sending" /\ worker'[w].check = c0 /\ worker'[w].sent = 0
        /\ \A v \in Workers : v # w => worker'[v] = worker[v]
        /\ worker[w].pc # "sending"
    BY <1>4, <2>1 DEF RunOne, TypeOK, Worker
  <2>5. output'[c0] = out /\ \A c \in Checks : c # c0 => output'[c] = output[c]
    BY <2>1, <2>2 DEF TypeOK
  <2>6. \A c \in Checks, k \in Nat : WasSent(c, k)' <=> WasSent(c, k)
    <3> TAKE c \in Checks, k \in Nat
    <3>1. CASE c = c0
      BY <3>1, <2>1, <2>4 DEF WasSent
    <3>2. CASE c # c0
      BY <3>2, <2>1, <2>4, <2>5 DEF WasSent
    <3> QED BY <3>1, <3>2
  <2> QED BY <1>4, <2>1, <2>5, <2>6, ReportUntouched DEF RunOne
<1>5. ASSUME NEW w \in Workers, Panic(w) PROVE ReportInv'
  BY <1>5, <1>a DEF Panic
<1>6. ASSUME NEW w \in Workers, Send(w) PROVE ReportInv'
  <2>1. PICK c0 \in Checks, k0 \in Nat :
          /\ c0 = worker[w].check /\ k0 = worker[w].sent + 1
          /\ output[c0] # NotRun
          /\ k0 \in 1..Len(output[c0]) /\ worker[w].sent \in Nat
    BY <1>6, NumChecksAssumption DEF Send, WorkerInv, Busy, Checks, TypeOK, Worker
  <2>2. /\ worker'[w].pc = "sending" /\ worker'[w].check = c0 /\ worker'[w].sent = k0
        /\ \A v \in Workers : v # w => worker'[v] = worker[v]
    BY <1>6, <2>1 DEF Send, TypeOK, Worker
  <2>3. /\ worker[w].pc = "sending" /\ worker[w].sent = k0 - 1
        /\ \A v \in Workers : worker[v].pc = "sending" /\ worker[v].check = c0 => v = w
    BY <1>6, <2>1 DEF Send, WorkerInv, Busy
  <2>4. output' = output
    BY <1>6 DEF Send
  <2>5. /\ Len(report') = Len(report) + 1
        /\ \A p \in 1..Len(report) : report'[p] = report[p]
        /\ report'[Len(report) + 1] = Finding(c0, k0)
        /\ Len(report) \in Nat
        /\ DOMAIN report = 1..Len(report) /\ DOMAIN report' = 1..(Len(report) + 1)
    BY <1>6, <2>1 DEF Send, TypeOK
  <2>6. k0 \in Nat /\ worker[w].check = c0
    BY <2>1
  <2>7. \A c \in Checks, k \in Nat :
          WasSent(c, k)' <=> WasSent(c, k) \/ (c = c0 /\ k = k0)
    <3> TAKE c \in Checks, k \in Nat
    <3>1. CASE c = c0
      <4>1. WasSent(c0, k) <=> k \in 1..Len(output[c0]) /\ k <= k0 - 1
        BY <2>1, <2>3, <2>6 DEF WasSent
      <4>2. WasSent(c0, k)' <=> k \in 1..Len(output[c0]) /\ k <= k0
        BY <2>1, <2>2, <2>3, <2>4, <2>6 DEF WasSent
      <4> QED BY <3>1, <4>1, <4>2, <2>1, <2>6
    <3>2. CASE c # c0
      BY <3>2, <2>2, <2>4, <2>6 DEF WasSent
    <3> QED BY <3>1, <3>2
  <2>8. \A p \in DOMAIN report : report[p].check = c0 => report[p].idx < k0
    BY <2>3, <2>6, ReportDomain DEF ReportInv, OnlySent, WasSent
  <2>9. OnlySent'
    <3> SUFFICES ASSUME NEW p \in DOMAIN report'
                 PROVE  /\ WasSent(report[p].check, report[p].idx)'
                        /\ report'[p] = Finding(report[p].check, report[p].idx)'
      BY DEF OnlySent
    <3>1. PICK c \in Checks, k \in Nat :
            /\ c = report'[p].check /\ k = report'[p].idx
            /\ WasSent(c, k) \/ (c = c0 /\ k = k0)
            /\ report'[p] = Finding(c, k)
      <4>1. CASE p = Len(report) + 1
        BY <4>1, <2>5, <2>6, <2>1 DEF Finding
      <4>2. CASE p # Len(report) + 1
        <5>1. p \in DOMAIN report /\ report'[p] = report[p]
          BY <4>2, <2>5
        <5> QED BY <5>1, ReportDomain DEF ReportInv, OnlySent
      <4> QED BY <4>1, <4>2
    <3>2. WasSent(c, k)'
      BY <3>1, <2>7
    <3>3. report'[p] = Finding(report[p].check, report[p].idx)'
      BY <3>1, <2>4 DEF Finding
    <3> QED BY <3>1, <3>2, <3>3 DEF WasSent
  <2>10. AllSent'
    <3> SUFFICES ASSUME NEW c \in Checks, NEW k \in 1..Len(output'[c]), WasSent(c, k)'
                 PROVE  \E p \in DOMAIN report' : report'[p].check = c /\ report'[p].idx = k
      BY DEF AllSent
    <3>0. k \in Nat
      OBVIOUS
    <3>1. CASE c = c0 /\ k = k0
      BY <3>1, <2>5 DEF Finding
    <3>2. CASE ~ (c = c0 /\ k = k0)
      <4>1. WasSent(c, k)
        BY <3>0, <3>2, <2>7
      <4>2. PICK p \in DOMAIN report : report[p].check = c /\ report[p].idx = k
        BY <4>1 DEF WasSent, ReportInv, AllSent
      <4> QED BY <4>2, <2>5
    <3> QED BY <3>1, <3>2
  <2>11. InOrder'
    <3> SUFFICES ASSUME NEW p \in DOMAIN report', NEW q \in DOMAIN report',
                        p < q, report'[p].check = report'[q].check
                 PROVE  report'[p].idx < report'[q].idx
      BY DEF InOrder
    <3>1. p \in DOMAIN report /\ report'[p] = report[p]
      BY <2>5
    <3>2. CASE q = Len(report) + 1
      BY <3>1, <3>2, <2>5, <2>8 DEF Finding
    <3>3. CASE q # Len(report) + 1
      <4>1. q \in DOMAIN report /\ report'[q] = report[q]
        BY <3>3, <2>5
      <4> QED BY <3>1, <4>1 DEF ReportInv, InOrder
    <3> QED BY <3>2, <3>3
  <2> QED BY <2>9, <2>10, <2>11 DEF ReportInv
<1>7. ASSUME NEW w \in Workers, NextJob(w) PROVE ReportInv'
  <2>1. /\ worker'[w].pc = "idle"
        /\ \A v \in Workers : v # w => worker'[v] = worker[v]
        /\ worker[w].sent = Len(output[worker[w].check])
    BY <1>7 DEF NextJob, Idle, TypeOK
  <2>2. \A c \in Checks, k \in Nat : WasSent(c, k)' <=> WasSent(c, k)
    BY <1>7, <2>1 DEF NextJob, WasSent, TypeOK
  <2> QED BY <1>7, <2>2, ReportUntouched DEF NextJob
<1>8. ASSUME NEW w \in Workers, WorkerDone(w) PROVE ReportInv'
  <2>1. /\ worker'[w].pc # "sending" /\ worker[w].pc # "sending"
        /\ \A v \in Workers : v # w => worker'[v] = worker[v]
    BY <1>8 DEF WorkerDone, TypeOK, Worker
  <2>2. \A c \in Checks, k \in Nat : WasSent(c, k)' <=> WasSent(c, k)
    BY <1>8, <2>1 DEF WorkerDone, WasSent
  <2> QED BY <1>8, <2>2, ReportUntouched DEF WorkerDone
<1>9. CASE CloseFindings
  BY <1>9, <1>a DEF CloseFindings
<1>10. CASE CollectorDone
  BY <1>10, <1>a DEF CollectorDone
<1>11. CASE Return
  BY <1>11, <1>a DEF Return
<1>12. CASE Finished
  BY <1>12, <1>a DEF Finished, vars
<1>13. CASE UNCHANGED vars
  BY <1>13, <1>a DEF vars
<1> QED
  BY <1>1, <1>2, <1>3, <1>4, <1>5, <1>6, <1>7, <1>8, <1>9, <1>10, <1>11, <1>12, <1>13
     DEF Next, WorkerStep

(* The invariant holds before the goroutines start. *)
LEMMA InitInv == Init => IInv
<1> SUFFICES ASSUME Init PROVE IInv
  OBVIOUS
<1> USE NumChecksAssumption DEF Init, Checks
<1>1. TypeOK
  <2>1. worker \in [Workers -> Worker]
    BY DEF Worker, Idle
  <2>2. report \in Seq([check : Checks, idx : Nat, status : Status])
    OBVIOUS
  <2>3. output \in [Checks -> Seq(Status) \cup {NotRun}]
    OBVIOUS
  <2>4. next \in 1..(NumChecks + 1)
    OBVIOUS
  <2> QED BY <2>1, <2>2, <2>3, <2>4 DEF TypeOK
<1>2. WorkerInv
  BY DEF WorkerInv, Busy, Idle
<1>3. FeederInv
  BY DEF FeederInv
<1>4. ShutdownInv
  BY DEF ShutdownInv, Idle
<1>5. ReportInv
  BY DEF ReportInv, OnlySent, AllSent, InOrder
<1> QED BY <1>1, <1>2, <1>3, <1>4, <1>5 DEF IInv

(* The invariant that carries the results below: who holds which check,    *)
(* how far the feeder is, the order of shutdown and the exact content of   *)
(* the report, at every moment of every run of the pool.                   *)
THEOREM Inductive == Spec => []IInv
<1>1. Init => IInv
  BY InitInv
<1>2. IInv /\ [Next]_vars => IInv'
  BY TypeStep, WorkerStepInv, FeederStepInv, ShutdownStepInv, ReportStepInv DEF IInv
<1> QED BY <1>1, <1>2, PTL DEF Spec

(* Type correctness of the pool, for every list, pool size and check.      *)
THEOREM TypeCorrect == Spec => []TypeOK
<1>1. IInv => TypeOK
  BY DEF IInv
<1> QED BY <1>1, Inductive, PTL

(* No finding is ever sent on a closed channel or to a collector that is   *)
(* gone, for any number of workers.                                        *)
THEOREM SafeSends == Spec => []NoSendAfterClose
<1>1. IInv => NoSendAfterClose
  BY DEF IInv, ShutdownInv, NoSendAfterClose, Busy
<1> QED BY <1>1, Inductive, PTL

(* When Run returns, its report is exactly what the checks returned.       *)
THEOREM ExactReport == Spec => []NothingLostOrRepeated
<1>1. IInv => NothingLostOrRepeated
  <2> SUFFICES ASSUME IInv, main = "returned" PROVE
         /\ \A c \in Checks : output[c] # NotRun =>
              \A k \in DOMAIN output[c] : \E p \in DOMAIN report : report[p] = Finding(c, k)
         /\ InOrder
    BY DEF NothingLostOrRepeated
  <2>1. InOrder
    BY DEF IInv, ReportInv
  <2>2. ASSUME NEW c \in Checks, output[c] # NotRun, NEW k \in DOMAIN output[c]
        PROVE  \E p \in DOMAIN report : report[p] = Finding(c, k)
    <3>1. output[c] \in Seq(Status) /\ k \in 1..Len(output[c])
      BY <2>2 DEF IInv, TypeOK
    <3>2. WasSent(c, k)
      BY <2>2, <3>1 DEF IInv, ShutdownInv, WasSent
    <3>3. PICK p \in DOMAIN report : report[p].check = c /\ report[p].idx = k
      BY <2>2, <3>1, <3>2 DEF IInv, ReportInv, AllSent
    <3>4. report[p] = Finding(c, k)
      BY <3>3 DEF IInv, ReportInv, OnlySent
    <3> QED BY <3>4
  <2> QED BY <2>1, <2>2
<1> QED BY <1>1, Inductive, PTL

(* With every worker done, a run whose context is alive has run every      *)
(* check.                                                                  *)
LEMMA LiveMeansAllRun ==
  ASSUME IInv, \A w \in Workers : worker[w].pc = "done", ctx = "live"
  PROVE  \A c \in Checks : output[c] # NotRun
<1>1. feeder = "closed"
  BY WorkersNonEmpty DEF IInv, ShutdownInv
<1>2. next = NumChecks + 1
  BY <1>1 DEF IInv, FeederInv
<1> QED BY <1>2, NumChecksAssumption DEF IInv, FeederInv, Checks

(* A nil error is a complete run unless the context was canceled.          *)
THEOREM NilError == Spec => []NilMeansCompleteOrCanceled
<1>1. IInv => NilMeansCompleteOrCanceled
  <2> SUFFICES ASSUME IInv, main = "returned", err = "nil", ctx # "canceled"
               PROVE  \A c \in Checks : output[c] # NotRun
    BY DEF NilMeansCompleteOrCanceled
  <2>1. ctx = "live"
    BY DEF IInv, TypeOK, ShutdownInv
  <2>2. \A w \in Workers : worker[w].pc = "done"
    BY DEF IInv, ShutdownInv
  <2> QED BY <2>1, <2>2, LiveMeansAllRun
<1> QED BY <1>1, Inductive, PTL
-----------------------------------------------------------------------------
(* Every step of the pool is a step of the contract or leaves its state    *)
(* alone.                                                                  *)
LEMMA ContractStep == IInv /\ [Next]_vars => [Contract!Next]_(Contract!cvars)
<1> SUFFICES ASSUME IInv, [Next]_vars PROVE [Contract!Next]_(Contract!cvars)
  OBVIOUS
<1>a. Contract!Checks = Checks
  BY DEF Contract!Checks, Checks
<1>1. CASE ContextEnds
  BY <1>1 DEF ContextEnds, Contract!ContextEnds, Contract!Next
<1>2. ASSUME NEW w \in Workers, RunOne(w) PROVE Contract!Next
  <2>1. PICK c \in Checks : c = worker[w].check /\ output[c] = NotRun
    BY <1>2, NumChecksAssumption DEF RunOne, IInv, WorkerInv, Busy, Checks, TypeOK
  <2>2. PICK out \in RunOneResults(c) : output' = [output EXCEPT ![c] = out]
    BY <1>2, <2>1 DEF RunOne
  <2>3. output'[c] = out /\ out \in Seq(Status)
    BY <2>2, RunOneType DEF IInv, TypeOK
  <2>4. err = "running"
    BY <1>2 DEF RunOne, IInv, ShutdownInv
  <2>5. Contract!RunCheck(c)
    <3>1. output' = [output EXCEPT ![c] = output'[c]]
      BY <2>2, <2>3
    <3>2. UNCHANGED <<ctx, report, err>>
      BY <1>2 DEF RunOne
    <3>3. Contract!Status = Status
      BY DEF Contract!Status, Status
    <3>4. output'[c] \in Seq(Contract!Status)
      BY <2>3, <3>3
    <3> QED BY <2>1, <2>4, <3>1, <3>2, <3>4 DEF Contract!RunCheck
  <2> QED BY <2>5, <1>a DEF Contract!Next
<1>3. ASSUME NEW w \in Workers, Send(w) PROVE Contract!Next
  <2>1. PICK c \in Checks, k \in Nat :
          /\ c = worker[w].check /\ k = worker[w].sent + 1
          /\ output[c] # NotRun
          /\ k \in 1..Len(output[c]) /\ output[c] \in Seq(Status)
    BY <1>3, NumChecksAssumption
       DEF Send, IInv, WorkerInv, Busy, Checks, TypeOK, Worker
  <2>2. /\ worker[w].pc = "sending" /\ worker[w].sent = k - 1
        /\ \A v \in Workers : worker[v].pc = "sending" /\ worker[v].check = c => v = w
    BY <1>3, <2>1 DEF Send, IInv, WorkerInv, Busy, TypeOK, Worker
  <2>3. \A j \in 1..Len(output[c]) : WasSent(c, j) <=> j < k
    <3> TAKE j \in 1..Len(output[c])
    <3>1. WasSent(c, j) <=> j <= worker[w].sent
      BY <2>1, <2>2 DEF WasSent
    <3> QED BY <2>1, <2>2, <3>1
  <2>4. ~ Contract!Delivered(c, k)
    BY <2>1, <2>3, ReportDomain DEF Contract!Delivered, IInv, ReportInv, OnlySent
  <2>5. \A j \in 1..(k - 1) : Contract!Delivered(c, j)
    BY <2>1, <2>3 DEF Contract!Delivered, IInv, ReportInv, AllSent
  <2>6. err = "running"
    BY <1>3 DEF Send, IInv, ShutdownInv
  <2>7. report' = Append(report, Contract!Finding(c, k))
    BY <1>3, <2>1 DEF Send, Finding, Contract!Finding
  <2>8. k \in DOMAIN output[c]
    BY <2>1
  <2>9. Contract!Deliver(c)
    BY <1>3, <2>1, <2>4, <2>5, <2>6, <2>7, <2>8 DEF Send, Contract!Deliver
  <2> QED BY <2>9, <1>a DEF Contract!Next
<1>4. CASE Return
  <2>1. \A w \in Workers : worker[w].pc = "done"
    BY <1>4 DEF Return, IInv, ShutdownInv
  <2>2. ctx = "live" => Contract!AllRun
    BY <2>1, <1>a, LiveMeansAllRun DEF Contract!AllRun
  <2>3. Contract!AllDelivered
    <3> SUFFICES ASSUME NEW c \in Checks, output[c] # NotRun, NEW k \in DOMAIN output[c]
                 PROVE  Contract!Delivered(c, k)
      BY <1>a DEF Contract!AllDelivered
    <3>1. k \in 1..Len(output[c])
      BY DEF IInv, TypeOK
    <3>2. WasSent(c, k)
      BY <2>1, <3>1 DEF WasSent
    <3> QED BY <3>1, <3>2 DEF Contract!Delivered, IInv, ReportInv, AllSent
  <2>4. err = "running"
    BY <1>4 DEF Return, IInv, ShutdownInv
  <2>5. Contract!Return
    BY <1>4, <2>2, <2>3, <2>4 DEF Return, Contract!Return
  <2> QED BY <2>5 DEF Contract!Next
<1>5. ASSUME UNCHANGED <<ctx, output, report, err>> PROVE UNCHANGED Contract!cvars
  BY <1>5 DEF Contract!cvars
<1> QED
  BY <1>1, <1>2, <1>3, <1>4, <1>5
     DEF Next, WorkerStep, vars, FeederReturns, Feed, Panic, NextJob, WorkerDone,
         CloseFindings, CollectorDone, Finished

(* The worker pool implements the contract its callers rely on, for every  *)
(* list of checks and every number of workers.                             *)
THEOREM Refinement == Spec => RefinesContract
<1>1. Init => Contract!Init
  BY DEF Init, Contract!Init, Checks, Contract!Checks
<1>2. IInv /\ [Next]_vars => [Contract!Next]_(Contract!cvars)
  BY ContractStep
<1> QED BY <1>1, <1>2, Inductive, PTL DEF Spec, RefinesContract, Contract!Spec
=============================================================================
