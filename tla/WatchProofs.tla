---------------------------- MODULE WatchProofs -----------------------------
(***************************************************************************)
(* Proofs about Watch, for any number of runs, any finding keys and both   *)
(* settings of FirstTickNew.                                               *)
(***************************************************************************)
EXTENDS Watch, TLAPS

(* The initial state of the model satisfies the invariant. *)
LEMMA InitInv == Init => IInv
<1> SUFFICES ASSUME Init PROVE IInv
  OBVIOUS
<1> USE BoundAssumption DEF Init, Runs
<1>1. TypeOK
  <2>1. keys \in [Runs -> SUBSET FindingKeys] /\ newKeys \in SUBSET FindingKeys
        /\ prev \in SUBSET FindingKeys
    OBVIOUS
  <2>2. run \in [Runs -> {"unstarted", "running", "report", "failed", "handled"}]
    OBVIOUS
  <2>3. applied \in Seq(Runs) /\ started \in Runs
    OBVIOUS
  <2>4. prog \in {"running", "exited"} /\ timer \in Nat /\ runs \in Nat /\ rep \in 0..MaxRuns
    OBVIOUS
  <2>5. paused \in BOOLEAN /\ quitting \in BOOLEAN /\ err \in BOOLEAN /\ seenAny \in BOOLEAN
    BY Zenon
  <2> QED
    BY <2>1, <2>2, <2>3, <2>4, <2>5, Zenon DEF TypeOK
<1>2. OneTickPending /\ StartedInv
  BY DEF OneTickPending, StartedInv
<1>3. Len(applied) = 0
  OBVIOUS
<1>4. TrackerInv /\ NewSinceLastDisplayed
  BY <1>3 DEF TrackerInv, NewSinceLastDisplayed
<1> QED
  BY <1>1, <1>2, <1>4 DEF IInv

(* The command of one more run stays within the runs there are. *)
LEMMA RunOnceStep ==
  ASSUME TypeOK, RunOnce
  PROVE  /\ started' \in Runs
         /\ run' \in [Runs -> {"unstarted", "running", "report", "failed", "handled"}]
  BY BoundAssumption DEF TypeOK, RunOnce, Runs

(* Every handler keeps the types. *)
LEMMA TypeStep == IInv /\ [Next]_vars => TypeOK'
<1> SUFFICES ASSUME IInv, [Next]_vars PROVE TypeOK'
  OBVIOUS
<1> USE BoundAssumption DEF IInv, TypeOK, Runs
<1>1. CASE Tick
  BY <1>1, RunOnceStep DEF Tick, model
<1>2. CASE TickPaused
  BY <1>2 DEF TickPaused, model
<1>3. CASE KeyRefresh
  BY <1>3, RunOnceStep DEF KeyRefresh, model
<1>4. CASE KeyPause
  BY <1>4 DEF KeyPause
<1>5. CASE KeyQuit
  BY <1>5 DEF KeyQuit
<1>6. CASE ProgramExits
  BY <1>6 DEF ProgramExits, model
<1>7. ASSUME NEW r \in Runs, RunReturns(r) PROVE TypeOK'
  BY <1>7 DEF RunReturns, model
<1>8. ASSUME NEW r \in Runs, ReportMsg(r) PROVE TypeOK'
  <2>1. newKeys' \in SUBSET FindingKeys /\ prev' \in SUBSET FindingKeys /\ seenAny' \in BOOLEAN
    BY <1>8 DEF ReportMsg, Diff
  <2>2. applied' \in Seq(Runs) /\ runs' \in Nat /\ rep' \in 0..MaxRuns
    BY <1>8 DEF ReportMsg
  <2> QED
    BY <1>8, <2>1, <2>2 DEF ReportMsg
<1>9. ASSUME NEW r \in Runs, ErrMsg(r) PROVE TypeOK'
  BY <1>9 DEF ErrMsg
<1>10. CASE Exited \/ UNCHANGED vars
  BY <1>10 DEF Exited, vars
<1> QED
  BY <1>1, <1>2, <1>3, <1>4, <1>5, <1>6, <1>7, <1>8, <1>9, <1>10 DEF Next

(* Every handler of a tick arms exactly the timer it was woken by, and no  *)
(* other handler arms one.                                                 *)
LEMMA TickStep == IInv /\ [Next]_vars => OneTickPending'
  BY DEF IInv, TypeOK, OneTickPending, Next, vars, Tick, TickPaused, KeyRefresh, KeyPause,
         KeyQuit, ProgramExits, RunReturns, ReportMsg, ErrMsg, Exited, model

(* A run leaves "unstarted" only by being started, next in order. *)
LEMMA StartedStep == IInv /\ [Next]_vars => StartedInv'
  BY BoundAssumption
  DEF IInv, TypeOK, StartedInv, Runs, Next, vars, Tick, TickPaused, KeyRefresh, RunOnce,
      KeyPause, KeyQuit, ProgramExits, RunReturns, ReportMsg, ErrMsg, Exited, model

(* Only the answers to a run change what the tracker knows. A run being    *)
(* started or ending was not answered before, so that the reports already  *)
(* displayed stay what they were.                                          *)
LEMMA TrackerStep ==
  IInv /\ [Next]_vars => TrackerInv' /\ NewSinceLastDisplayed'
<1> SUFFICES ASSUME IInv, [Next]_vars
             PROVE  TrackerInv' /\ NewSinceLastDisplayed'
  OBVIOUS
<1> USE BoundAssumption, TrackerAssumption
    DEF IInv, TypeOK, StartedInv, TrackerInv, NewSinceLastDisplayed, Runs
<1>1. CASE Tick
  BY <1>1 DEF Tick, RunOnce, model
<1>2. CASE TickPaused
  BY <1>2 DEF TickPaused, model
<1>3. CASE KeyRefresh
  BY <1>3 DEF KeyRefresh, RunOnce, model
<1>4. CASE KeyPause
  BY <1>4 DEF KeyPause
<1>5. CASE KeyQuit
  BY <1>5 DEF KeyQuit
<1>6. CASE ProgramExits
  BY <1>6 DEF ProgramExits, model
<1>7. ASSUME NEW r \in Runs, RunReturns(r) PROVE TrackerInv' /\ NewSinceLastDisplayed'
  <2>1. UNCHANGED <<applied, seenAny, prev, runs, err, rep, newKeys>>
    BY <1>7 DEF RunReturns, model
  <2>2. \A i \in 1..Len(applied) : applied[i] \in Runs /\ applied[i] # r
    BY <1>7 DEF RunReturns
  <2>3. \A q \in Runs : q # r => keys'[q] = keys[q] /\ run'[q] = run[q]
    BY <1>7 DEF RunReturns
  <2>4. run'[r] # "handled"
    BY <1>7 DEF RunReturns
  <2>5. \A i \in 1..Len(applied) :
          keys'[applied[i]] = keys[applied[i]] /\ run'[applied[i]] = "handled"
    BY <2>2, <2>3
  <2> QED
    BY <2>1, <2>3, <2>4, <2>5
<1>8. ASSUME NEW r \in Runs, ReportMsg(r) PROVE TrackerInv' /\ NewSinceLastDisplayed'
  <2> DEFINE n == Len(applied)
  <2>1. /\ Len(applied') = n + 1 /\ applied'[n + 1] = r
        /\ \A i \in 1..n : applied'[i] = applied[i] /\ applied[i] \in Runs
    BY <1>8 DEF ReportMsg
  <2>2. keys' = keys /\ rep' = r /\ runs' = runs + 1 /\ prev' = keys[r] /\ seenAny'
    BY <1>8 DEF ReportMsg, Diff
  <2>3. newKeys' = IF ~ seenAny /\ ~ FirstTickNew THEN {} ELSE keys[r] \ prev
    BY <1>8 DEF ReportMsg, Diff
  <2>4. \A i \in 1..(n + 1) : run'[applied'[i]] = "handled"
    BY <1>8, <2>1 DEF ReportMsg
  <2>5. n \in Nat
    OBVIOUS
  <2>6. TrackerInv'
    BY <2>1, <2>2, <2>4, <2>5
  <2>7. NewSinceLastDisplayed'
    <3>1. CASE n = 0
      BY <3>1, <2>1, <2>2, <2>3
    <3>2. CASE n > 0
      BY <3>2, <2>1, <2>2, <2>3, <2>5
    <3> QED
      BY <3>1, <3>2, <2>5
  <2> QED
    BY <2>6, <2>7
<1>9. ASSUME NEW r \in Runs, ErrMsg(r) PROVE TrackerInv' /\ NewSinceLastDisplayed'
  BY <1>9 DEF ErrMsg
<1>10. CASE Exited \/ UNCHANGED vars
  <2>1. UNCHANGED <<run, keys, err, runs, rep, newKeys, prev, seenAny, applied>>
    BY <1>10 DEF Exited, vars
  <2> QED
    BY <2>1
<1> QED
  BY <1>1, <1>2, <1>3, <1>4, <1>5, <1>6, <1>7, <1>8, <1>9, <1>10 DEF Next

(* The invariant of the watch holds however runs overlap. *)
THEOREM Inductive == Spec => []IInv
<1>1. IInv /\ [Next]_vars => IInv'
  BY TypeStep, TickStep, StartedStep, TrackerStep DEF IInv
<1> QED
  BY InitInv, <1>1, PTL DEF Spec

(* The types of the watch's state. *)
THEOREM TypeCorrect == Spec => []TypeOK
<1>1. IInv => TypeOK
  BY DEF IInv
<1> QED
  BY Inductive, <1>1, PTL

(* There is always one timer pending and never two, for any sequence of    *)
(* pauses, refreshes and overlapping runs.                                 *)
THEOREM SingleTimer == Spec => []OneTickPending
<1>1. IInv => OneTickPending
  BY DEF IInv
<1> QED
  BY Inductive, <1>1, PTL

(* What is shown as new is exact with respect to the report displayed      *)
(* before, however many runs failed or were overtaken in between.          *)
THEOREM ExactDiff == Spec => []NewSinceLastDisplayed
<1>1. IInv => NewSinceLastDisplayed
  BY DEF IInv
<1> QED
  BY Inductive, <1>1, PTL
=============================================================================
