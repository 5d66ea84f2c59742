------------------------------- MODULE Watch --------------------------------
(***************************************************************************)
(* internal/watch: the khealth watch TUI.  The event loop of the bubbletea *)
(* library handles one message at a time through Model.Update; every       *)
(* command Update returns (a run of the checks, a timer) works in a        *)
(* goroutine of its own and sends its message when it is done, so runs     *)
(* overlap and their reports may arrive in any order.                      *)
(***************************************************************************)
EXTENDS Integers, Sequences

CONSTANTS
  FindingKeys,   \* FindingKey values (status, check and resource)
  FirstTickNew,  \* Tracker.FirstTickNew; NewModel leaves it false
  MaxRuns        \* bound on the runs started in a behaviour

ASSUME BoundAssumption == MaxRuns \in Nat \ {0}
ASSUME TrackerAssumption == FirstTickNew \in BOOLEAN

Runs == 1..MaxRuns

VARIABLES
  prog,      \* the event loop: "running" or "exited"
  timer,     \* ticks armed and not yet handled
  started,   \* runs started so far; they are numbered in that order
  run,       \* each run: "unstarted", "running", "report" or "failed" when
             \* its message waits to be handled, "handled"
  keys,      \* the finding keys of each run's report
  \* Model and Tracker:
  paused, quitting, err, runs,
  rep,       \* the run whose report is displayed, 0 before the first
  newKeys,
  prev, seenAny,
  applied    \* the runs whose reports were displayed, in that order

model == <<paused, quitting, err, runs, rep, newKeys, prev, seenAny, applied>>
vars == <<prog, timer, started, run, keys, paused, quitting, err, runs, rep,
          newKeys, prev, seenAny, applied>>

(* The types of the model's state; the timers pending are never negative.  *)
TypeOK ==
  /\ prog \in {"running", "exited"}
  /\ timer \in Nat
  /\ started \in Runs
  /\ run \in [Runs -> {"unstarted", "running", "report", "failed", "handled"}]
  /\ keys \in [Runs -> SUBSET FindingKeys]
  /\ paused \in BOOLEAN /\ quitting \in BOOLEAN /\ err \in BOOLEAN /\ seenAny \in BOOLEAN
  /\ runs \in Nat
  /\ rep \in 0..MaxRuns
  /\ newKeys \in SUBSET FindingKeys
  /\ prev \in SUBSET FindingKeys
  /\ applied \in Seq(Runs)

(* NewModel, then Init's batch: a first run and the first timer. *)
Init ==
  /\ prog = "running"
  /\ timer = 1
  /\ started = 1
  /\ run = [r \in Runs |-> IF r = 1 THEN "running" ELSE "unstarted"]
  /\ keys = [r \in Runs |-> {}]
  /\ paused = FALSE /\ quitting = FALSE /\ err = FALSE
  /\ runs = 0 /\ rep = 0
  /\ newKeys = {} /\ prev = {} /\ seenAny = FALSE
  /\ applied = <<>>
-----------------------------------------------------------------------------
(* runOnce: the command of one more run. *)
RunOnce ==
  /\ started < MaxRuns
  /\ started' = started + 1
  /\ run' = [run EXCEPT ![started + 1] = "running"]

(* tickMsg while not paused: a run and the next timer. *)
Tick ==
  /\ prog = "running"
  /\ timer > 0
  /\ ~ paused
  /\ RunOnce
  /\ timer' = (timer - 1) + 1
  /\ UNCHANGED <<prog, keys, model>>

(* Mutant: a paused watch lets its timer go. *)
TickPausedDropped ==
  /\ prog = "running"
  /\ timer > 0
  /\ paused
  /\ timer' = timer - 1
  /\ UNCHANGED <<prog, started, run, keys, model>>

(* tickMsg while paused: only the next timer. *)
TickPaused ==
  /\ prog = "running"
  /\ timer > 0
  /\ paused
  /\ timer' = (timer - 1) + 1
  /\ UNCHANGED <<prog, started, run, keys, model>>

(* Mutant: a refresh also arms a timer. *)
KeyRefreshTicks ==
  /\ prog = "running"
  /\ RunOnce
  /\ timer' = timer + 1
  /\ UNCHANGED <<prog, keys, model>>

(* Key "r": a run at once, paused or not. *)
KeyRefresh ==
  /\ prog = "running"
  /\ RunOnce
  /\ UNCHANGED <<prog, timer, keys, model>>

(* Key "p". *)
KeyPause ==
  /\ prog = "running"
  /\ paused' = ~ paused
  /\ UNCHANGED <<prog, timer, started, run, keys, quitting, err, runs, rep, newKeys,
                 prev, seenAny, applied>>

(* Keys "q", "ctrl+c" and "esc".  tea.Quit is a command like any other:    *)
(* messages that come before its own are still handled.                    *)
KeyQuit ==
  /\ prog = "running"
  /\ ~ quitting
  /\ quitting' = TRUE
  /\ UNCHANGED <<prog, timer, started, run, keys, paused, err, runs, rep, newKeys,
                 prev, seenAny, applied>>

(* The quit message arrives, or the context given to watch.Run is canceled.*)
ProgramExits ==
  /\ prog = "running"
  /\ prog' = "exited"
  /\ UNCHANGED <<timer, started, run, keys, model>>

(* A run ends, within its 90 seconds, with a report or an error. *)
RunReturns(r) ==
  /\ run[r] = "running"
  /\ \/ /\ run' = [run EXCEPT ![r] = "report"]
        /\ \E K \in SUBSET FindingKeys : keys' = [keys EXCEPT ![r] = K]
     \/ /\ run' = [run EXCEPT ![r] = "failed"]
        /\ UNCHANGED keys
  /\ UNCHANGED <<prog, timer, started, model>>

(* Mutant: the tracker never forgets a key. *)
DiffForever(K) ==
  /\ newKeys' = IF ~ seenAny /\ ~ FirstTickNew THEN {} ELSE K \ prev
  /\ prev' = prev \cup K
  /\ seenAny' = TRUE

(* Tracker.Diff: the keys that are new, then what the next call compares   *)
(* with.                                                                   *)
Diff(K) ==
  /\ newKeys' = IF ~ seenAny /\ ~ FirstTickNew THEN {} ELSE K \ prev
  /\ prev' = K
  /\ seenAny' = TRUE

(* Mutant: a paused watch ignores reports. *)
ReportMsgUnpaused(r) ==
  /\ prog = "running"
  /\ ~ paused
  /\ run[r] = "report"
  /\ run' = [run EXCEPT ![r] = "handled"]
  /\ rep' = r
  /\ runs' = runs + 1
  /\ Diff(keys[r])
  /\ err' = FALSE
  /\ applied' = Append(applied, r)
  /\ UNCHANGED <<prog, timer, started, keys, paused, quitting>>

(* reportMsg. *)
ReportMsg(r) ==
  /\ prog = "running"
  /\ run[r] = "report"
  /\ run' = [run EXCEPT ![r] = "handled"]
  /\ rep' = r
  /\ runs' = runs + 1
  /\ Diff(keys[r])
  /\ err' = FALSE
  /\ applied' = Append(applied, r)
  /\ UNCHANGED <<prog, timer, started, keys, paused, quitting>>

(* errMsg. *)
ErrMsg(r) ==
  /\ prog = "running"
  /\ run[r] = "failed"
  /\ run' = [run EXCEPT ![r] = "handled"]
  /\ err' = TRUE
  /\ UNCHANGED <<prog, timer, started, keys, paused, quitting, runs, rep, newKeys,
                 prev, seenAny, applied>>

(* The program has ended; runs still in flight end with the process. *)
Exited == prog = "exited" /\ UNCHANGED vars

Next ==
  \/ Tick \/ TickPaused \/ KeyRefresh \/ KeyPause \/ KeyQuit \/ ProgramExits
  \/ \E r \in Runs : RunReturns(r) \/ ReportMsg(r) \/ ErrMsg(r)
  \/ Exited

Spec == Init /\ [][Next]_vars

(* The timer fires, a run ends within its timeout, the event loop handles  *)
(* what it is sent, and a quit is carried out.  Nothing is assumed of the  *)
(* user.                                                                   *)
Fairness ==
  /\ WF_vars(Tick)
  /\ \A r \in Runs : WF_vars(RunReturns(r)) /\ WF_vars(ReportMsg(r) \/ ErrMsg(r))
  /\ WF_vars(quitting /\ ProgramExits)

FairSpec == Spec /\ Fairness
-----------------------------------------------------------------------------
(* What View shows. *)
View ==
  IF quitting THEN "nothing"
  ELSE IF err THEN "error"
  ELSE IF runs = 0 THEN "loading"
  ELSE "findings"

(* There is one chain of timers, whatever keys are pressed and however     *)
(* often the watch is paused and resumed: it neither dies nor forks into   *)
(* two that would double the rate of runs (model.go 61-63, 90-104).        *)
OneTickPending == prog = "running" => timer = 1

(* The findings shown as new are exactly those of the displayed report     *)
(* that the report displayed just before it did not have, and none (or,    *)
(* with FirstTickNew, all) of the first: failed runs, pauses and refreshes *)
(* in between change nothing (model.go 105-116, diff.go 39-55).            *)
NewSinceLastDisplayed ==
  LET n == Len(applied)
  IN /\ rep = (IF n = 0 THEN 0 ELSE applied[n])
     /\ n = 0 => newKeys = {}
     /\ n = 1 => newKeys = (IF FirstTickNew THEN keys[applied[1]] ELSE {})
     /\ n > 1 => newKeys = keys[applied[n]] \ keys[applied[n - 1]]

(* Runs are started in the order of their numbers. *)
StartedInv == \A r \in Runs : run[r] = "unstarted" <=> r > started

(* What the tracker and the model remember of the reports displayed: the   *)
(* tracker compares with the last of them, all of them are final, and a    *)
(* run answered without a report has left an error or a report behind.     *)
TrackerInv ==
  LET n == Len(applied)
  IN /\ seenAny <=> n > 0
     /\ prev = (IF n = 0 THEN {} ELSE keys[applied[n]])
     /\ runs = n
     /\ \A i \in 1..n : run[applied[i]] = "handled"
     /\ err \/ n > 0 \/ \A r \in Runs : run[r] # "handled"

(* The inductive invariant of the watch: types, one timer, the order of    *)
(* runs and what the tracker remembers (model.go 78-119, diff.go 39-55).   *)
IInv == TypeOK /\ OneTickPending /\ StartedInv /\ TrackerInv /\ NewSinceLastDisplayed

(* Every run started, by a tick or by the user, paused or not, is answered *)
(* on the screen, by findings or by an error and never by the loading      *)
(* page, unless the program ends first (model.go 105-116, 129-140).        *)
EveryRunAnswered ==
  \A r \in Runs :
    run[r] = "running" ~>
      \/ run[r] = "handled" /\ View # "loading"
      \/ prog = "exited"

(* The watch never falls silent: as long as it is neither paused nor       *)
(* ended it goes on starting runs (model.go 100-104).                      *)
KeepsTicking ==
  []<>(paused \/ prog = "exited" \/ started = MaxRuns)
=============================================================================
