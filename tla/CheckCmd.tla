------------------------------ MODULE CheckCmd ------------------------------
(***************************************************************************)
(* internal/cli/check.go, internal/result/baseline.go and main.go: khealth *)
(* check, from the runner's result to the exit code.  Several invocations, *)
(* one after the other or at once, share the files named by their          *)
(* --save-baseline, --baseline and shell redirections of -o json, and any  *)
(* of them may be killed at any moment.                                    *)
(*                                                                         *)
(* What the worker pool may return is RunContract's promise: the findings  *)
(* of every check when the context stayed alive, those of the checks that  *)
(* had run when it was canceled, an error when the deadline passed.        *)
(***************************************************************************)
EXTENDS CheckCmdOps

CONSTANTS
  Procs,      \* the invocations
  FlagSets,   \* the command lines they may be given
  Paths,      \* files
  NoPath,     \* the empty string: a flag that was not given
  NoName,     \* the empty Resource of a check that could not look
  Readings    \* the sets of findings a run of all the checks may return;
              \* one during which the cluster changed is another of them

Flags == [save : Paths \cup {NoPath}, base : Paths \cup {NoPath},
          out : Paths \cup {NoPath}, onlyUnhealthy : BOOLEAN, strict : BOOLEAN]

ASSUME FlagsAssumption == FlagSets \subseteq Flags /\ NoPath \notin Paths
ASSUME NamesAssumption == NoName \in Names
ASSUME ReadingsAssumption ==
  \A r \in Readings : \A f \in r : f \in FindingSet /\ f.resource.tags = 0

VARIABLES
  world,   \* what the cluster shows at the moment
  file,    \* the content of each file
  flags,   \* each invocation's flags
  pc,      \* each invocation's next step
  rep,     \* its report, as it goes through the command
  exit,    \* its exit code, NoExit while it runs or when it was killed
  \* What happened, kept to state the properties:
  ran,     \* the findings its checks returned
  base     \* the file content it compared with

vars == <<world, file, flags, pc, rep, exit, ran, base>>

NoExit == -1

(* A file is absent, truncated and not yet written, garbage left by two    *)
(* writers, or the JSON of a report: one saved with --save-baseline or the *)
(* output of -o json, by an invocation.                                    *)
Content == [kind : {"saved", "json"}, by : Procs, findings : SUBSET FindingSet]
Unreadable == {[kind |-> "absent"], [kind |-> "empty"], [kind |-> "garbage"]}
Absent == [kind |-> "absent"]
Empty == [kind |-> "empty"]
Garbage == [kind |-> "garbage"]
Readable(c) == c.kind \in {"saved", "json"}

PCs == {"start", "run", "save", "write", "compare", "render",
        "ended", "panicked", "killed"}

(* The types of the command's state; an exit code is one of the four of    *)
(* docs/adr/0006 (result.go 71-83, main.go 23-34).                         *)
TypeOK ==
  /\ world \in Readings
  /\ file \in [Paths -> Content \cup Unreadable]
  /\ flags \in [Procs -> Flags]
  /\ pc \in [Procs -> PCs]
  /\ rep \in [Procs -> SUBSET FindingSet]
  /\ exit \in [Procs -> {NoExit, 0, 1, 2, 3}]
  /\ ran \in [Procs -> SUBSET FindingSet]
  /\ base \in [Procs -> Content \cup Unreadable]

Init ==
  /\ world \in Readings
  /\ file = [x \in Paths |-> Absent]
  /\ flags \in [Procs -> FlagSets]
  /\ pc = [p \in Procs |-> "start"]
  /\ rep = [p \in Procs |-> {}]
  /\ exit = [p \in Procs |-> NoExit]
  /\ ran = [p \in Procs |-> {}]
  /\ base = [p \in Procs |-> Absent]
-----------------------------------------------------------------------------
(* Where RunE goes on: the save and the comparison only with their flags.  *)
AfterRun(p) == IF flags[p].save # NoPath THEN "save"
               ELSE IF flags[p].base # NoPath THEN "compare" ELSE "render"
AfterSave(p) == IF flags[p].base # NoPath THEN "compare" ELSE "render"

(* The process ends with an exit code: main maps every error that is not   *)
(* an ExitCoder to 3.                                                      *)
End(p, code) ==
  /\ pc' = [pc EXCEPT ![p] = "ended"]
  /\ exit' = [exit EXCEPT ![p] = code]

(* Text written at the start of a file opened earlier.  Over what another   *)
(* process wrote in the meantime, a shorter text leaves the other's tail   *)
(* behind it, which is no JSON.                                            *)
WriteTo(x, c) ==
  file' \in {[file EXCEPT ![x] = c]} \cup
            (IF file[x] = Empty THEN {} ELSE {[file EXCEPT ![x] = Garbage]})
-----------------------------------------------------------------------------
(* The cluster changes between and during invocations. *)
ClusterChanges ==
  /\ world' \in Readings \ {world}
  /\ UNCHANGED <<file, flags, pc, rep, exit, ran, base>>

(* The shell opens, and so truncates, the file stdout is redirected to.    *)
Start(p) ==
  /\ pc[p] = "start"
  /\ pc' = [pc EXCEPT ![p] = "run"]
  /\ file' = [x \in Paths |-> IF x = flags[p].out THEN Empty ELSE file[x]]
  /\ UNCHANGED <<world, flags, rep, exit, ran, base>>

(* What a check makes of a context that was canceled under it. *)
Interrupted(c) ==
  [check |-> c, status |-> "UNKNOWN", resource |-> [name |-> NoName, tags |-> 0]]

(* runChecks: every check ran, or the context was canceled after some of   *)
(* them and during others, in both cases without an error.                 *)
RunChecks(p) ==
  /\ pc[p] = "run"
  /\ \E done \in SUBSET CheckIDs : \E cut \in SUBSET done :
       LET findings == {f \in world : f.check \in done \ cut} \cup
                       {Interrupted(c) : c \in cut}
       IN /\ ran' = [ran EXCEPT ![p] = findings]
          /\ rep' = [rep EXCEPT ![p] = applyOnlyUnhealthy(findings, flags[p].onlyUnhealthy)]
  /\ pc' = [pc EXCEPT ![p] = AfterRun(p)]
  /\ UNCHANGED <<world, file, flags, exit, base>>

(* kube.Build, parseTimeout or ParseDistro fails, or the deadline passes:  *)
(* an error, and the report is dropped.                                    *)
RunFails(p) ==
  /\ pc[p] = "run"
  /\ End(p, 3)
  /\ UNCHANGED <<world, file, flags, rep, ran, base>>

(* A check panics: no recover, so the Go runtime ends the process with 2.  *)
RunPanics(p) ==
  /\ pc[p] = "run"
  /\ pc' = [pc EXCEPT ![p] = "panicked"]
  /\ exit' = [exit EXCEPT ![p] = 2]
  /\ UNCHANGED <<world, file, flags, rep, ran, base>>

(* os.WriteFile opens the baseline with O_TRUNC ...                        *)
SaveOpens(p) ==
  /\ pc[p] = "save"
  /\ file' = [file EXCEPT ![flags[p].save] = Empty]
  /\ pc' = [pc EXCEPT ![p] = "write"]
  /\ UNCHANGED <<world, flags, rep, exit, ran, base>>

(* Mutant: the report is saved before --only-unhealthy is applied. *)
SaveWritesUnfiltered(p) ==
  /\ pc[p] = "write"
  /\ WriteTo(flags[p].save, [kind |-> "saved", by |-> p, findings |-> ran[p]])
  /\ pc' = [pc EXCEPT ![p] = AfterSave(p)]
  /\ UNCHANGED <<world, flags, rep, exit, ran, base>>

(* ... and writes it from its start. *)
SaveWrites(p) ==
  /\ pc[p] = "write"
  /\ WriteTo(flags[p].save, [kind |-> "saved", by |-> p, findings |-> rep[p]])
  /\ pc' = [pc EXCEPT ![p] = AfterSave(p)]
  /\ UNCHANGED <<world, flags, rep, exit, ran, base>>

(* The baseline cannot be opened or written: a tool error. *)
SaveFails(p) ==
  /\ pc[p] \in {"save", "write"}
  /\ End(p, 3)
  /\ UNCHANGED <<world, file, flags, rep, ran, base>>

(* Mutant: an unreadable baseline passes for one without findings. *)
CompareAnything(p) ==
  /\ pc[p] = "compare"
  /\ LET c == file[flags[p].base]
     IN /\ rep' = [rep EXCEPT ![p] = applyBaseline(rep[p], IF Readable(c) THEN c.findings ELSE {})]
        /\ base' = [base EXCEPT ![p] = c]
  /\ pc' = [pc EXCEPT ![p] = "render"]
  /\ UNCHANGED <<world, file, flags, exit, ran>>

(* LoadBaseline and applyBaseline. *)
CompareBaseline(p) ==
  /\ pc[p] = "compare"
  /\ LET c == file[flags[p].base]
     IN /\ Readable(c)
        /\ rep' = [rep EXCEPT ![p] = applyBaseline(rep[p], c.findings)]
        /\ base' = [base EXCEPT ![p] = c]
  /\ pc' = [pc EXCEPT ![p] = "render"]
  /\ UNCHANGED <<world, file, flags, exit, ran>>

(* No such file, or one that is not JSON: a tool error, nothing rendered.  *)
CompareFails(p) ==
  /\ pc[p] = "compare"
  /\ ~ Readable(file[flags[p].base])
  /\ End(p, 3)
  /\ UNCHANGED <<world, file, flags, rep, ran, base>>

(* writeReport, then checkExit. *)
Render(p) ==
  /\ pc[p] = "render"
  /\ IF flags[p].out = NoPath THEN UNCHANGED file
     ELSE WriteTo(flags[p].out, [kind |-> "json", by |-> p, findings |-> rep[p]])
  /\ End(p, ExitCode(rep[p], flags[p].strict))
  /\ UNCHANGED <<world, flags, rep, ran, base>>

(* An unknown format (only now noticed) or a failing write: a tool error.  *)
RenderFails(p) ==
  /\ pc[p] = "render"
  /\ End(p, 3)
  /\ UNCHANGED <<world, file, flags, rep, ran, base>>

(* SIGKILL, out of memory, power: the files stay as they are. *)
Kill(p) ==
  /\ pc[p] \notin {"start", "ended", "panicked", "killed"}
  /\ pc' = [pc EXCEPT ![p] = "killed"]
  /\ UNCHANGED <<world, file, flags, rep, exit, ran, base>>

Step(p) ==
  \/ Start(p) \/ RunChecks(p) \/ RunFails(p) \/ RunPanics(p)
  \/ SaveOpens(p) \/ SaveWrites(p) \/ SaveFails(p)
  \/ CompareBaseline(p) \/ CompareFails(p)
  \/ Render(p) \/ RenderFails(p) \/ Kill(p)

Next == ClusterChanges \/ \E p \in Procs : Step(p)

Spec == Init /\ [][Next]_vars
-----------------------------------------------------------------------------
Rendered(p) == pc[p] = "ended" /\ exit[p] # 3

(* What p reports of what its checks returned, before any comparison.      *)
Reported(p) == applyOnlyUnhealthy(ran[p], flags[p].onlyUnhealthy)

(* What a check returns is not yet tagged. *)
RanInv == \A p \in Procs : \A f \in ran[p] : f.resource.tags = 0

(* The report on its way through the command: as the checks left it until  *)
(* the comparison, then compared with what was read.                       *)
RepInv ==
  \A p \in Procs :
    /\ pc[p] \in {"save", "write"} => flags[p].save # NoPath
    /\ pc[p] = "compare" => flags[p].base # NoPath
    /\ pc[p] \in {"save", "write", "compare"} => rep[p] = Reported(p)
    /\ pc[p] = "render" \/ Rendered(p) =>
         IF flags[p].base = NoPath THEN rep[p] = Reported(p)
         ELSE Readable(base[p]) /\ rep[p] = applyBaseline(Reported(p), base[p].findings)
    /\ Rendered(p) => exit[p] = ExitCode(rep[p], flags[p].strict)

(* A saved baseline is the whole report of the invocation that wrote it,   *)
(* whose checks have returned for good.                                    *)
WholeReport(c) ==
  c.kind = "saved" =>
    pc[c.by] \notin {"start", "run"} /\ c.findings = Reported(c.by)

FileInv ==
  /\ \A x \in Paths : WholeReport(file[x])
  /\ \A p \in Procs : WholeReport(base[p])

(* The inductive invariant of the command: types, the report on its way    *)
(* through RunE, and what a file or a comparison may hold (check.go 36-62).*)
IInv == TypeOK /\ RanInv /\ RepInv /\ FileInv
-----------------------------------------------------------------------------
(* The exit code of an invocation that rendered its report is the one the  *)
(* findings of its checks call for: neither --only-unhealthy nor the tags  *)
(* of --baseline ever turn a failing cluster into a passing one or back    *)
(* (check.go 59, 108, 152-189; result.go 71-83).                           *)
ExitReflectsFindings ==
  \A p \in Procs : Rendered(p) => exit[p] = ExitCode(ran[p], flags[p].strict)

(* Every comparison with a readable file of this kind marks the findings   *)
(* that the run which wrote the file had reported, and no others.          *)
MarksAgainst(kind) ==
  \A p \in Procs : Rendered(p) /\ flags[p].base # NoPath =>
    /\ Readable(base[p])
    /\ base[p].kind = kind =>
         \A f \in Reported(p) :
           IF Key(f) \in Keys(Reported(base[p].by))
           THEN Tagged(f) \in rep[p] /\ f \notin rep[p]
           ELSE f \in rep[p] /\ Tagged(f) \notin rep[p]

(* However invocations interleave on shared files, fail or are killed half *)
(* way through writing one, an invocation that renders its report after a  *)
(* comparison with a file that --save-baseline wrote has marked as seen    *)
(* before exactly the findings some one earlier run reported: never those  *)
(* of a half-written file, and none is missed for having been marked in    *)
(* that run (check.go 45-54, baseline.go 29-36, 49, 62-89).                *)
SavedBaselineMarksSeenBefore == MarksAgainst("saved")
=============================================================================
