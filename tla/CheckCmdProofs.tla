--------------------------- MODULE CheckCmdProofs ---------------------------
(***************************************************************************)
(* Proofs about CheckCmd, for any number of invocations, files, command    *)
(* lines, checks and cluster states, and about ReportLoops, for reports    *)
(* and baselines of any length.                                            *)
(***************************************************************************)
EXTENDS CheckCmd, ReportLoops, TLAPS

(* A report whose statuses are those of another has the same worst status  *)
(* as long as they agree on CRIT, WARN and UNKNOWN: OK and SKIP weigh      *)
(* nothing.                                                                *)
Has(S, s) == \E f \in S : f.status = s

(* Worst picks the most severe status that occurs. *)
LEMMA WorstIs ==
  ASSUME NEW S, \A f \in S : f.status \in Status
  PROVE  Worst(S) = IF Has(S, "CRIT") THEN "CRIT"
                    ELSE IF Has(S, "WARN") THEN "WARN"
                    ELSE IF Has(S, "UNKNOWN") THEN "UNKNOWN" ELSE "OK"
<1> DEFINE Fits(s) == /\ \A f \in S : rank(f.status) <= rank(s)
                      /\ s = "OK" \/ \E f \in S : f.status = s
           w == IF Has(S, "CRIT") THEN "CRIT"
                ELSE IF Has(S, "WARN") THEN "WARN"
                ELSE IF Has(S, "UNKNOWN") THEN "UNKNOWN" ELSE "OK"
<1>1. w \in Status \ {"SKIP"} /\ Fits(w)
  BY DEF Has, Status, rank
<1>2. ASSUME NEW s \in Status \ {"SKIP"}, Fits(s) PROVE s = w
  BY <1>2 DEF Has, Status, rank
<1>3. Worst(S) \in Status \ {"SKIP"} /\ Fits(Worst(S))
  BY <1>1 DEF Worst
<1> QED
  BY <1>2, <1>3

(* Dropping the OK and SKIP findings changes no exit code. *)
LEMMA OnlyUnhealthyExit ==
  ASSUME NEW S, \A f \in S : f.status \in Status,
         NEW filter \in BOOLEAN, NEW strict \in BOOLEAN
  PROVE  ExitCode(applyOnlyUnhealthy(S, filter), strict) = ExitCode(S, strict)
<1> DEFINE T == applyOnlyUnhealthy(S, filter)
<1>1. \A s \in {"CRIT", "WARN", "UNKNOWN"} : Has(T, s) <=> Has(S, s)
  BY DEF applyOnlyUnhealthy, Has
<1>2. \A f \in T : f.status \in Status
  BY DEF applyOnlyUnhealthy
<1>3. Worst(T) = Worst(S)
  BY <1>1, <1>2, WorstIs
<1> QED
  BY <1>3 DEF ExitCode

(* A finding of the report is marked exactly when the saved report has its *)
(* key.                                                                    *)
LEMMA BaselineElements ==
  ASSUME NEW S, NEW B
  PROVE  applyBaseline(S, B) = {IF Key(f) \in Keys(B) THEN Tagged(f) ELSE f : f \in S}
<1> DEFINE persists == Keys(Compare(B, S).Persisting)
<1>1. Compare(B, S).Persisting = {f \in S : Key(f) \in Keys(B)}
  BY DEF Compare
<1>2. \A f \in S : Key(f) \in persists <=> Key(f) \in Keys(B)
  BY <1>1 DEF Keys
<1> QED
  BY <1>2 DEF applyBaseline

(* Marking a finding only adds a tag to its resource. *)
LEMMA TaggedType ==
  ASSUME NEW f \in FindingSet
  PROVE  /\ Tagged(f) \in FindingSet
         /\ Tagged(f).status = f.status /\ Tagged(f).check = f.check
         /\ Tagged(f).resource.name = f.resource.name
         /\ Tagged(f).resource.tags = f.resource.tags + 1
<1>1. Tagged(f) = [f EXCEPT !.resource = [f.resource EXCEPT !.tags = @ + 1]]
  BY DEF Tagged
<1>2. f.resource \in Resource
  BY DEF FindingSet
<1>3. [f.resource EXCEPT !.tags = @ + 1] \in Resource
  BY <1>2 DEF Resource
<1>4. [f.resource EXCEPT !.tags = @ + 1].name = f.resource.name
      /\ [f.resource EXCEPT !.tags = @ + 1].tags = f.resource.tags + 1
  BY <1>2 DEF Resource
<1> HIDE DEF Resource
<1> QED
  BY <1>1, <1>3, <1>4 DEF FindingSet

(* Findings marked alike were alike. *)
LEMMA TaggedInjective ==
  ASSUME NEW f \in FindingSet, NEW g \in FindingSet, Tagged(f) = Tagged(g)
  PROVE  f = g
<1>1. f.status = g.status /\ f.check = g.check
  BY TaggedType
<1>2. f.resource.name = g.resource.name /\ f.resource.tags + 1 = g.resource.tags + 1
  BY TaggedType
<1>3. f.resource = g.resource
  BY <1>2 DEF FindingSet, Resource
<1> QED
  BY <1>1, <1>3 DEF FindingSet

(* Marking findings changes no exit code. *)
LEMMA BaselineExit ==
  ASSUME NEW S \in SUBSET FindingSet, NEW B, NEW strict \in BOOLEAN
  PROVE  /\ applyBaseline(S, B) \in SUBSET FindingSet
         /\ ExitCode(applyBaseline(S, B), strict) = ExitCode(S, strict)
<1> DEFINE T == applyBaseline(S, B)
<1>1. \A f \in S : (IF Key(f) \in Keys(B) THEN Tagged(f) ELSE f) \in FindingSet
                   /\ (IF Key(f) \in Keys(B) THEN Tagged(f) ELSE f).status = f.status
  BY TaggedType
<1>2. T \in SUBSET FindingSet
  BY <1>1, BaselineElements
<1>3. \A s : Has(T, s) <=> Has(S, s)
  BY <1>1, BaselineElements DEF Has
<1>4. \A f \in S \cup T : f.status \in Status
  BY <1>2 DEF FindingSet
<1>5. Worst(T) = Worst(S)
  BY <1>3, <1>4, WorstIs
<1> QED
  BY <1>2, <1>5 DEF ExitCode

(* Filtering keeps findings findings. *)
LEMMA OnlyUnhealthyType ==
  ASSUME NEW S \in SUBSET FindingSet, NEW filter
  PROVE  applyOnlyUnhealthy(S, filter) \in SUBSET FindingSet /\ applyOnlyUnhealthy(S, filter) \subseteq S
  BY DEF applyOnlyUnhealthy

(* A rendered report ends the command with 0, 1 or 2. *)
LEMMA ExitCodeType ==
  ASSUME NEW S, NEW strict \in BOOLEAN
  PROVE  ExitCode(S, strict) \in {0, 1, 2}
  BY DEF ExitCode
-----------------------------------------------------------------------------
(* The invariant holds before anything runs. *)
LEMMA InitInv == Init => IInv
<1> SUFFICES ASSUME Init PROVE IInv
  OBVIOUS
<1>1. TypeOK
  BY FlagsAssumption DEF Init, TypeOK, Absent, Unreadable, PCs
<1>2. RanInv /\ RepInv /\ FileInv
  BY DEF Init, RanInv, RepInv, FileInv, WholeReport, Rendered, Absent
<1> QED
  BY <1>1, <1>2 DEF IInv

(* Whatever is written to a file, it is one text whole, or none. *)
LEMMA WriteToType ==
  ASSUME TypeOK, NEW x \in Paths, NEW c \in Content, WriteTo(x, c)
  PROVE  /\ file' \in [Paths -> Content \cup Unreadable]
         /\ \A y \in Paths : file'[y] \in {file[y], c, Garbage}
  BY DEF TypeOK, WriteTo, Unreadable, Garbage

(* Every step keeps the types. *)
LEMMA TypeStep == IInv /\ [Next]_vars => TypeOK'
<1> SUFFICES ASSUME IInv, [Next]_vars PROVE TypeOK'
  OBVIOUS
<1> USE DEF IInv
<1>1. CASE ClusterChanges
  BY <1>1 DEF TypeOK, ClusterChanges
<1>2. ASSUME NEW p \in Procs, Step(p) PROVE TypeOK'
  <2>1. CASE Start(p)
    BY <2>1 DEF TypeOK, Start, PCs, Unreadable, Empty
  <2>2. CASE RunChecks(p)
    <3>1. PICK done \in SUBSET CheckIDs, cut \in SUBSET CheckIDs :
            LET findings == {f \in world : f.check \in done \ cut} \cup
                            {Interrupted(c) : c \in cut}
            IN /\ ran' = [ran EXCEPT ![p] = findings]
               /\ rep' = [rep EXCEPT ![p] = applyOnlyUnhealthy(findings, flags[p].onlyUnhealthy)]
      BY <2>2 DEF RunChecks
    <3> DEFINE findings == {f \in world : f.check \in done \ cut} \cup
                           {Interrupted(c) : c \in cut}
    <3>2. \A c \in CheckIDs : Interrupted(c) \in FindingSet
      BY NamesAssumption DEF Interrupted, FindingSet, Resource, Status
    <3>3. findings \in SUBSET FindingSet
      BY <3>2, ReadingsAssumption DEF TypeOK
    <3>4. applyOnlyUnhealthy(findings, flags[p].onlyUnhealthy) \in SUBSET FindingSet
      BY <3>3, OnlyUnhealthyType
    <3>5. AfterRun(p) \in PCs
      BY DEF AfterRun, PCs
    <3> HIDE DEF findings
    <3> QED
      BY <2>2, <3>1, <3>3, <3>4, <3>5 DEF TypeOK, RunChecks, findings
  <2>3. CASE RunFails(p) \/ SaveFails(p) \/ CompareFails(p) \/ RenderFails(p)
    BY <2>3 DEF TypeOK, RunFails, SaveFails, CompareFails, RenderFails, End, PCs
  <2>4. CASE RunPanics(p)
    BY <2>4 DEF TypeOK, RunPanics, PCs
  <2>5. CASE SaveOpens(p)
    BY <2>5 DEF TypeOK, SaveOpens, PCs, Unreadable, Empty
  <2>6. CASE SaveWrites(p)
    <3>1. flags[p].save \in Paths
      BY <2>6 DEF TypeOK, Flags, SaveWrites, RepInv
    <3>2. [kind |-> "saved", by |-> p, findings |-> rep[p]] \in Content
      BY DEF TypeOK, Content
    <3>3. AfterSave(p) \in PCs
      BY DEF AfterSave, PCs
    <3> QED
      BY <2>6, <3>1, <3>2, <3>3, WriteToType DEF TypeOK, SaveWrites
  <2>7. CASE CompareBaseline(p)
    <3>1. flags[p].base \in Paths
      BY <2>7 DEF TypeOK, Flags, CompareBaseline, RepInv
    <3>2. applyBaseline(rep[p], file[flags[p].base].findings) \in SUBSET FindingSet
      BY BaselineExit DEF TypeOK
    <3> QED
      BY <2>7, <3>1, <3>2 DEF TypeOK, CompareBaseline, PCs
  <2>8. CASE Render(p)
    <3>1. file' \in [Paths -> Content \cup Unreadable]
      <4>1. flags[p].out \in Paths \cup {NoPath}
        BY DEF TypeOK, Flags
      <4>2. [kind |-> "json", by |-> p, findings |-> rep[p]] \in Content
        BY DEF TypeOK, Content
      <4> QED
        BY <2>8, <4>1, <4>2, WriteToType DEF TypeOK, Render
    <3>2. ExitCode(rep[p], flags[p].strict) \in {0, 1, 2}
      BY ExitCodeType DEF TypeOK, Flags
    <3> QED
      BY <2>8, <3>1, <3>2 DEF TypeOK, Render, End, PCs
  <2>9. CASE Kill(p)
    BY <2>9 DEF TypeOK, Kill, PCs
  <2> QED
    BY <1>2, <2>1, <2>2, <2>3, <2>4, <2>5, <2>6, <2>7, <2>8, <2>9 DEF Step
<1>3. CASE UNCHANGED vars
  BY <1>3 DEF TypeOK, vars
<1> QED
  BY <1>1, <1>2, <1>3 DEF Next

(* An invocation's state is as it was. *)
Untouched(q) ==
  /\ pc'[q] = pc[q] /\ rep'[q] = rep[q] /\ exit'[q] = exit[q]
  /\ ran'[q] = ran[q] /\ base'[q] = base[q]

(* The step of one invocation leaves the others' state alone, and only     *)
(* runChecks sets what its checks returned.                                *)
LEMMA OthersUntouched ==
  ASSUME TypeOK, NEW p \in Procs, Step(p)
  PROVE  /\ flags' = flags
         /\ \A q \in Procs \ {p} : Untouched(q)
         /\ pc[p] # "run" => ran'[p] = ran[p]
         /\ pc'[p] # "start" /\ (pc'[p] = "run" => pc[p] = "start")
  BY DEF TypeOK, Untouched, Step, Start, RunChecks, RunFails, RunPanics, SaveOpens, SaveWrites,
         SaveFails, CompareBaseline, CompareFails, Render, RenderFails, Kill, End,
         AfterRun, AfterSave

(* What an invocation reported is settled once its checks have returned.   *)
LEMMA Settled ==
  ASSUME IInv, [Next]_vars, NEW q \in Procs, pc[q] \notin {"start", "run"}
  PROVE  pc'[q] \notin {"start", "run"} /\ Reported(q)' = Reported(q)
<1>1. CASE ClusterChanges \/ UNCHANGED vars
  BY <1>1 DEF ClusterChanges, vars, Reported
<1>2. ASSUME NEW p \in Procs, Step(p)
      PROVE  pc'[q] \notin {"start", "run"} /\ Reported(q)' = Reported(q)
  <2>1. CASE p = q
    BY <1>2, <2>1, OthersUntouched DEF IInv, Reported
  <2>2. CASE p # q
    BY <1>2, <2>2, OthersUntouched DEF IInv, Untouched, Reported
  <2> QED
    BY <2>1, <2>2
<1> QED
  BY <1>1, <1>2 DEF Next

(* No step marks what a check returned. *)
LEMMA RanStep == IInv /\ [Next]_vars => RanInv'
<1> SUFFICES ASSUME IInv, [Next]_vars PROVE RanInv'
  OBVIOUS
<1>1. CASE ClusterChanges \/ UNCHANGED vars
  BY <1>1 DEF IInv, RanInv, ClusterChanges, vars
<1>2. ASSUME NEW p \in Procs, Step(p) PROVE RanInv'
  <2>1. CASE RunChecks(p)
    <3>1. \A f \in world : f.resource.tags = 0
      BY ReadingsAssumption DEF IInv, TypeOK
    <3>2. \A c : Interrupted(c).resource.tags = 0
      BY DEF Interrupted
    <3>3. \A f \in ran'[p] : f.resource.tags = 0
      BY <2>1, <3>1, <3>2 DEF RunChecks, IInv, TypeOK
    <3> QED
      BY <1>2, <3>3, OthersUntouched DEF IInv, RanInv, Untouched
  <2>2. CASE ~ RunChecks(p)
    <3>1. ran' = ran
      BY <1>2, <2>2 DEF Step, Start, RunFails, RunPanics, SaveOpens, SaveWrites, SaveFails,
         CompareBaseline, CompareFails, Render, RenderFails, Kill
    <3> QED
      BY <3>1 DEF IInv, RanInv
  <2> QED
    BY <2>1, <2>2
<1> QED
  BY <1>1, <1>2 DEF Next

(* The invariant about one invocation's report. *)
RepAt(p) ==
  /\ pc[p] \in {"save", "write"} => flags[p].save # NoPath
  /\ pc[p] = "compare" => flags[p].base # NoPath
  /\ pc[p] \in {"save", "write", "compare"} => rep[p] = Reported(p)
  /\ pc[p] = "render" \/ Rendered(p) =>
       IF flags[p].base = NoPath THEN rep[p] = Reported(p)
       ELSE Readable(base[p]) /\ rep[p] = applyBaseline(Reported(p), base[p].findings)
  /\ Rendered(p) => exit[p] = ExitCode(rep[p], flags[p].strict)

(* RepInv is preserved: by each step of the invocation itself, in the      *)
(* order of the command, and by those of the others.                       *)
LEMMA RepStep == IInv /\ [Next]_vars => RepInv'
<1> SUFFICES ASSUME IInv, [Next]_vars PROVE RepInv'
  OBVIOUS
<1>0. \A q \in Procs : RepAt(q)
  BY DEF IInv, RepInv, RepAt
<1>1. CASE ClusterChanges \/ UNCHANGED vars
  <2>1. UNCHANGED <<flags, pc, rep, exit, ran, base>>
    BY <1>1 DEF ClusterChanges, vars
  <2> QED
    BY <2>1 DEF IInv, RepInv, Rendered, Reported
<1>2. ASSUME NEW p \in Procs, Step(p) PROVE RepInv'
  <2>1. \A q \in Procs \ {p} : RepAt(q)'
    BY <1>0, <1>2, OthersUntouched DEF IInv, RepAt, Untouched, Rendered, Reported
  <2> USE DEF IInv, TypeOK, RepAt, Rendered, Reported
  <2>2. CASE Start(p) \/ RunPanics(p) \/ Kill(p)
    BY <1>0, <2>1, <2>2 DEF RepInv, Start, RunPanics, Kill
  <2>3. CASE RunChecks(p)
    <3>1. rep'[p] = applyOnlyUnhealthy(ran'[p], flags[p].onlyUnhealthy)
      BY <2>3 DEF RunChecks
    <3>2. pc'[p] = AfterRun(p) /\ flags' = flags
      BY <2>3 DEF RunChecks
    <3>3. RepAt(p)'
      BY <3>1, <3>2 DEF AfterRun
    <3> QED
      BY <2>1, <3>3 DEF RepInv
  <2>4. CASE RunFails(p) \/ SaveFails(p) \/ CompareFails(p) \/ RenderFails(p)
    <3>1. pc'[p] = "ended" /\ exit'[p] = 3
      BY <2>4 DEF RunFails, SaveFails, CompareFails, RenderFails, End
    <3>2. RepAt(p)'
      BY <3>1
    <3> QED
      BY <2>1, <3>2 DEF RepInv
  <2>5. CASE SaveOpens(p)
    BY <1>0, <2>1, <2>5 DEF RepInv, SaveOpens
  <2>6. CASE SaveWrites(p)
    <3>1. /\ pc'[p] = AfterSave(p) /\ pc[p] = "write"
          /\ UNCHANGED <<flags, rep, ran, base>>
      BY <2>6 DEF SaveWrites
    <3>2. RepAt(p)'
      BY <1>0, <3>1 DEF AfterSave
    <3> QED
      BY <2>1, <3>2 DEF RepInv
  <2>7. CASE CompareBaseline(p)
    <3>1. /\ pc'[p] = "render" /\ pc[p] = "compare"
          /\ Readable(base'[p])
          /\ rep'[p] = applyBaseline(rep[p], base'[p].findings)
          /\ UNCHANGED <<flags, ran>>
      BY <2>7 DEF CompareBaseline
    <3>2. RepAt(p)'
      BY <1>0, <3>1 DEF Readable
    <3> QED
      BY <2>1, <3>2 DEF RepInv
  <2>8. CASE Render(p)
    <3>1. /\ pc'[p] = "ended" /\ pc[p] = "render"
          /\ exit'[p] = ExitCode(rep[p], flags[p].strict)
          /\ UNCHANGED <<flags, rep, ran, base>>
      BY <2>8 DEF Render, End
    <3>2. RepAt(p)'
      BY <1>0, <3>1 DEF Readable
    <3> QED
      BY <2>1, <3>2 DEF RepInv
  <2> QED
    BY <1>2, <2>2, <2>3, <2>4, <2>5, <2>6, <2>7, <2>8 DEF Step
<1> QED
  BY <1>1, <1>2 DEF Next

(* Whatever is in a file after a step was there before, or is no baseline, *)
(* or is the whole report of the invocation that made the step; and what   *)
(* an invocation compared with came from a file.                           *)
LEMMA FileStep == IInv /\ [Next]_vars => FileInv'
<1> SUFFICES ASSUME IInv, [Next]_vars PROVE FileInv'
  OBVIOUS
<1>0. ASSUME NEW c \in Content \cup Unreadable, WholeReport(c)
      PROVE  c.kind = "saved" =>
               pc'[c.by] \notin {"start", "run"} /\ c.findings = Reported(c.by)'
  <2> HAVE c.kind = "saved"
  <2>1. c \in Content
    BY <1>0 DEF Unreadable
  <2>2. c.by \in Procs /\ pc[c.by] \notin {"start", "run"} /\ c.findings = Reported(c.by)
    BY <1>0, <2>1 DEF Content, WholeReport
  <2> QED
    BY <2>2, Settled
<1>1. /\ \A x \in Paths : file[x] \in Content \cup Unreadable /\ WholeReport(file[x])
      /\ \A p \in Procs : base[p] \in Content \cup Unreadable /\ WholeReport(base[p])
  BY DEF IInv, TypeOK, FileInv
<1>2. CASE UNCHANGED <<file, base>>
  BY <1>0, <1>1, <1>2 DEF FileInv, WholeReport
<1>3. ASSUME NEW p \in Procs, Start(p) \/ SaveOpens(p) PROVE FileInv'
  <2>1. base' = base /\ \A x \in Paths : file'[x] \in {file[x], Empty}
    BY <1>3 DEF Start, SaveOpens, IInv, TypeOK
  <2> QED
    BY <1>0, <1>1, <2>1 DEF FileInv, WholeReport, Empty
<1>4. ASSUME NEW p \in Procs, SaveWrites(p) PROVE FileInv'
  <2> DEFINE c == [kind |-> "saved", by |-> p, findings |-> rep[p]]
  <2>1. base' = base /\ \A x \in Paths : file'[x] \in {file[x], c, Garbage}
    <3>1. flags[p].save \in Paths
      BY <1>4 DEF IInv, TypeOK, Flags, SaveWrites, RepInv
    <3>2. c \in Content
      BY DEF IInv, TypeOK, Content
    <3> QED
      BY <1>4, <3>1, <3>2, WriteToType DEF IInv, SaveWrites
  <2>2. WholeReport(c) /\ c \in Content
    BY <1>4 DEF WholeReport, SaveWrites, IInv, RepInv, TypeOK, Content
  <2> HIDE DEF c
  <2> QED
    BY <1>0, <1>1, <2>1, <2>2 DEF FileInv, WholeReport, Garbage
<1>5. ASSUME NEW p \in Procs, Render(p) PROVE FileInv'
  <2> DEFINE c == [kind |-> "json", by |-> p, findings |-> rep[p]]
  <2>1. base' = base /\ \A x \in Paths : file'[x] \in {file[x], c, Garbage}
    <3>1. flags[p].out \in Paths \cup {NoPath}
      BY DEF IInv, TypeOK, Flags
    <3>2. c \in Content
      BY DEF IInv, TypeOK, Content
    <3> QED
      BY <1>5, <3>1, <3>2, WriteToType DEF IInv, Render
  <2> QED
    BY <1>0, <1>1, <2>1 DEF FileInv, WholeReport, Garbage
<1>6. ASSUME NEW p \in Procs, CompareBaseline(p) PROVE FileInv'
  <2>1. file' = file /\ \A q \in Procs : base'[q] \in {base[q], file[flags[p].base]}
    BY <1>6 DEF CompareBaseline, IInv, TypeOK
  <2>2. flags[p].base \in Paths
    BY <1>6 DEF IInv, TypeOK, Flags, CompareBaseline, RepInv
  <2> QED
    BY <1>0, <1>1, <2>1, <2>2 DEF FileInv, WholeReport
<1> QED
  <2>1. CASE ClusterChanges \/ UNCHANGED vars
    BY <1>2, <2>1 DEF ClusterChanges, vars
  <2>2. ASSUME NEW p \in Procs, Step(p) PROVE FileInv'
    BY <1>2, <1>3, <1>4, <1>5, <1>6, <2>2
    DEF Step, RunChecks, RunFails, RunPanics, SaveFails, CompareFails, RenderFails, Kill
  <2> QED
    BY <2>1, <2>2 DEF Next

(* The invariant holds throughout, however invocations interleave, fail or *)
(* are killed.                                                             *)
THEOREM Inductive == Spec => []IInv
<1>1. IInv /\ [Next]_vars => IInv'
  BY TypeStep, RanStep, RepStep, FileStep DEF IInv
<1> QED
  BY InitInv, <1>1, PTL DEF Spec

(* The types of the command's state. *)
THEOREM TypeCorrect == Spec => []TypeOK
<1>1. IInv => TypeOK
  BY DEF IInv
<1> QED
  BY Inductive, <1>1, PTL

(* Neither --only-unhealthy nor --baseline ever changes an exit code. *)
THEOREM ExitUnaffected == Spec => []ExitReflectsFindings
<1>1. IInv => ExitReflectsFindings
  <2> SUFFICES ASSUME IInv, NEW p \in Procs, Rendered(p)
               PROVE  exit[p] = ExitCode(ran[p], flags[p].strict)
    BY DEF ExitReflectsFindings
  <2>1. ran[p] \in SUBSET FindingSet /\ flags[p] \in Flags
    BY DEF IInv, TypeOK
  <2>2. ExitCode(Reported(p), flags[p].strict) = ExitCode(ran[p], flags[p].strict)
    BY <2>1, OnlyUnhealthyExit DEF Reported, FindingSet, Flags
  <2>3. Reported(p) \in SUBSET FindingSet
    BY <2>1, OnlyUnhealthyType DEF Reported
  <2>4. ExitCode(rep[p], flags[p].strict) = ExitCode(Reported(p), flags[p].strict)
    BY <2>1, <2>3, BaselineExit DEF IInv, RepInv, Flags
  <2> QED
    BY <2>2, <2>4 DEF IInv, RepInv
<1> QED
  BY Inductive, <1>1, PTL

(* A comparison with a saved baseline marks exactly the findings that the  *)
(* run which saved it had reported.                                        *)
THEOREM MarksExact == Spec => []SavedBaselineMarksSeenBefore
<1>1. IInv => SavedBaselineMarksSeenBefore
  <2> SUFFICES ASSUME IInv, NEW p \in Procs, Rendered(p), flags[p].base # NoPath
               PROVE  /\ Readable(base[p])
                      /\ base[p].kind = "saved" =>
                           \A f \in Reported(p) :
                             IF Key(f) \in Keys(Reported(base[p].by))
                             THEN Tagged(f) \in rep[p] /\ f \notin rep[p]
                             ELSE f \in rep[p] /\ Tagged(f) \notin rep[p]
    BY DEF SavedBaselineMarksSeenBefore, MarksAgainst
  <2> DEFINE B == base[p].findings
             Marked(f) == IF Key(f) \in Keys(B) THEN Tagged(f) ELSE f
  <2>1. Readable(base[p]) /\ rep[p] = {Marked(f) : f \in Reported(p)}
    BY BaselineElements DEF IInv, RepInv
  <2>2. \A f \in Reported(p) : f \in FindingSet /\ f.resource.tags = 0
    BY OnlyUnhealthyType DEF IInv, TypeOK, RanInv, Reported
  <2>3. base[p].kind = "saved" => B = Reported(base[p].by)
    BY DEF IInv, FileInv, WholeReport
  <2>4. ASSUME NEW f \in Reported(p), NEW g \in Reported(p)
        PROVE  /\ f # Tagged(g)
               /\ Tagged(f) = Tagged(g) => f = g
    <3>1. f.resource.tags = 0 /\ Tagged(g).resource.tags = 1
      BY <2>2, TaggedType
    <3>2. Tagged(f) = Tagged(g) => f = g
      BY <2>2, TaggedInjective
    <3> QED
      BY <3>1, <3>2
  <2>5. ASSUME NEW f \in Reported(p)
        PROVE  IF Key(f) \in Keys(B)
               THEN Tagged(f) \in rep[p] /\ f \notin rep[p]
               ELSE f \in rep[p] /\ Tagged(f) \notin rep[p]
    BY <2>1, <2>4
  <2> QED
    BY <2>1, <2>3, <2>5
<1> QED
  BY Inductive, <1>1, PTL
-----------------------------------------------------------------------------
(***************************************************************************)
(* The loops over a report, of ReportLoops, for reports and baselines of   *)
(* any length.                                                             *)
(***************************************************************************)

(* A finding that the predicate takes is picked next ... *)
LEMMA PicksAdd ==
  ASSUME NEW s, NEW s2, NEW m \in Nat, NEW t, NEW n \in Nat, NEW P,
         Picks(s, m, t, n, P), t[n + 1] \in P,
         s2[m + 1] = t[n + 1], \A j \in 1..m : s2[j] = s[j]
  PROVE  Picks(s2, m + 1, t, n + 1, P)
<1>1. PICK e \in [1..m -> 1..n] :
         /\ \A j, k \in 1..m : j < k => e[j] < e[k]
         /\ \A j \in 1..m : s[j] = t[e[j]]
         /\ \A k \in 1..n : t[k] \in P <=> \E j \in 1..m : e[j] = k
  BY DEF Picks
<1> DEFINE d == [j \in 1..(m + 1) |-> IF j = m + 1 THEN n + 1 ELSE e[j]]
<1>2. d \in [1..(m + 1) -> 1..(n + 1)]
  OBVIOUS
<1>3. d[m + 1] = n + 1 /\ \A j \in 1..m : d[j] = e[j] /\ d[j] \in 1..n
  OBVIOUS
<1>4. \A j \in 1..(m + 1) : j = m + 1 \/ j \in 1..m
  OBVIOUS
<1>5. \A k \in 1..(n + 1) : k = n + 1 \/ k \in 1..n
  OBVIOUS
<1> HIDE DEF d
<1>6. \A j, k \in 1..(m + 1) : j < k => d[j] < d[k]
  <2> SUFFICES ASSUME NEW j \in 1..(m + 1), NEW k \in 1..(m + 1), j < k PROVE d[j] < d[k]
    OBVIOUS
  <2>1. j \in 1..m /\ d[j] = e[j] /\ d[j] \in 1..n
    BY <1>3, <1>4
  <2>2. CASE k = m + 1
    BY <1>3, <2>1, <2>2
  <2>3. CASE k \in 1..m
    BY <1>1, <1>3, <2>1, <2>3
  <2> QED
    BY <1>4, <2>2, <2>3
<1>7. \A j \in 1..(m + 1) : s2[j] = t[d[j]]
  BY <1>1, <1>3, <1>4
<1>8. \A k \in 1..(n + 1) : t[k] \in P <=> \E j \in 1..(m + 1) : d[j] = k
  <2> SUFFICES ASSUME NEW k \in 1..(n + 1)
               PROVE  t[k] \in P <=> \E j \in 1..(m + 1) : d[j] = k
    OBVIOUS
  <2>1. CASE k = n + 1
    BY <1>3, <2>1
  <2>2. CASE k \in 1..n
    <3>1. k # n + 1
      BY <2>2
    <3>2. (\E j \in 1..(m + 1) : d[j] = k) <=> \E j \in 1..m : e[j] = k
      BY <1>3, <1>4, <3>1
    <3> QED
      BY <1>1, <2>2, <3>2
  <2> QED
    BY <1>5, <2>1, <2>2
<1>9. m + 1 <= n + 1
  BY DEF Picks
<1> QED
  BY <1>2, <1>6, <1>7, <1>8, <1>9 DEF Picks

(* ... and one that it does not is passed over. *)
LEMMA PicksSkip ==
  ASSUME NEW s, NEW m \in Nat, NEW t, NEW n \in Nat, NEW P,
         Picks(s, m, t, n, P), t[n + 1] \notin P
  PROVE  Picks(s, m, t, n + 1, P)
<1>1. PICK e \in [1..m -> 1..n] :
         /\ \A j, k \in 1..m : j < k => e[j] < e[k]
         /\ \A j \in 1..m : s[j] = t[e[j]]
         /\ \A k \in 1..n : t[k] \in P <=> \E j \in 1..m : e[j] = k
  BY DEF Picks
<1>2. e \in [1..m -> 1..(n + 1)] /\ \A j \in 1..m : e[j] \in 1..n /\ e[j] # n + 1
  OBVIOUS
<1>3. \A k \in 1..(n + 1) : k = n + 1 \/ k \in 1..n
  OBVIOUS
<1>4. \A k \in 1..(n + 1) : t[k] \in P <=> \E j \in 1..m : e[j] = k
  BY <1>1, <1>2, <1>3
<1>5. m <= n + 1
  BY DEF Picks
<1> QED
  BY <1>1, <1>2, <1>4, <1>5 DEF Picks

(* Nothing is picked from nothing. *)
LEMMA PicksStart ==
  ASSUME NEW s, NEW t, NEW P
  PROVE  Picks(s, 0, t, 0, P)
<1> DEFINE e == [j \in 1..0 |-> j]
<1>1. e \in [1..0 -> 1..0] /\ 1..0 = {}
  OBVIOUS
<1> HIDE DEF e
<1>2. /\ \A j, k \in 1..0 : j < k => e[j] < e[k]
      /\ \A j \in 1..0 : s[j] = t[e[j]]
      /\ \A k \in 1..0 : t[k] \in P <=> \E j \in 1..0 : e[j] = k
  BY <1>1
<1>3. 0 <= 0
  OBVIOUS
<1> QED
  BY <1>1, <1>2, <1>3, Zenon DEF Picks

(* As sets, what is picked is what the predicate takes. *)
LEMMA PicksElements ==
  ASSUME NEW s, NEW m \in Nat, NEW t, NEW n \in Nat, NEW P, Picks(s, m, t, n, P)
  PROVE  Elements(s, m) = {f \in Elements(t, n) : f \in P}
<1>1. PICK e \in [1..m -> 1..n] :
         /\ \A j \in 1..m : s[j] = t[e[j]]
         /\ \A k \in 1..n : t[k] \in P <=> \E j \in 1..m : e[j] = k
  BY DEF Picks
<1>2. \A j \in 1..m : e[j] \in 1..n
  OBVIOUS
<1>3. ASSUME NEW j \in 1..m PROVE s[j] \in {f \in Elements(t, n) : f \in P}
  BY <1>1, <1>2 DEF Elements
<1>4. ASSUME NEW k \in 1..n, t[k] \in P PROVE t[k] \in Elements(s, m)
  <2>1. PICK j \in 1..m : e[j] = k
    BY <1>1, <1>4
  <2> QED
    BY <1>1, <2>1 DEF Elements
<1> QED
  BY <1>3, <1>4 DEF Elements

(* One more element. *)
LEMMA ElementsAdd ==
  ASSUME NEW s, NEW n \in Nat
  PROVE  Elements(s, n + 1) = Elements(s, n) \cup {s[n + 1]}
<1>1. \A j : j \in 1..(n + 1) <=> j \in 1..n \/ j = n + 1
  OBVIOUS
<1> QED
  BY <1>1 DEF Elements

(* No elements yet. *)
LEMMA ElementsNone ==
  ASSUME NEW s PROVE Elements(s, 0) = {}
<1>1. \A j \in 1..0 : FALSE
  OBVIOUS
<1> QED
  BY <1>1 DEF Elements
-----------------------------------------------------------------------------
(* The loops are in a total order. *)
LEMMA StageOrder ==
  /\ \A l \in Loops : Stage(l) \in 1..9
  /\ \A l, k \in Loops : Stage(l) = Stage(k) => l = k
<1>1. /\ Stage("filter") = 1 /\ Stage("base") = 2 /\ Stage("cur") = 3
      /\ Stage("split") = 4 /\ Stage("cleared") = 5 /\ Stage("persisting") = 6
      /\ Stage("mark") = 7 /\ Stage("worst") = 8 /\ Stage("done") = 9
  BY DEF Stage
<1> QED
  BY <1>1 DEF Loops

(* Leaving a loop for the next one changes no count. *)
LEMMA LeavePassed ==
  ASSUME i \in Nat, NEW l \in Loops, NEW n \in Nat, NEW next \in Loops,
         Leave(l, n, next), i <= n + 1, Stage(next) > Stage(l),
         NEW k \in Loops, NEW z \in Nat, k = l => z = n,
         Stage(k) <= Stage(l) \/ Stage(k) >= Stage(next)
  PROVE  Passed(k, z)' = Passed(k, z)
<1>1. /\ loop = l /\ loop' = next /\ i = n + 1 /\ i' = 1
  BY DEF Leave
<1>2. Stage(l) \in Int /\ Stage(next) \in Int /\ Stage(k) \in Int
  BY StageOrder
<1>3. Passed(k, z) = IF l = k THEN n ELSE IF Stage(l) > Stage(k) THEN z ELSE 0
  BY <1>1 DEF Passed
<1>4. Passed(k, z)' = IF next = k THEN 0 ELSE IF Stage(next) > Stage(k) THEN z ELSE 0
  BY <1>1 DEF Passed
<1>5. CASE k = l
  BY <1>2, <1>3, <1>4, <1>5
<1>6. CASE k # l /\ k = next
  BY <1>2, <1>3, <1>4, <1>6
<1>7. CASE k # l /\ k # next
  <2>1. Stage(k) # Stage(l) /\ Stage(k) # Stage(next)
    BY <1>7, StageOrder
  <2> QED
    BY <1>2, <1>3, <1>4, <1>7, <2>1
<1> QED
  BY <1>5, <1>6, <1>7

(* An iteration adds one to the count of its own loop only. *)
LEMMA IteratePassed ==
  ASSUME i \in Nat, NEW l \in Loops, NEW n \in Nat, Iterate(l, n), NEW k \in Loops, NEW z
  PROVE  Passed(k, z)' = (IF k = l THEN i ELSE Passed(k, z)) /\ (k = l => Passed(k, z) = i - 1)
<1>1. loop = l /\ loop' = l /\ i' = i + 1
  BY DEF Iterate
<1>2. Passed(k, z) = IF l = k THEN i - 1 ELSE IF Stage(l) > Stage(k) THEN z ELSE 0
  BY <1>1 DEF Passed
<1>3. Passed(k, z)' = IF l = k THEN i ELSE IF Stage(l) > Stage(k) THEN z ELSE 0
  <2>1. Passed(k, z)' = IF l = k THEN i' - 1 ELSE IF Stage(l) > Stage(k) THEN z ELSE 0
    BY <1>1 DEF Passed
  <2> QED
    BY <1>1, <2>1
<1> QED
  BY <1>2, <1>3
-----------------------------------------------------------------------------
(* The loops' results: all the loops but for the end. *)
WorstSoFar == worst = Worst(Elements(RenderedSlice, Passed("worst", Len(RenderedSlice))))
SoFar == CompactionInPlaceIsSafe /\ ComparisonInOrder /\ MarkingKeepsStatuses /\ WorstSoFar

(* The counts a state's results depend on. *)
Counts ==
  /\ Passed("filter", Len(cur)) \in 0..Len(cur)
  /\ Passed("base", Len(old)) \in 0..Len(old)
  /\ Passed("cur", len) \in 0..len
  /\ Passed("split", len) \in 0..len
  /\ Passed("cleared", Len(old)) \in 0..Len(old)
  /\ Passed("persisting", Len(diff.Persisting)) \in 0..Len(diff.Persisting)
  /\ Passed("mark", len) \in 0..len
  /\ Passed("worst", Len(RenderedSlice)) \in 0..Len(RenderedSlice)

(* What is rendered is a report. *)
LEMMA RenderedType ==
  ASSUME LoopTypes
  PROVE  /\ RenderedSlice \in Seq(FindingSet)
         /\ ~ compare => Len(RenderedSlice) = len /\ \A j \in 1..len : RenderedSlice[j] = array[j]
<1>1. CASE compare
  BY <1>1 DEF LoopTypes, RenderedSlice
<1>2. CASE ~ compare
  <2>1. RenderedSlice = SubSeq(array, 1, len)
    BY <1>2 DEF RenderedSlice
  <2> QED
    BY <1>2, <2>1 DEF LoopTypes
<1> QED
  BY <1>1, <1>2

(* A loop passes no more elements than there are. *)
LEMMA PassedBound ==
  ASSUME LoopTypes, Route
  PROVE  Counts
<1>1. Len(cur) \in Nat /\ Len(old) \in Nat /\ len \in Nat /\ Len(diff.Persisting) \in Nat
      /\ Len(RenderedSlice) \in Nat /\ i \in Nat \ {0}
  BY RenderedType DEF LoopTypes
<1> QED
  BY <1>1 DEF Route, Counts, Passed
-----------------------------------------------------------------------------
(* What a step leaves alone keeps its part of the invariant. *)
LEMMA FrameCompaction ==
  ASSUME CompactionInPlaceIsSafe, UNCHANGED <<cur, only, array, len>>,
         Passed("filter", Len(cur))' = Passed("filter", Len(cur))
  PROVE  CompactionInPlaceIsSafe'
  BY DEF CompactionInPlaceIsSafe

(* The same for the comparison ... *)
LEMMA FrameComparison ==
  ASSUME ComparisonInOrder, UNCHANGED <<old, compare, array, len, baseSet, curSet, diff, persisting>>,
         compare => /\ Passed("base", Len(old))' = Passed("base", Len(old))
                    /\ Passed("cur", len)' = Passed("cur", len)
                    /\ Passed("split", len)' = Passed("split", len)
                    /\ Passed("cleared", Len(old))' = Passed("cleared", Len(old))
                    /\ Passed("persisting", Len(diff.Persisting))'
                         = Passed("persisting", Len(diff.Persisting))
  PROVE  ComparisonInOrder'
  BY DEF ComparisonInOrder

(* ... the marking ... *)
LEMMA FrameMarking ==
  ASSUME MarkingKeepsStatuses, UNCHANGED <<old, compare, array, len, out>>,
         compare => Passed("mark", len)' = Passed("mark", len)
  PROVE  MarkingKeepsStatuses'
  BY DEF MarkingKeepsStatuses

(* ... and the worst status. *)
LEMMA FrameWorst ==
  ASSUME WorstSoFar, UNCHANGED <<compare, array, len, out, worst>>,
         Passed("worst", Len(RenderedSlice))' = Passed("worst", Len(RenderedSlice))
  PROVE  WorstSoFar'
  BY DEF WorstSoFar, RenderedSlice

(* Leaving a loop for the next one keeps what the loops have done. *)
LEMMA LeaveStep ==
  ASSUME LoopInv, NEW l \in Loops, NEW n \in Nat, NEW next \in Loops,
         Leave(l, n, next), i <= n + 1, Stage(next) > Stage(l),
         compare => Stage(next) = Stage(l) + 1,
         ~ compare => <<l, next>> \in {<<"filter", "worst">>, <<"worst", "done">>},
         l = "filter" => n = Len(cur),
         l \in {"base", "cleared"} => n = Len(old),
         l \in {"cur", "split", "mark"} => n = len,
         l = "persisting" => n = Len(diff.Persisting),
         l = "worst" => n = Len(RenderedSlice),
         UNCHANGED <<cur, old, only, compare, array, len, baseSet, curSet, diff,
                     persisting, out, worst>>
  PROVE  SoFar'
<1>1. /\ Len(cur) \in Nat /\ Len(old) \in Nat /\ len \in Nat /\ Len(diff.Persisting) \in Nat
      /\ Len(RenderedSlice) \in Nat /\ i \in Nat
  BY RenderedType DEF LoopInv, LoopTypes
<1>2. Stage(l) \in Int /\ Stage(next) \in Int
  BY StageOrder
<1>3. /\ "filter" \in Loops /\ "worst" \in Loops
      /\ \A k \in {"base", "cur", "split", "cleared", "persisting", "mark"} : k \in Loops
  BY DEF Loops
<1>4. Stage("filter") = 1 /\ Stage("worst") = 8 /\ Stage("done") = 9
  BY DEF Stage
<1>5. ASSUME compare, NEW k \in Loops
      PROVE  Stage(k) <= Stage(l) \/ Stage(k) >= Stage(next)
  <2>1. Stage(k) \in Int /\ Stage(next) = Stage(l) + 1
    BY <1>5, StageOrder
  <2> QED
    BY <1>2, <2>1
<1>6. ASSUME NEW k \in {"filter", "worst"}
      PROVE  Stage(k) <= Stage(l) \/ Stage(k) >= Stage(next)
  <2>1. CASE compare
    BY <1>3, <1>5, <2>1
  <2>2. CASE ~ compare
    BY <1>4, <2>2
  <2> QED
    BY <2>1, <2>2
<1>7. ASSUME NEW k \in {"filter", "worst"}, NEW z \in Nat, k = l => z = n
      PROVE  Passed(k, z)' = Passed(k, z)
  BY <1>1, <1>3, <1>6, <1>7, LeavePassed
<1>8. ASSUME compare, NEW k \in Loops, NEW z \in Nat, k = l => z = n
      PROVE  Passed(k, z)' = Passed(k, z)
  BY <1>1, <1>5, <1>8, LeavePassed
<1>9. /\ Passed("filter", Len(cur))' = Passed("filter", Len(cur))
      /\ Passed("worst", Len(RenderedSlice))' = Passed("worst", Len(RenderedSlice))
  <2>1. PICK z, y : z = Len(cur) /\ y = Len(RenderedSlice)
    OBVIOUS
  <2>2. z = Len(cur)' /\ y = Len(RenderedSlice)'
    BY <2>1 DEF RenderedSlice
  <2>3. Passed("filter", z)' = Passed("filter", z) /\ Passed("worst", y)' = Passed("worst", y)
    BY <1>1, <1>7, <2>1
  <2> QED
    BY <2>1, <2>2, <2>3 DEF Passed
<1>10. ASSUME compare
       PROVE  /\ Passed("base", Len(old))' = Passed("base", Len(old))
              /\ Passed("cur", len)' = Passed("cur", len)
              /\ Passed("split", len)' = Passed("split", len)
              /\ Passed("cleared", Len(old))' = Passed("cleared", Len(old))
              /\ Passed("persisting", Len(diff.Persisting))'
                   = Passed("persisting", Len(diff.Persisting))
              /\ Passed("mark", len)' = Passed("mark", len)
  <2>1. PICK z, y, x : z = Len(old) /\ y = len /\ x = Len(diff.Persisting)
    OBVIOUS
  <2>2. z = Len(old)' /\ y = len' /\ x = Len(diff.Persisting)'
    BY <2>1
  <2>3. z \in Nat /\ y \in Nat /\ x \in Nat
    BY <1>1, <2>1
  <2>4. /\ Passed("base", z)' = Passed("base", z)
        /\ Passed("cur", y)' = Passed("cur", y)
        /\ Passed("split", y)' = Passed("split", y)
        /\ Passed("cleared", z)' = Passed("cleared", z)
        /\ Passed("persisting", x)' = Passed("persisting", x)
        /\ Passed("mark", y)' = Passed("mark", y)
    BY <1>3, <1>8, <1>10, <2>1, <2>3
  <2>5. /\ Passed("base", Len(old))' = Passed("base", z)'
        /\ Passed("cur", len)' = Passed("cur", y)'
        /\ Passed("split", len)' = Passed("split", y)'
    BY <2>2 DEF Passed
  <2>6. /\ Passed("cleared", Len(old))' = Passed("cleared", z)'
        /\ Passed("persisting", Len(diff.Persisting))' = Passed("persisting", x)'
        /\ Passed("mark", len)' = Passed("mark", y)'
    BY <2>2 DEF Passed
  <2> QED
    BY <2>1, <2>4, <2>5, <2>6
<1> QED
  BY <1>9, <1>10, FrameCompaction, FrameComparison, FrameMarking, FrameWorst
  DEF LoopInv, LoopsAgree, SoFar, WorstIsMostSevere, WorstSoFar
-----------------------------------------------------------------------------
(* The six parts of the comparison. *)
BaseKeys == baseSet = Keys(Elements(old, Passed("base", Len(old))))
CurKeys == curSet = Keys(Elements(array, Passed("cur", len)))
NewPart == Picks(diff.New, Len(diff.New), array, Passed("split", len),
                 Compare(All(old), Elements(array, len)).New)
PersistingPart == Picks(diff.Persisting, Len(diff.Persisting), array, Passed("split", len),
                        Compare(All(old), Elements(array, len)).Persisting)
ClearedPart == Picks(diff.Cleared, Len(diff.Cleared), old, Passed("cleared", Len(old)),
                     Compare(All(old), Elements(array, len)).Cleared)
PersistingKeys == persisting = Keys(Elements(diff.Persisting,
                                             Passed("persisting", Len(diff.Persisting))))

(* ComparisonInOrder is their conjunction. *)
LEMMA ComparisonParts ==
  ComparisonInOrder <=>
    (compare => BaseKeys /\ CurKeys /\ NewPart /\ PersistingPart /\ ClearedPart /\ PersistingKeys)
  BY DEF ComparisonInOrder, BaseKeys, CurKeys, NewPart, PersistingPart, ClearedPart, PersistingKeys

(* The stages by name. *)
LEMMA StageIs ==
  /\ Stage("filter") = 1 /\ Stage("base") = 2 /\ Stage("cur") = 3
  /\ Stage("split") = 4 /\ Stage("cleared") = 5 /\ Stage("persisting") = 6
  /\ Stage("mark") = 7 /\ Stage("worst") = 8 /\ Stage("done") = 9
  BY DEF Stage

(* What an iteration of a loop counts. *)
LEMMA IterateCounts ==
  ASSUME LoopTypes, NEW l \in Loops, NEW n, Iterate(l, n), UNCHANGED <<cur, old>>,
         Stage(l) > 1 => UNCHANGED len,
         Stage(l) > 5 => UNCHANGED diff,
         Stage(l) > 7 => UNCHANGED RenderedSlice
  PROVE  /\ Passed("filter", Len(cur))' = IF l = "filter" THEN i ELSE Passed("filter", Len(cur))
         /\ Passed("base", Len(old))' = IF l = "base" THEN i ELSE Passed("base", Len(old))
         /\ Passed("cur", len)' = IF l = "cur" THEN i ELSE Passed("cur", len)
         /\ Passed("split", len)' = IF l = "split" THEN i ELSE Passed("split", len)
         /\ Passed("cleared", Len(old))' = IF l = "cleared" THEN i ELSE Passed("cleared", Len(old))
         /\ Passed("persisting", Len(diff.Persisting))'
              = IF l = "persisting" THEN i ELSE Passed("persisting", Len(diff.Persisting))
         /\ Passed("mark", len)' = IF l = "mark" THEN i ELSE Passed("mark", len)
         /\ Passed("worst", Len(RenderedSlice))' = IF l = "worst" THEN i ELSE Passed("worst", Len(RenderedSlice))
         /\ \A z : Passed(l, z) = i - 1
<1>1. loop = l /\ loop' = l /\ i' = i + 1 /\ i \in Nat
  BY DEF Iterate, LoopTypes
<1>2. Stage(l) \in Int
  BY StageOrder
<1>3. \A k, z : Passed(k, z) = IF l = k THEN i - 1 ELSE IF Stage(l) > Stage(k) THEN z ELSE 0
  BY <1>1 DEF Passed
<1>4. /\ Passed("filter", Len(cur))' = IF l = "filter" THEN i ELSE IF Stage(l) > 1 THEN Len(cur) ELSE 0
      /\ Passed("base", Len(old))' = IF l = "base" THEN i ELSE IF Stage(l) > 2 THEN Len(old) ELSE 0
      /\ Passed("cleared", Len(old))' = IF l = "cleared" THEN i ELSE IF Stage(l) > 5 THEN Len(old) ELSE 0
  <2>1. Len(cur)' = Len(cur) /\ Len(old)' = Len(old)
    OBVIOUS
  <2> QED
    BY <1>1, <2>1, StageIs DEF Passed
<1>5. /\ Passed("cur", len)' = IF l = "cur" THEN i ELSE IF Stage(l) > 3 THEN len ELSE 0
      /\ Passed("split", len)' = IF l = "split" THEN i ELSE IF Stage(l) > 4 THEN len ELSE 0
      /\ Passed("mark", len)' = IF l = "mark" THEN i ELSE IF Stage(l) > 7 THEN len ELSE 0
  BY <1>1, <1>2, StageIs DEF Passed
<1>6. Passed("persisting", Len(diff.Persisting))'
        = IF l = "persisting" THEN i ELSE IF Stage(l) > 6 THEN Len(diff.Persisting) ELSE 0
  BY <1>1, <1>2, StageIs DEF Passed
<1>7. Passed("worst", Len(RenderedSlice))'
        = IF l = "worst" THEN i ELSE IF Stage(l) > 8 THEN Len(RenderedSlice) ELSE 0
  BY <1>1, <1>2, StageIs DEF Passed
<1> QED
  BY <1>3, <1>4, <1>5, <1>6, <1>7, StageIs
-----------------------------------------------------------------------------
(* One key more. *)
LEMMA KeysAdd ==
  ASSUME NEW S, NEW f
  PROVE  Keys(S \cup {f}) = Keys(S) \cup {Key(f)}
  BY DEF Keys

(* An iteration has a number of iterations before it. *)
LEMMA IndexBefore == LoopTypes => \E c \in Nat : i = c + 1
<1>1. LoopTypes => i \in Nat \ {0}
  BY DEF LoopTypes
<1>2. i \in Nat \ {0} => i - 1 \in Nat /\ i = (i - 1) + 1
  OBVIOUS
<1> QED
  BY <1>1, <1>2

(* The first loop of Compare takes one key more from the baseline ... *)
LEMMA CompareBaseStep ==
  ASSUME LoopInv, CompareBase, Iterate("base", Len(old)), baseSet' = baseSet \cup {Key(old[i])}
  PROVE  SoFar'
<1>1. "base" \in Loops /\ Stage("base") = 2 /\ LoopTypes
  BY StageIs DEF Loops, LoopInv
<1>2. UNCHANGED <<cur, old, only, compare, array, len, curSet, diff, persisting, out, worst>>
  BY DEF CompareBase
<1>3. /\ Passed("base", Len(old)) = i - 1 /\ Passed("base", Len(old))' = i
      /\ Passed("filter", Len(cur))' = Passed("filter", Len(cur))
      /\ Passed("cur", len)' = Passed("cur", len)
      /\ Passed("split", len)' = Passed("split", len)
      /\ Passed("cleared", Len(old))' = Passed("cleared", Len(old))
      /\ Passed("persisting", Len(diff.Persisting))' = Passed("persisting", Len(diff.Persisting))
      /\ Passed("mark", len)' = Passed("mark", len)
      /\ Passed("worst", Len(RenderedSlice))' = Passed("worst", Len(RenderedSlice))
  BY <1>1, <1>2, IterateCounts
<1>4. ASSUME compare PROVE BaseKeys'
  <2>1. PICK c \in Nat : i = c + 1
    BY <1>1, IndexBefore
  <2>2. baseSet = Keys(Elements(old, c))
    <3>1. Passed("base", Len(old)) = c
      BY <1>3, <2>1
    <3> QED
      BY <1>4, <3>1, ComparisonParts DEF LoopInv, LoopsAgree, BaseKeys
  <2>3. baseSet' = Keys(Elements(old, c + 1))
    BY <2>1, <2>2, ElementsAdd, KeysAdd
  <2>4. Passed("base", Len(old))' = c + 1
    BY <1>3, <2>1
  <2> QED
    BY <1>2, <2>3, <2>4 DEF BaseKeys
<1>5. ComparisonInOrder'
  <2> SUFFICES ASSUME compare PROVE ComparisonInOrder'
    BY <1>2 DEF ComparisonInOrder
  <2>1. CurKeys' /\ NewPart' /\ PersistingPart' /\ ClearedPart' /\ PersistingKeys'
    BY <1>2, <1>3, ComparisonParts
    DEF LoopInv, LoopsAgree, CurKeys, NewPart, PersistingPart, ClearedPart, PersistingKeys
  <2> QED
    BY <1>4, <2>1 DEF ComparisonInOrder, BaseKeys, CurKeys, NewPart, PersistingPart,
                      ClearedPart, PersistingKeys
<1> QED
  BY <1>2, <1>3, <1>5, FrameCompaction, FrameMarking, FrameWorst
  DEF LoopInv, LoopsAgree, SoFar, WorstIsMostSevere, WorstSoFar

(* ... and the second one from the report. *)
LEMMA CompareCurStep ==
  ASSUME LoopInv, CompareCur, Iterate("cur", len), curSet' = curSet \cup {Key(array[i])}
  PROVE  SoFar'
<1>1. "cur" \in Loops /\ Stage("cur") = 3 /\ LoopTypes
  BY StageIs DEF Loops, LoopInv
<1>2. UNCHANGED <<cur, old, only, compare, array, len, baseSet, diff, persisting, out, worst>>
  BY DEF CompareCur
<1>3. /\ Passed("cur", len) = i - 1 /\ Passed("cur", len)' = i
      /\ Passed("filter", Len(cur))' = Passed("filter", Len(cur))
      /\ Passed("base", Len(old))' = Passed("base", Len(old))
      /\ Passed("split", len)' = Passed("split", len)
      /\ Passed("cleared", Len(old))' = Passed("cleared", Len(old))
      /\ Passed("persisting", Len(diff.Persisting))' = Passed("persisting", Len(diff.Persisting))
      /\ Passed("mark", len)' = Passed("mark", len)
      /\ Passed("worst", Len(RenderedSlice))' = Passed("worst", Len(RenderedSlice))
  BY <1>1, <1>2, IterateCounts
<1>4. ASSUME compare PROVE CurKeys'
  <2>1. PICK c \in Nat : i = c + 1
    BY <1>1, IndexBefore
  <2>2. curSet = Keys(Elements(array, c))
    <3>1. Passed("cur", len) = c
      BY <1>3, <2>1
    <3> QED
      BY <1>4, <3>1, ComparisonParts DEF LoopInv, LoopsAgree, CurKeys
  <2>3. curSet' = Keys(Elements(array, c + 1))
    BY <2>1, <2>2, ElementsAdd, KeysAdd
  <2>4. Passed("cur", len)' = c + 1
    BY <1>3, <2>1
  <2> QED
    BY <1>2, <2>3, <2>4 DEF CurKeys
<1>5. ComparisonInOrder'
  <2> SUFFICES ASSUME compare PROVE ComparisonInOrder'
    BY <1>2 DEF ComparisonInOrder
  <2>1. BaseKeys' /\ NewPart' /\ PersistingPart' /\ ClearedPart' /\ PersistingKeys'
    BY <1>2, <1>3, ComparisonParts
    DEF LoopInv, LoopsAgree, BaseKeys, NewPart, PersistingPart, ClearedPart, PersistingKeys
  <2> QED
    BY <1>4, <2>1 DEF ComparisonInOrder, BaseKeys, CurKeys, NewPart, PersistingPart,
                      ClearedPart, PersistingKeys
<1> QED
  BY <1>2, <1>3, <1>5, FrameCompaction, FrameMarking, FrameWorst
  DEF LoopInv, LoopsAgree, SoFar, WorstIsMostSevere, WorstSoFar

(* The three parts by their members. *)
LEMMA CompareIs ==
  ASSUME NEW B, NEW S
  PROVE  /\ Compare(B, S).New = {f \in S : Key(f) \notin Keys(B)}
         /\ Compare(B, S).Persisting = {f \in S : Key(f) \in Keys(B)}
         /\ Compare(B, S).Cleared = {f \in B : Key(f) \notin Keys(S)}
  BY DEF Compare

(* Each iteration of the third loop of Compare adds its finding to one     *)
(* part and passes it over for the other.                                  *)
LEMMA CompareSplitStep ==
  ASSUME LoopInv, CompareSplit, Iterate("split", len),
         IF Key(array[i]) \in baseSet
         THEN diff' = [diff EXCEPT !.Persisting = Append(@, array[i])]
         ELSE diff' = [diff EXCEPT !.New = Append(@, array[i])]
  PROVE  SoFar'
<1>1. "split" \in Loops /\ Stage("split") = 4 /\ LoopTypes
  BY StageIs DEF Loops, LoopInv
<1>2. UNCHANGED <<cur, old, only, compare, array, len, baseSet, curSet, persisting, out, worst>>
  BY DEF CompareSplit
<1>3. /\ Passed("split", len) = i - 1 /\ Passed("split", len)' = i
      /\ Passed("filter", Len(cur))' = Passed("filter", Len(cur))
      /\ Passed("base", Len(old))' = Passed("base", Len(old))
      /\ Passed("cur", len)' = Passed("cur", len)
      /\ Passed("cleared", Len(old))' = Passed("cleared", Len(old))
      /\ Passed("persisting", Len(diff.Persisting))' = Passed("persisting", Len(diff.Persisting))
      /\ Passed("mark", len)' = Passed("mark", len)
      /\ Passed("worst", Len(RenderedSlice))' = Passed("worst", Len(RenderedSlice))
  BY <1>1, <1>2, IterateCounts
<1>4. Passed("base", Len(old)) = Len(old) /\ Passed("persisting", Len(diff.Persisting)) = 0
  BY StageIs DEF Passed, Iterate
<1>5. ASSUME compare
      PROVE  NewPart' /\ PersistingPart' /\ ClearedPart' /\ PersistingKeys'
  <2>1. PICK c \in Nat : i = c + 1
    BY <1>1, IndexBefore
  <2>2. c + 1 \in 1..len /\ len \in Nat
    BY <2>1 DEF Iterate, LoopInv, LoopTypes
  <2> DEFINE parts == Compare(All(old), Elements(array, len))
             f == array[c + 1]
  <2>3. baseSet = Keys(All(old))
    BY <1>4, <1>5, ComparisonParts DEF LoopInv, LoopsAgree, BaseKeys, All
  <2>4. f \in Elements(array, len)
    BY <2>2 DEF Elements
  <2>5. (f \in parts.Persisting <=> Key(f) \in baseSet) /\ (f \in parts.New <=> Key(f) \notin baseSet)
    BY <2>3, <2>4, CompareIs
  <2>6. diff \in [New : Seq(FindingSet), Persisting : Seq(FindingSet), Cleared : Seq(FindingSet)]
    BY DEF LoopInv, LoopTypes
  <2>7. /\ Picks(diff.New, Len(diff.New), array, c, parts.New)
        /\ Picks(diff.Persisting, Len(diff.Persisting), array, c, parts.Persisting)
    <3>1. Passed("split", len) = c
      BY <1>3, <2>1
    <3> QED
      BY <1>5, <3>1, ComparisonParts DEF LoopInv, LoopsAgree, NewPart, PersistingPart
  <2>8. f \in FindingSet
    BY <2>2 DEF LoopInv, LoopTypes
  <2> HIDE DEF parts, f
  <2>9. /\ Picks(diff'.New, Len(diff'.New), array, c + 1, parts.New)
        /\ Picks(diff'.Persisting, Len(diff'.Persisting), array, c + 1, parts.Persisting)
        /\ diff'.Cleared = diff.Cleared
    <3>1. CASE Key(f) \in baseSet
      <4>1. diff' = [diff EXCEPT !.Persisting = Append(diff.Persisting, f)]
        BY <2>1, <3>1 DEF f
      <4>2. diff'.New = diff.New /\ diff'.Cleared = diff.Cleared
            /\ diff'.Persisting = Append(diff.Persisting, f)
        BY <2>6, <4>1
      <4> DEFINE m == Len(diff.Persisting)
      <4>3. /\ m \in Nat /\ Len(diff.New) \in Nat
            /\ Len(diff'.Persisting) = m + 1 /\ diff'.Persisting[m + 1] = f
            /\ \A j \in 1..m : diff'.Persisting[j] = diff.Persisting[j]
        BY <2>6, <2>8, <4>2
      <4> HIDE DEF m
      <4>4. Picks(diff'.Persisting, m + 1, array, c + 1, parts.Persisting)
        BY <2>5, <2>7, <3>1, <4>3, PicksAdd DEF f, m
      <4>5. Picks(diff.New, Len(diff.New), array, c + 1, parts.New)
        BY <2>5, <2>7, <3>1, <4>3, PicksSkip DEF f
      <4> QED
        BY <4>2, <4>3, <4>4, <4>5
    <3>2. CASE Key(f) \notin baseSet
      <4>1. diff' = [diff EXCEPT !.New = Append(diff.New, f)]
        BY <2>1, <3>2 DEF f
      <4>2. diff'.Persisting = diff.Persisting /\ diff'.Cleared = diff.Cleared
            /\ diff'.New = Append(diff.New, f)
        BY <2>6, <4>1
      <4> DEFINE m == Len(diff.New)
      <4>3. /\ m \in Nat /\ Len(diff.Persisting) \in Nat
            /\ Len(diff'.New) = m + 1 /\ diff'.New[m + 1] = f
            /\ \A j \in 1..m : diff'.New[j] = diff.New[j]
        BY <2>6, <2>8, <4>2
      <4> HIDE DEF m
      <4>4. Picks(diff'.New, m + 1, array, c + 1, parts.New)
        BY <2>5, <2>7, <3>2, <4>3, PicksAdd DEF f, m
      <4>5. Picks(diff.Persisting, Len(diff.Persisting), array, c + 1, parts.Persisting)
        BY <2>5, <2>7, <3>2, <4>3, PicksSkip DEF f
      <4> QED
        BY <4>2, <4>3, <4>4, <4>5
    <3> QED
      BY <3>1, <3>2
  <2>10. Passed("split", len)' = c + 1
    BY <1>3, <2>1
  <2>11. NewPart' /\ PersistingPart'
    BY <1>2, <2>9, <2>10 DEF NewPart, PersistingPart, parts
  <2>12. ClearedPart'
    BY <1>2, <1>3, <1>5, <2>9, ComparisonParts DEF LoopInv, LoopsAgree, ClearedPart
  <2>13. PersistingKeys'
    BY <1>2, <1>3, <1>4, <1>5, ElementsNone, ComparisonParts DEF LoopInv, LoopsAgree, PersistingKeys
  <2> QED
    BY <2>11, <2>12, <2>13
<1>6. ComparisonInOrder'
  <2> SUFFICES ASSUME compare PROVE ComparisonInOrder'
    BY <1>2 DEF ComparisonInOrder
  <2>1. BaseKeys' /\ CurKeys'
    BY <1>2, <1>3, ComparisonParts DEF LoopInv, LoopsAgree, BaseKeys, CurKeys
  <2> QED
    BY <1>5, <2>1 DEF ComparisonInOrder, BaseKeys, CurKeys, NewPart, PersistingPart,
                      ClearedPart, PersistingKeys
<1> QED
  BY <1>2, <1>3, <1>6, FrameCompaction, FrameMarking, FrameWorst
  DEF LoopInv, LoopsAgree, SoFar, WorstIsMostSevere, WorstSoFar

(* Each iteration of the last loop of Compare adds its finding to the      *)
(* cleared ones or passes it over.                                         *)
LEMMA CompareClearedStep ==
  ASSUME LoopInv, CompareCleared, Iterate("cleared", Len(old)),
         IF Key(old[i]) \notin curSet
         THEN diff' = [diff EXCEPT !.Cleared = Append(@, old[i])]
         ELSE UNCHANGED diff
  PROVE  SoFar'
<1>1. "cleared" \in Loops /\ Stage("cleared") = 5 /\ LoopTypes
  BY StageIs DEF Loops, LoopInv
<1>2. UNCHANGED <<cur, old, only, compare, array, len, baseSet, curSet, persisting, out, worst>>
  BY DEF CompareCleared
<1>3. /\ Passed("cleared", Len(old)) = i - 1 /\ Passed("cleared", Len(old))' = i
      /\ Passed("filter", Len(cur))' = Passed("filter", Len(cur))
      /\ Passed("base", Len(old))' = Passed("base", Len(old))
      /\ Passed("cur", len)' = Passed("cur", len)
      /\ Passed("split", len)' = Passed("split", len)
      /\ Passed("persisting", Len(diff.Persisting))' = Passed("persisting", Len(diff.Persisting))
      /\ Passed("mark", len)' = Passed("mark", len)
      /\ Passed("worst", Len(RenderedSlice))' = Passed("worst", Len(RenderedSlice))
  BY <1>1, <1>2, IterateCounts
<1>4. Passed("cur", len) = len
  BY StageIs DEF Passed, Iterate
<1>5. ASSUME compare
      PROVE  NewPart' /\ PersistingPart' /\ ClearedPart' /\ PersistingKeys'
  <2>1. PICK c \in Nat : i = c + 1
    BY <1>1, IndexBefore
  <2>2. c + 1 \in 1..Len(old) /\ old \in Seq(FindingSet)
    BY <2>1 DEF Iterate, LoopInv, LoopTypes
  <2> DEFINE parts == Compare(All(old), Elements(array, len))
             f == old[c + 1]
  <2>3. curSet = Keys(Elements(array, len))
    BY <1>4, <1>5, ComparisonParts DEF LoopInv, LoopsAgree, CurKeys
  <2>4. f \in All(old) /\ f \in FindingSet
    BY <2>2 DEF All, Elements
  <2>5. f \in parts.Cleared <=> Key(f) \notin curSet
    BY <2>3, <2>4, CompareIs
  <2>6. diff \in [New : Seq(FindingSet), Persisting : Seq(FindingSet), Cleared : Seq(FindingSet)]
    BY <1>1 DEF LoopTypes
  <2>7. Picks(diff.Cleared, Len(diff.Cleared), old, c, parts.Cleared)
    <3>1. Passed("cleared", Len(old)) = c
      BY <1>3, <2>1
    <3> QED
      BY <1>5, <3>1, ComparisonParts DEF LoopInv, LoopsAgree, ClearedPart
  <2> HIDE DEF parts, f
  <2>8. /\ Picks(diff'.Cleared, Len(diff'.Cleared), old, c + 1, parts.Cleared)
        /\ diff'.New = diff.New /\ diff'.Persisting = diff.Persisting
    <3>1. CASE Key(f) \notin curSet
      <4>1. diff' = [diff EXCEPT !.Cleared = Append(diff.Cleared, f)]
        BY <2>1, <3>1 DEF f
      <4>2. diff'.New = diff.New /\ diff'.Persisting = diff.Persisting
            /\ diff'.Cleared = Append(diff.Cleared, f)
        BY <2>6, <4>1
      <4> DEFINE m == Len(diff.Cleared)
      <4>3. /\ m \in Nat /\ Len(diff'.Cleared) = m + 1 /\ diff'.Cleared[m + 1] = f
            /\ \A j \in 1..m : diff'.Cleared[j] = diff.Cleared[j]
        BY <2>4, <2>6, <4>2
      <4> HIDE DEF m
      <4>4. Picks(diff'.Cleared, m + 1, old, c + 1, parts.Cleared)
        BY <2>5, <2>7, <3>1, <4>3, PicksAdd DEF f, m
      <4> QED
        BY <4>2, <4>3, <4>4
    <3>2. CASE Key(f) \in curSet
      <4>1. diff' = diff
        BY <2>1, <3>2 DEF f
      <4>2. Len(diff.Cleared) \in Nat
        BY <2>6
      <4>3. Picks(diff.Cleared, Len(diff.Cleared), old, c + 1, parts.Cleared)
        BY <2>5, <2>7, <3>2, <4>2, PicksSkip DEF f
      <4> QED
        BY <4>1, <4>3
    <3> QED
      BY <3>1, <3>2
  <2>9. Passed("cleared", Len(old))' = c + 1
    BY <1>3, <2>1
  <2>10. ClearedPart'
    BY <1>2, <2>8, <2>9 DEF ClearedPart, parts
  <2>11. NewPart' /\ PersistingPart' /\ PersistingKeys'
    BY <1>2, <1>3, <1>5, <2>8, ComparisonParts
    DEF LoopInv, LoopsAgree, NewPart, PersistingPart, PersistingKeys
  <2> QED
    BY <2>10, <2>11
<1>6. ComparisonInOrder'
  <2> SUFFICES ASSUME compare PROVE ComparisonInOrder'
    BY <1>2 DEF ComparisonInOrder
  <2>1. BaseKeys' /\ CurKeys'
    BY <1>2, <1>3, ComparisonParts DEF LoopInv, LoopsAgree, BaseKeys, CurKeys
  <2> QED
    BY <1>5, <2>1 DEF ComparisonInOrder, BaseKeys, CurKeys, NewPart, PersistingPart,
                      ClearedPart, PersistingKeys
<1> QED
  BY <1>2, <1>3, <1>6, FrameCompaction, FrameMarking, FrameWorst
  DEF LoopInv, LoopsAgree, SoFar, WorstIsMostSevere, WorstSoFar

(* The map of applyBaseline gets one key more. *)
LEMMA CollectPersistingStep ==
  ASSUME LoopInv, CollectPersisting, Iterate("persisting", Len(diff.Persisting)),
         persisting' = persisting \cup {Key(diff.Persisting[i])}
  PROVE  SoFar'
<1>1. "persisting" \in Loops /\ Stage("persisting") = 6 /\ LoopTypes
  BY StageIs DEF Loops, LoopInv
<1>2. UNCHANGED <<cur, old, only, compare, array, len, baseSet, curSet, diff, out, worst>>
  BY DEF CollectPersisting
<1>3. /\ Passed("persisting", Len(diff.Persisting)) = i - 1
      /\ Passed("persisting", Len(diff.Persisting))' = i
      /\ Passed("filter", Len(cur))' = Passed("filter", Len(cur))
      /\ Passed("base", Len(old))' = Passed("base", Len(old))
      /\ Passed("cur", len)' = Passed("cur", len)
      /\ Passed("split", len)' = Passed("split", len)
      /\ Passed("cleared", Len(old))' = Passed("cleared", Len(old))
      /\ Passed("mark", len)' = Passed("mark", len)
      /\ Passed("worst", Len(RenderedSlice))' = Passed("worst", Len(RenderedSlice))
  BY <1>1, <1>2, IterateCounts
<1>4. ASSUME compare PROVE PersistingKeys'
  <2>1. PICK c \in Nat : i = c + 1
    BY <1>1, IndexBefore
  <2>2. persisting = Keys(Elements(diff.Persisting, c))
    <3>1. Passed("persisting", Len(diff.Persisting)) = c
      BY <1>3, <2>1
    <3> QED
      BY <1>4, <3>1, ComparisonParts DEF LoopInv, LoopsAgree, PersistingKeys
  <2>3. persisting' = Keys(Elements(diff.Persisting, c + 1))
    BY <2>1, <2>2, ElementsAdd, KeysAdd
  <2>4. Passed("persisting", Len(diff.Persisting))' = c + 1
    BY <1>3, <2>1
  <2> QED
    BY <1>2, <2>3, <2>4 DEF PersistingKeys
<1>5. ComparisonInOrder'
  <2> SUFFICES ASSUME compare PROVE ComparisonInOrder'
    BY <1>2 DEF ComparisonInOrder
  <2>1. BaseKeys' /\ CurKeys' /\ NewPart' /\ PersistingPart' /\ ClearedPart'
    BY <1>2, <1>3, ComparisonParts
    DEF LoopInv, LoopsAgree, BaseKeys, CurKeys, NewPart, PersistingPart, ClearedPart
  <2> QED
    BY <1>4, <2>1 DEF ComparisonInOrder, BaseKeys, CurKeys, NewPart, PersistingPart,
                      ClearedPart, PersistingKeys
<1> QED
  BY <1>2, <1>3, <1>5, FrameCompaction, FrameMarking, FrameWorst
  DEF LoopInv, LoopsAgree, SoFar, WorstIsMostSevere, WorstSoFar

(* Marking one finding more. *)
LEMMA BaselineAdd ==
  ASSUME NEW S, NEW B, NEW f
  PROVE  applyBaseline(S \cup {f}, B) =
           applyBaseline(S, B) \cup {IF Key(f) \in Keys(B) THEN Tagged(f) ELSE f}
<1>1. applyBaseline(S, B) = {IF Key(g) \in Keys(B) THEN Tagged(g) ELSE g : g \in S}
  BY BaselineElements
<1>2. applyBaseline(S \cup {f}, B)
        = {IF Key(g) \in Keys(B) THEN Tagged(g) ELSE g : g \in S \cup {f}}
  BY BaselineElements
<1> QED
  BY <1>1, <1>2

(* Each finding is marked in its place. *)
LEMMA MarkStep ==
  ASSUME LoopInv, Mark, Iterate("mark", len),
         out' = Append(out, IF Key(array[i]) \in persisting THEN Tagged(array[i]) ELSE array[i])
  PROVE  SoFar'
<1>1. "mark" \in Loops /\ Stage("mark") = 7 /\ LoopTypes
  BY StageIs DEF Loops, LoopInv
<1>2. UNCHANGED <<cur, old, only, compare, array, len, baseSet, curSet, diff, persisting, worst>>
  BY DEF Mark
<1>3. /\ Passed("mark", len) = i - 1 /\ Passed("mark", len)' = i
      /\ Passed("filter", Len(cur))' = Passed("filter", Len(cur))
      /\ Passed("base", Len(old))' = Passed("base", Len(old))
      /\ Passed("cur", len)' = Passed("cur", len)
      /\ Passed("split", len)' = Passed("split", len)
      /\ Passed("cleared", Len(old))' = Passed("cleared", Len(old))
      /\ Passed("persisting", Len(diff.Persisting))' = Passed("persisting", Len(diff.Persisting))
      /\ Passed("worst", Len(RenderedSlice))' = Passed("worst", Len(RenderedSlice))
  BY <1>1, <1>2, IterateCounts
<1>4. /\ Passed("split", len) = len
      /\ Passed("persisting", Len(diff.Persisting)) = Len(diff.Persisting)
      /\ Passed("worst", Len(RenderedSlice)) = 0
  BY StageIs DEF Passed, Iterate
<1>5. MarkingKeepsStatuses'
  <2> SUFFICES ASSUME compare PROVE MarkingKeepsStatuses'
    BY <1>2 DEF MarkingKeepsStatuses
  <2>1. PICK c \in Nat : i = c + 1
    BY <1>1, IndexBefore
  <2>2. /\ c + 1 \in 1..len /\ len \in Nat /\ Len(diff.Persisting) \in Nat
        /\ out \in Seq(FindingSet)
    BY <2>1 DEF Iterate, LoopInv, LoopTypes
  <2> DEFINE parts == Compare(All(old), Elements(array, len))
             f == array[c + 1]
             g == IF Key(f) \in Keys(All(old)) THEN Tagged(f) ELSE f
  <2>3. f \in Elements(array, len) /\ f \in FindingSet
    BY <2>2 DEF Elements, LoopInv, LoopTypes
  <2>4. persisting = Keys(parts.Persisting)
    <3>1. Picks(diff.Persisting, Len(diff.Persisting), array, len, parts.Persisting)
      BY <1>4, ComparisonParts DEF LoopInv, LoopsAgree, PersistingPart
    <3>2. Elements(diff.Persisting, Len(diff.Persisting))
            = {h \in Elements(array, len) : h \in parts.Persisting}
      BY <2>2, <3>1, PicksElements
    <3>3. Elements(diff.Persisting, Len(diff.Persisting)) = parts.Persisting
      BY <3>2, CompareIs
    <3> QED
      BY <1>4, <3>3, ComparisonParts DEF LoopInv, LoopsAgree, PersistingKeys
  <2>5. Key(f) \in persisting <=> Key(f) \in Keys(All(old))
    BY <2>3, <2>4, CompareIs DEF Keys
  <2>6. /\ g \in FindingSet /\ g.status = f.status
        /\ Key(f) \in Keys(All(old)) <=> g # f
    <3>1. f.resource.tags \in Nat
      BY <2>3 DEF FindingSet, Resource
    <3>2. Tagged(f).resource.tags = f.resource.tags + 1
      BY <2>3, TaggedType
    <3>3. Tagged(f) # f
      <4>1. f.resource.tags + 1 # f.resource.tags
        BY <3>1
      <4> QED
        BY <3>2, <4>1
    <3> QED
      BY <2>3, <3>3, TaggedType
  <2> HIDE DEF parts, f, g
  <2>7. out' = Append(out, g)
    <3>1. out' = Append(out, IF Key(f) \in persisting THEN Tagged(f) ELSE f)
      BY <2>1 DEF f
    <3> QED
      BY <2>5, <3>1 DEF g
  <2>8. Len(out) = c
    <3>1. Passed("mark", len) = c
      BY <1>3, <2>1
    <3> QED
      BY <3>1 DEF LoopInv, LoopsAgree, MarkingKeepsStatuses
  <2>9. /\ Len(out') = c + 1 /\ out'[c + 1] = g
        /\ \A j \in 1..c : out'[j] = out[j]
    BY <2>2, <2>6, <2>7, <2>8
  <2>10. Passed("mark", len)' = c + 1
    BY <1>3, <2>1
  <2>11. Elements(out', c + 1) = applyBaseline(Elements(array, c + 1), All(old))
    <3>1. Elements(out', c) = Elements(out, c)
      BY <2>9 DEF Elements
    <3>2. Elements(out', c + 1) = Elements(out, c) \cup {g}
      BY <2>9, <3>1, ElementsAdd
    <3>3. Elements(out, c) = applyBaseline(Elements(array, c), All(old))
      BY <2>8 DEF LoopInv, LoopsAgree, MarkingKeepsStatuses, All
    <3>4. Elements(array, c + 1) = Elements(array, c) \cup {f}
      BY ElementsAdd DEF f
    <3>5. applyBaseline(Elements(array, c) \cup {f}, All(old))
            = applyBaseline(Elements(array, c), All(old)) \cup {g}
      BY BaselineAdd DEF g
    <3> QED
      BY <3>2, <3>3, <3>4, <3>5
  <2>12. ASSUME NEW j \in 1..(c + 1)
         PROVE  /\ out'[j].status = array[j].status
                /\ Key(array[j]) \in Keys(All(old)) <=> out'[j] # array[j]
    <3>1. CASE j = c + 1
      BY <2>6, <2>9, <3>1 DEF f
    <3>2. CASE j # c + 1
      <4>1. j \in 1..c
        BY <3>2
      <4> QED
        BY <2>8, <2>9, <4>1 DEF LoopInv, LoopsAgree, MarkingKeepsStatuses
    <3> QED
      BY <3>1, <3>2
  <2>13. (Len(out) = Passed("mark", len))'
    BY <2>9, <2>10
  <2>14. (All(out) = applyBaseline(Elements(array, Len(out)), All(old)))'
    BY <1>2, <2>9, <2>11 DEF All
  <2>15. (\A j \in 1..Len(out) : /\ out[j].status = array[j].status
                                 /\ Key(array[j]) \in Keys(All(old)) <=> out[j] # array[j])'
    BY <1>2, <2>9, <2>12
  <2> QED
    BY <2>13, <2>14, <2>15 DEF MarkingKeepsStatuses
<1>6. WorstSoFar'
  <2>1. Passed("worst", Len(RenderedSlice))' = 0
    BY <1>3, <1>4
  <2>2. worst = Worst({})
    BY <1>4, ElementsNone DEF LoopInv, LoopsAgree, WorstIsMostSevere
  <2> QED
    BY <1>2, <2>1, <2>2, ElementsNone DEF WorstSoFar
<1> QED
  BY <1>2, <1>3, <1>5, <1>6, FrameCompaction, FrameComparison
  DEF LoopInv, LoopsAgree, SoFar

(* A finding replaces the worst status when it is more severe. *)
LEMMA WorstAdd ==
  ASSUME NEW S, \A f \in S : f.status \in Status, NEW g, g.status \in Status
  PROVE  Worst(S \cup {g}) = IF rank(g.status) > rank(Worst(S)) THEN g.status ELSE Worst(S)
<1> DEFINE T == S \cup {g}
<1>1. \A s : Has(T, s) <=> Has(S, s) \/ g.status = s
  BY DEF Has
<1>2. \A f \in T : f.status \in Status
  OBVIOUS
<1> HIDE DEF T
<1>3. Worst(T) = IF Has(T, "CRIT") THEN "CRIT" ELSE IF Has(T, "WARN") THEN "WARN"
                 ELSE IF Has(T, "UNKNOWN") THEN "UNKNOWN" ELSE "OK"
  BY <1>2, WorstIs
<1>4. Worst(S) = IF Has(S, "CRIT") THEN "CRIT" ELSE IF Has(S, "WARN") THEN "WARN"
                 ELSE IF Has(S, "UNKNOWN") THEN "UNKNOWN" ELSE "OK"
  BY WorstIs
<1>5. /\ rank("CRIT") = 3 /\ rank("WARN") = 2 /\ rank("UNKNOWN") = 1
      /\ rank("OK") = 0 /\ rank("SKIP") = 0
  BY DEF rank
<1> QED
  BY <1>1, <1>3, <1>4, <1>5 DEF Status, T

(* The running worst takes one finding more into account. *)
LEMMA FindWorstStep ==
  ASSUME LoopInv, FindWorst, Iterate("worst", Len(RenderedSlice)),
         worst' = IF rank(RenderedSlice[i].status) > rank(worst) THEN RenderedSlice[i].status ELSE worst
  PROVE  SoFar'
<1>1. "worst" \in Loops /\ Stage("worst") = 8 /\ LoopTypes
  BY StageIs DEF Loops, LoopInv
<1>2. UNCHANGED <<cur, old, only, compare, array, len, baseSet, curSet, diff, persisting, out>>
  BY DEF FindWorst
<1>3. RenderedSlice' = RenderedSlice
  BY <1>2 DEF RenderedSlice
<1>4. /\ Passed("worst", Len(RenderedSlice)) = i - 1 /\ Passed("worst", Len(RenderedSlice))' = i
      /\ Passed("filter", Len(cur))' = Passed("filter", Len(cur))
      /\ Passed("base", Len(old))' = Passed("base", Len(old))
      /\ Passed("cur", len)' = Passed("cur", len)
      /\ Passed("split", len)' = Passed("split", len)
      /\ Passed("cleared", Len(old))' = Passed("cleared", Len(old))
      /\ Passed("persisting", Len(diff.Persisting))' = Passed("persisting", Len(diff.Persisting))
      /\ Passed("mark", len)' = Passed("mark", len)
  BY <1>1, <1>2, <1>3, IterateCounts
<1>5. WorstSoFar'
  <2>1. PICK c \in Nat : i = c + 1
    BY <1>1, IndexBefore
  <2>2. RenderedSlice \in Seq(FindingSet) /\ c + 1 \in 1..Len(RenderedSlice)
    BY <1>1, <2>1, RenderedType DEF Iterate
  <2>3. \A j \in 1..(c + 1) : RenderedSlice[j] \in FindingSet
    BY <2>2
  <2>4. \A j \in 1..(c + 1) : RenderedSlice[j].status \in Status
    BY <2>3 DEF FindingSet
  <2>5. worst = Worst(Elements(RenderedSlice, c))
    <3>1. Passed("worst", Len(RenderedSlice)) = c
      BY <1>4, <2>1
    <3> QED
      BY <3>1 DEF LoopInv, LoopsAgree, WorstIsMostSevere
  <2>6. \A f \in Elements(RenderedSlice, c) : f.status \in Status
    BY <2>4 DEF Elements
  <2>7. RenderedSlice[c + 1].status \in Status
    BY <2>4
  <2>8. worst' = Worst(Elements(RenderedSlice, c) \cup {RenderedSlice[c + 1]})
    BY <2>1, <2>5, <2>6, <2>7, WorstAdd
  <2>9. worst' = Worst(Elements(RenderedSlice, c + 1))
    BY <2>8, ElementsAdd
  <2>10. Passed("worst", Len(RenderedSlice))' = c + 1
    BY <1>4, <2>1
  <2> QED
    BY <1>3, <2>9, <2>10 DEF WorstSoFar
<1> QED
  BY <1>2, <1>4, <1>5, FrameCompaction, FrameComparison, FrameMarking
  DEF LoopInv, LoopsAgree, SoFar

(* The compaction: the element it reads is still the report's, because it  *)
(* has written no further than it has read.                                *)
LEMMA FilterStep ==
  ASSUME LoopInv, Filter, Iterate("filter", Len(cur)),
         IF array[i].status # "OK" /\ array[i].status # "SKIP"
         THEN /\ array' = [array EXCEPT ![len + 1] = array[i]]
              /\ len' = len + 1
         ELSE UNCHANGED <<array, len>>
  PROVE  SoFar' /\ array' \in Seq(FindingSet) /\ Len(array') = Len(cur) /\ len' \in 0..Len(cur)
<1>1. "filter" \in Loops /\ Stage("filter") = 1 /\ LoopTypes /\ only
  BY StageIs DEF Loops, LoopInv, Route, Iterate
<1>2. UNCHANGED <<cur, old, only, compare, baseSet, curSet, diff, persisting, out, worst>>
  BY DEF Filter
<1>3. /\ Passed("filter", Len(cur)) = i - 1 /\ Passed("filter", Len(cur))' = i
      /\ Passed("base", Len(old))' = Passed("base", Len(old))
      /\ Passed("cur", len)' = Passed("cur", len)
      /\ Passed("split", len)' = Passed("split", len)
      /\ Passed("cleared", Len(old))' = Passed("cleared", Len(old))
      /\ Passed("persisting", Len(diff.Persisting))' = Passed("persisting", Len(diff.Persisting))
      /\ Passed("mark", len)' = Passed("mark", len)
      /\ Passed("worst", Len(RenderedSlice))' = Passed("worst", Len(RenderedSlice))
  BY <1>1, <1>2, IterateCounts
<1>4. /\ Passed("base", Len(old)) = 0 /\ Passed("cur", len) = 0
      /\ Passed("split", len) = 0 /\ Passed("cleared", Len(old)) = 0
      /\ Passed("persisting", Len(diff.Persisting)) = 0
      /\ Passed("mark", len) = 0 /\ Passed("worst", Len(RenderedSlice)) = 0
  BY StageIs DEF Passed, Iterate
<1>5. /\ CompactionInPlaceIsSafe'
      /\ array' \in Seq(FindingSet) /\ Len(array') = Len(cur) /\ len' \in 0..Len(cur)
  <2>1. PICK c \in Nat : i = c + 1
    BY <1>1, IndexBefore
  <2>2. PICK m \in Nat : m = len
    BY <1>1 DEF LoopTypes
  <2>3. /\ c + 1 \in 1..Len(cur) /\ Len(cur) \in Nat /\ Len(array) = Len(cur)
        /\ cur \in Seq(FindingSet) /\ array \in Seq(FindingSet)
    BY <1>1, <2>1 DEF Iterate, LoopTypes
  <2> DEFINE P == applyOnlyUnhealthy(All(cur), TRUE)
             f == cur[c + 1]
  <2>4. Picks(array, m, cur, c, P) /\ \A j \in 1..Len(cur) : j > m => array[j] = cur[j]
    <3>1. Passed("filter", Len(cur)) = c
      BY <1>3, <2>1
    <3> QED
      BY <1>1, <2>2, <3>1 DEF LoopInv, LoopsAgree, CompactionInPlaceIsSafe
  <2>5. m <= c
    BY <2>4 DEF Picks
  <2>6. array[c + 1] = f /\ f \in FindingSet
    BY <2>3, <2>4, <2>5
  <2>7. f \in P <=> f.status # "OK" /\ f.status # "SKIP"
    BY <2>3 DEF All, Elements, applyOnlyUnhealthy
  <2>8. Passed("filter", Len(cur))' = c + 1
    BY <1>3, <2>1
  <2> HIDE DEF P, f
  <2>9. CASE f \in P
    <3>1. array' = [array EXCEPT ![m + 1] = f] /\ len' = m + 1
      BY <2>1, <2>2, <2>6, <2>7, <2>9
    <3>2. m + 1 \in 1..Len(array)
      BY <2>3, <2>5
    <3>3. /\ array' \in Seq(FindingSet) /\ Len(array') = Len(cur)
          /\ array'[m + 1] = f /\ \A j \in 1..Len(cur) : j # m + 1 => array'[j] = array[j]
      BY <2>3, <2>6, <3>1, <3>2
    <3>4. \A j \in 1..m : j \in 1..Len(cur) /\ j # m + 1
      BY <2>3, <2>5
    <3>5. Picks(array', m + 1, cur, c + 1, P)
      BY <2>4, <2>9, <3>3, <3>4, PicksAdd DEF f
    <3>6. \A j \in 1..Len(cur) : j > m + 1 => array'[j] = cur[j]
      BY <2>3, <2>4, <3>3
    <3>7. CompactionInPlaceIsSafe'
      BY <1>1, <1>2, <2>8, <3>1, <3>5, <3>6 DEF CompactionInPlaceIsSafe, P
    <3> QED
      BY <2>3, <3>1, <3>2, <3>3, <3>7
  <2>10. CASE f \notin P
    <3>1. array' = array /\ len' = m
      BY <2>1, <2>2, <2>6, <2>7, <2>10
    <3>2. Picks(array, m, cur, c + 1, P)
      BY <2>4, <2>10, PicksSkip DEF f
    <3>3. CompactionInPlaceIsSafe'
      BY <1>1, <1>2, <2>4, <2>8, <3>1, <3>2 DEF CompactionInPlaceIsSafe, P
    <3> QED
      BY <2>3, <2>5, <3>1, <3>3
  <2> QED
    BY <2>9, <2>10
<1>6. ComparisonInOrder'
  <2> SUFFICES ASSUME compare PROVE ComparisonInOrder'
    BY <1>2 DEF ComparisonInOrder
  <2>1. /\ baseSet = Keys({}) /\ curSet = Keys({}) /\ persisting = Keys({})
        /\ Picks(diff.New, Len(diff.New), array, 0, Compare(All(old), Elements(array, len)).New)
        /\ Picks(diff.Persisting, Len(diff.Persisting), array, 0,
                 Compare(All(old), Elements(array, len)).Persisting)
        /\ Picks(diff.Cleared, Len(diff.Cleared), old, 0,
                 Compare(All(old), Elements(array, len)).Cleared)
    BY <1>4, ElementsNone, ComparisonParts
    DEF LoopInv, LoopsAgree, BaseKeys, CurKeys, NewPart, PersistingPart, ClearedPart, PersistingKeys
  <2>2. Len(diff.New) = 0 /\ Len(diff.Persisting) = 0 /\ Len(diff.Cleared) = 0
    <3>1. Len(diff.New) \in Nat /\ Len(diff.Persisting) \in Nat /\ Len(diff.Cleared) \in Nat
      BY <1>1 DEF LoopTypes
    <3>2. Len(diff.New) <= 0 /\ Len(diff.Persisting) <= 0 /\ Len(diff.Cleared) <= 0
      BY <2>1 DEF Picks
    <3> QED
      BY <3>1, <3>2
  <2>3. BaseKeys' /\ CurKeys' /\ PersistingKeys'
    BY <1>2, <1>3, <1>4, <2>1, ElementsNone DEF BaseKeys, CurKeys, PersistingKeys
  <2>4. NewPart' /\ PersistingPart' /\ ClearedPart'
    BY <1>2, <1>3, <1>4, <2>2, PicksStart DEF NewPart, PersistingPart, ClearedPart
  <2> QED
    BY <2>3, <2>4 DEF ComparisonInOrder, BaseKeys, CurKeys, NewPart, PersistingPart,
                      ClearedPart, PersistingKeys
<1>7. MarkingKeepsStatuses'
  <2> SUFFICES ASSUME compare PROVE MarkingKeepsStatuses'
    BY <1>2 DEF MarkingKeepsStatuses
  <2>1. Len(out) = 0 /\ Len(out)' = 0
    BY <1>2, <1>4 DEF LoopInv, LoopsAgree, MarkingKeepsStatuses
  <2>2. All(out)' = {} /\ Elements(array', 0) = {}
    BY <2>1, ElementsNone DEF All
  <2>3. \A B : applyBaseline({}, B) = {}
    BY BaselineElements
  <2>4. \A j \in 1..0 : FALSE
    OBVIOUS
  <2> QED
    BY <1>2, <1>3, <1>4, <2>1, <2>2, <2>3, <2>4 DEF MarkingKeepsStatuses
<1>8. WorstSoFar'
  <2>1. Passed("worst", Len(RenderedSlice))' = 0
    BY <1>3, <1>4
  <2>2. worst = Worst({})
    BY <1>4, ElementsNone DEF LoopInv, LoopsAgree, WorstIsMostSevere
  <2> QED
    BY <1>2, <2>1, <2>2, ElementsNone DEF WorstSoFar
<1> QED
  BY <1>5, <1>6, <1>7, <1>8 DEF SoFar
-----------------------------------------------------------------------------
(* In the end the worst status is that of what the checks returned: the    *)
(* filter drops only what weighs nothing, and marking keeps the statuses.  *)
LEMMA EndAgrees ==
  ASSUME LoopTypes, Route, SoFar
  PROVE  LoopsAgree
<1> SUFFICES ASSUME loop = "done" PROVE worst = Worst(All(cur))
  BY DEF SoFar, LoopsAgree, WorstIsMostSevere, WorstSoFar
<1>1. /\ Passed("filter", Len(cur)) = Len(cur) /\ Passed("mark", len) = len
      /\ Passed("worst", Len(RenderedSlice)) = Len(RenderedSlice)
  BY StageIs DEF Passed
<1>2. len \in Nat /\ Len(cur) \in Nat /\ cur \in Seq(FindingSet) /\ RenderedSlice \in Seq(FindingSet)
  BY RenderedType DEF LoopTypes
<1>3. /\ \A f \in All(cur) : f.status \in Status
      /\ \A f \in All(RenderedSlice) : f.status \in Status
  <2>1. /\ \A j \in 1..Len(cur) : cur[j] \in FindingSet
        /\ \A j \in 1..Len(RenderedSlice) : RenderedSlice[j] \in FindingSet
    BY <1>2
  <2>2. \A f \in FindingSet : f.status \in Status
    BY DEF FindingSet
  <2> QED
    BY <2>1, <2>2 DEF All, Elements
<1>4. ASSUME NEW s \in {"CRIT", "WARN", "UNKNOWN"}
      PROVE  Has(Elements(array, len), s) <=> Has(All(cur), s)
  <2>1. CASE only
    <3> DEFINE P == applyOnlyUnhealthy(All(cur), TRUE)
    <3>1. Picks(array, len, cur, Len(cur), P)
      BY <1>1, <2>1 DEF SoFar, CompactionInPlaceIsSafe
    <3> HIDE DEF P
    <3>2. Elements(array, len) = {f \in Elements(cur, Len(cur)) : f \in P}
      BY <1>2, <3>1, PicksElements
    <3> QED
      BY <3>2 DEF applyOnlyUnhealthy, Has, All, P
  <2>2. CASE ~ only
    <3>1. Elements(array, len) = All(cur)
      BY <2>2 DEF SoFar, CompactionInPlaceIsSafe, Elements, All
    <3> QED
      BY <3>1
  <2> QED
    BY <2>1, <2>2
<1>5. ASSUME NEW s
      PROVE  Has(All(RenderedSlice), s) <=> Has(Elements(array, len), s)
  <2>1. Len(RenderedSlice) = len /\ \A j \in 1..len : RenderedSlice[j].status = array[j].status
    <3>1. CASE compare
      BY <1>1, <3>1 DEF SoFar, MarkingKeepsStatuses, RenderedSlice
    <3>2. CASE ~ compare
      BY <3>2, RenderedType
    <3> QED
      BY <3>1, <3>2
  <2> QED
    BY <2>1 DEF Has, All, Elements
<1>6. \A s \in {"CRIT", "WARN", "UNKNOWN"} : Has(All(RenderedSlice), s) <=> Has(All(cur), s)
  BY <1>4, <1>5
<1>7. Worst(All(RenderedSlice)) = Worst(All(cur))
  BY <1>3, <1>6, WorstIs
<1> QED
  BY <1>1, <1>7 DEF SoFar, WorstSoFar, All

(* Before the first loop nothing is done yet. *)
LEMMA LoopsInit == LoopInit => LoopInv
<1> SUFFICES ASSUME LoopInit PROVE LoopInv
  OBVIOUS
<1>1. LoopTypes
  <2>1. cur \in Seq(FindingSet) /\ old \in Seq(FindingSet)
    <3>1. <<>> \in Seq(FindingSet)
      OBVIOUS
    <3>2. cur \in Seq(FindingSet) /\ (old \in Seq(FindingSet) \/ old = <<>>)
      BY ReportsAssumption DEF LoopInit
    <3> QED
      BY <3>1, <3>2
  <2>2. loop \in Loops /\ i \in Nat \ {0}
    BY DEF LoopInit, Loops, AfterFilter
  <2>3. array = cur /\ len \in 0..Len(cur)
    BY <2>1 DEF LoopInit
  <2>4. /\ diff \in [New : Seq(FindingSet), Persisting : Seq(FindingSet), Cleared : Seq(FindingSet)]
        /\ out \in Seq(FindingSet)
    BY DEF LoopInit
  <2> QED
    BY <2>1, <2>2, <2>3, <2>4 DEF LoopInit, LoopTypes
<1>2. i = 1 /\ loop = IF only THEN "filter" ELSE IF compare THEN "base" ELSE "worst"
  BY DEF LoopInit, AfterFilter
<1>3. Route
  <2>1. Len(cur) \in Nat /\ Len(old) \in Nat /\ len \in Nat /\ Len(RenderedSlice) \in Nat
    BY <1>1, RenderedType DEF LoopTypes
  <2> QED
    BY <1>1, <1>2, <2>1, StageIs DEF Route, LoopTypes
<1>4. /\ only => Passed("filter", Len(cur)) = 0
      /\ Passed("worst", Len(RenderedSlice)) = 0
  BY <1>1, <1>2, StageIs DEF Passed, LoopTypes
<1>5. ASSUME compare
      PROVE  /\ Passed("base", Len(old)) = 0 /\ Passed("cur", len) = 0 /\ Passed("split", len) = 0
             /\ Passed("cleared", Len(old)) = 0 /\ Passed("persisting", Len(diff.Persisting)) = 0
             /\ Passed("mark", len) = 0
  BY <1>2, <1>5, StageIs DEF Passed
<1>6. CompactionInPlaceIsSafe
  <2>1. only => Picks(array, len, cur, 0, applyOnlyUnhealthy(All(cur), TRUE))
    BY PicksStart DEF LoopInit
  <2> QED
    BY <1>1, <1>4, <2>1 DEF CompactionInPlaceIsSafe, LoopInit, LoopTypes
<1>7. ComparisonInOrder
  <2> SUFFICES ASSUME compare
               PROVE  /\ BaseKeys /\ CurKeys /\ NewPart /\ PersistingPart /\ ClearedPart
                      /\ PersistingKeys
    BY ComparisonParts
  <2>1. baseSet = {} /\ curSet = {} /\ persisting = {} /\ Keys({}) = {}
    BY DEF LoopInit, Keys
  <2>2. Len(diff.New) = 0 /\ Len(diff.Persisting) = 0 /\ Len(diff.Cleared) = 0
    BY DEF LoopInit
  <2>3. BaseKeys /\ CurKeys /\ PersistingKeys
    BY <1>5, <2>1, ElementsNone DEF BaseKeys, CurKeys, PersistingKeys
  <2>4. NewPart /\ PersistingPart /\ ClearedPart
    BY <1>5, <2>2, PicksStart DEF NewPart, PersistingPart, ClearedPart
  <2> QED
    BY <2>3, <2>4
<1>8. MarkingKeepsStatuses
  <2>1. Len(out) = 0 /\ All(out) = {} /\ Elements(array, 0) = {}
    BY ElementsNone DEF LoopInit, All
  <2>2. \A B : applyBaseline({}, B) = {}
    BY BaselineElements
  <2>3. \A j \in 1..0 : FALSE
    OBVIOUS
  <2> QED
    BY <1>5, <2>1, <2>2, <2>3 DEF MarkingKeepsStatuses
<1>9. WorstSoFar
  <2>1. Worst({}) = "OK"
    BY WorstIs DEF Has
  <2> QED
    BY <1>4, <2>1, ElementsNone DEF WorstSoFar, LoopInit
<1> QED
  BY <1>1, <1>3, <1>6, <1>7, <1>8, <1>9, EndAgrees DEF LoopInv, SoFar

(* The first loop. *)
LEMMA FilterKeeps == LoopInv /\ Filter => LoopTypes' /\ Route' /\ SoFar'
<1> SUFFICES ASSUME LoopInv, Filter PROVE LoopTypes' /\ Route' /\ SoFar'
  OBVIOUS
<1>1. UNCHANGED <<cur, old, only, compare, baseSet, curSet, diff, persisting, out, worst>>
  BY DEF Filter
<1>2. CASE Iterate("filter", Len(cur))
  <2>1. IF array[i].status # "OK" /\ array[i].status # "SKIP"
        THEN /\ array' = [array EXCEPT ![len + 1] = array[i]]
             /\ len' = len + 1
        ELSE UNCHANGED <<array, len>>
    BY <1>2 DEF Filter, Iterate, Leave, LoopInv, LoopTypes
  <2>2. SoFar' /\ array' \in Seq(FindingSet) /\ Len(array') = Len(cur) /\ len' \in 0..Len(cur)
    BY <1>2, <2>1, FilterStep
  <2>3. loop = "filter" /\ loop' = "filter" /\ i' = i + 1 /\ i <= Len(cur)
    BY <1>2 DEF Iterate
  <2>4. LoopTypes'
    BY <1>1, <2>2, <2>3 DEF LoopInv, LoopTypes
  <2>5. Route'
    BY <1>1, <2>3, StageIs DEF LoopInv, LoopTypes, Route
  <2> QED
    BY <2>2, <2>4, <2>5
<1>3. CASE Leave("filter", Len(cur), AfterFilter)
  <2>1. UNCHANGED <<array, len>> /\ loop = "filter" /\ loop' = AfterFilter /\ i' = 1
    BY <1>3 DEF Filter, Iterate, Leave, LoopInv, LoopTypes
  <2>2. LoopTypes'
    BY <1>1, <2>1 DEF LoopInv, LoopTypes, Loops, AfterFilter
  <2>3. Len(RenderedSlice)' \in Nat
    BY <1>1, <2>1, RenderedType DEF LoopInv, RenderedSlice
  <2>4. Route'
    BY <1>1, <2>1, <2>2, <2>3, StageIs DEF LoopTypes, Route, AfterFilter
  <2>5. AfterFilter \in Loops /\ Stage(AfterFilter) = IF compare THEN 2 ELSE 8
    BY StageIs DEF AfterFilter, Loops
  <2>6. Len(cur) \in Nat /\ i <= Len(cur) + 1 /\ "filter" \in Loops
    BY <2>1 DEF LoopInv, LoopTypes, Route, Loops
  <2>7. SoFar'
    BY <1>1, <1>3, <2>1, <2>5, <2>6, LeaveStep, StageIs DEF AfterFilter
  <2> QED
    BY <2>2, <2>4, <2>7
<1> QED
  BY <1>2, <1>3 DEF Filter

(* The four loops of Compare, each iterating or left for the next one. *)
LEMMA CompareBaseKeeps == LoopInv /\ CompareBase => LoopTypes' /\ Route' /\ SoFar'
<1> SUFFICES ASSUME LoopInv, CompareBase PROVE LoopTypes' /\ Route' /\ SoFar'
  OBVIOUS
<1>1. UNCHANGED <<cur, old, only, compare, array, len, curSet, diff, persisting, out, worst>>
  BY DEF CompareBase
<1>2. CASE Iterate("base", Len(old))
  <2>1. baseSet' = baseSet \cup {Key(old[i])}
    BY <1>2 DEF CompareBase, Iterate, Leave, LoopInv, LoopTypes
  <2>2. SoFar'
    BY <1>2, <2>1, CompareBaseStep
  <2>3. loop = "base" /\ loop' = "base" /\ i' = i + 1 /\ i <= Len(old)
    BY <1>2 DEF Iterate
  <2>5. LoopTypes'
    BY <1>1, <2>3 DEF LoopInv, LoopTypes
  <2>7. Route'
    BY <1>1, <2>3, StageIs DEF LoopInv, LoopTypes, Route
  <2> QED
    BY <2>2, <2>5, <2>7
<1>3. CASE Leave("base", Len(old), "cur")
  <2>1. UNCHANGED baseSet /\ loop = "base" /\ loop' = "cur" /\ i' = 1
    BY <1>3 DEF CompareBase, Iterate, Leave, LoopInv, LoopTypes
  <2>2. LoopTypes'
    BY <1>1, <2>1 DEF LoopInv, LoopTypes, Loops
  <2>3. Len(RenderedSlice) \in Nat /\ RenderedSlice' = RenderedSlice
    BY <1>1, <2>1, RenderedType DEF LoopInv, RenderedSlice
  <2>4. Route'
    BY <1>1, <2>1, <2>2, <2>3, StageIs DEF LoopInv, LoopTypes, Route
  <2>5. Len(old) \in Nat /\ i <= Len(old) + 1 /\ "base" \in Loops /\ "cur" \in Loops
    BY <2>1, <2>3 DEF LoopInv, LoopTypes, Route, Loops
  <2>6. compare
    BY <2>1, StageIs DEF LoopInv, Route
  <2>7. SoFar'
    BY <1>1, <1>3, <2>1, <2>5, <2>6, LeaveStep, StageIs
  <2> QED
    BY <2>2, <2>4, <2>7
<1> QED
  BY <1>2, <1>3 DEF CompareBase

(* The keys of the report. *)
LEMMA CompareCurKeeps == LoopInv /\ CompareCur => LoopTypes' /\ Route' /\ SoFar'
<1> SUFFICES ASSUME LoopInv, CompareCur PROVE LoopTypes' /\ Route' /\ SoFar'
  OBVIOUS
<1>1. UNCHANGED <<cur, old, only, compare, array, len, baseSet, diff, persisting, out, worst>>
  BY DEF CompareCur
<1>2. CASE Iterate("cur", len)
  <2>1. curSet' = curSet \cup {Key(array[i])}
    BY <1>2 DEF CompareCur, Iterate, Leave, LoopInv, LoopTypes
  <2>2. SoFar'
    BY <1>2, <2>1, CompareCurStep
  <2>3. loop = "cur" /\ loop' = "cur" /\ i' = i + 1 /\ i <= len
    BY <1>2 DEF Iterate
  <2>5. LoopTypes'
    BY <1>1, <2>3 DEF LoopInv, LoopTypes
  <2>7. Route'
    BY <1>1, <2>3, StageIs DEF LoopInv, LoopTypes, Route
  <2> QED
    BY <2>2, <2>5, <2>7
<1>3. CASE Leave("cur", len, "split")
  <2>1. UNCHANGED curSet /\ loop = "cur" /\ loop' = "split" /\ i' = 1
    BY <1>3 DEF CompareCur, Iterate, Leave, LoopInv, LoopTypes
  <2>2. LoopTypes'
    BY <1>1, <2>1 DEF LoopInv, LoopTypes, Loops
  <2>3. Len(RenderedSlice) \in Nat /\ RenderedSlice' = RenderedSlice
    BY <1>1, <2>1, RenderedType DEF LoopInv, RenderedSlice
  <2>4. Route'
    BY <1>1, <2>1, <2>2, <2>3, StageIs DEF LoopInv, LoopTypes, Route
  <2>5. len \in Nat /\ i <= len + 1 /\ "cur" \in Loops /\ "split" \in Loops
    BY <2>1, <2>3 DEF LoopInv, LoopTypes, Route, Loops
  <2>6. compare
    BY <2>1, StageIs DEF LoopInv, Route
  <2>7. SoFar'
    BY <1>1, <1>3, <2>1, <2>5, <2>6, LeaveStep, StageIs
  <2> QED
    BY <2>2, <2>4, <2>7
<1> QED
  BY <1>2, <1>3 DEF CompareCur

(* The new and the persisting findings. *)
LEMMA CompareSplitKeeps == LoopInv /\ CompareSplit => LoopTypes' /\ Route' /\ SoFar'
<1> SUFFICES ASSUME LoopInv, CompareSplit PROVE LoopTypes' /\ Route' /\ SoFar'
  OBVIOUS
<1>1. UNCHANGED <<cur, old, only, compare, array, len, baseSet, curSet, persisting, out, worst>>
  BY DEF CompareSplit
<1>2. CASE Iterate("split", len)
  <2>1. IF Key(array[i]) \in baseSet
        THEN diff' = [diff EXCEPT !.Persisting = Append(@, array[i])]
        ELSE diff' = [diff EXCEPT !.New = Append(@, array[i])]
    BY <1>2 DEF CompareSplit, Iterate, Leave, LoopInv, LoopTypes
  <2>2. SoFar'
    BY <1>2, <2>1, CompareSplitStep
  <2>3. loop = "split" /\ loop' = "split" /\ i' = i + 1 /\ i <= len
    BY <1>2 DEF Iterate
  <2>4. diff' \in [New : Seq(FindingSet), Persisting : Seq(FindingSet), Cleared : Seq(FindingSet)]
    <3>1. array[i] \in FindingSet
      BY <2>3 DEF LoopInv, LoopTypes
    <3>2. diff \in [New : Seq(FindingSet), Persisting : Seq(FindingSet), Cleared : Seq(FindingSet)]
      BY DEF LoopInv, LoopTypes
    <3>3. Append(diff.New, array[i]) \in Seq(FindingSet)
          /\ Append(diff.Persisting, array[i]) \in Seq(FindingSet)
      BY <3>1, <3>2
    <3> QED
      BY <2>1, <3>2, <3>3
  <2>5. LoopTypes'
    BY <1>1, <2>3, <2>4 DEF LoopInv, LoopTypes
  <2>7. Route'
    BY <1>1, <2>3, StageIs DEF LoopInv, LoopTypes, Route
  <2> QED
    BY <2>2, <2>5, <2>7
<1>3. CASE Leave("split", len, "cleared")
  <2>1. UNCHANGED diff /\ loop = "split" /\ loop' = "cleared" /\ i' = 1
    BY <1>3 DEF CompareSplit, Iterate, Leave, LoopInv, LoopTypes
  <2>2. LoopTypes'
    BY <1>1, <2>1 DEF LoopInv, LoopTypes, Loops
  <2>3. Len(RenderedSlice) \in Nat /\ RenderedSlice' = RenderedSlice
    BY <1>1, <2>1, RenderedType DEF LoopInv, RenderedSlice
  <2>4. Route'
    BY <1>1, <2>1, <2>2, <2>3, StageIs DEF LoopInv, LoopTypes, Route
  <2>5. len \in Nat /\ i <= len + 1 /\ "split" \in Loops /\ "cleared" \in Loops
    BY <2>1, <2>3 DEF LoopInv, LoopTypes, Route, Loops
  <2>6. compare
    BY <2>1, StageIs DEF LoopInv, Route
  <2>7. SoFar'
    BY <1>1, <1>3, <2>1, <2>5, <2>6, LeaveStep, StageIs
  <2> QED
    BY <2>2, <2>4, <2>7
<1> QED
  BY <1>2, <1>3 DEF CompareSplit

(* The cleared ones. *)
LEMMA CompareClearedKeeps == LoopInv /\ CompareCleared => LoopTypes' /\ Route' /\ SoFar'
<1> SUFFICES ASSUME LoopInv, CompareCleared PROVE LoopTypes' /\ Route' /\ SoFar'
  OBVIOUS
<1>1. UNCHANGED <<cur, old, only, compare, array, len, baseSet, curSet, persisting, out, worst>>
  BY DEF CompareCleared
<1>2. CASE Iterate("cleared", Len(old))
  <2>1. IF Key(old[i]) \notin curSet
        THEN diff' = [diff EXCEPT !.Cleared = Append(@, old[i])]
        ELSE UNCHANGED diff
    BY <1>2 DEF CompareCleared, Iterate, Leave, LoopInv, LoopTypes
  <2>2. SoFar'
    BY <1>2, <2>1, CompareClearedStep
  <2>3. loop = "cleared" /\ loop' = "cleared" /\ i' = i + 1 /\ i <= Len(old)
    BY <1>2 DEF Iterate
  <2>4. diff' \in [New : Seq(FindingSet), Persisting : Seq(FindingSet), Cleared : Seq(FindingSet)]
    <3>1. old[i] \in FindingSet
      BY <2>3 DEF LoopInv, LoopTypes
    <3>2. diff \in [New : Seq(FindingSet), Persisting : Seq(FindingSet), Cleared : Seq(FindingSet)]
      BY DEF LoopInv, LoopTypes
    <3>3. Append(diff.Cleared, old[i]) \in Seq(FindingSet)
      BY <3>1, <3>2
    <3> QED
      BY <2>1, <3>2, <3>3
  <2>5. LoopTypes'
    BY <1>1, <2>3, <2>4 DEF LoopInv, LoopTypes
  <2>7. Route'
    BY <1>1, <2>3, StageIs DEF LoopInv, LoopTypes, Route
  <2> QED
    BY <2>2, <2>5, <2>7
<1>3. CASE Leave("cleared", Len(old), "persisting")
  <2>1. UNCHANGED diff /\ loop = "cleared" /\ loop' = "persisting" /\ i' = 1
    BY <1>3 DEF CompareCleared, Iterate, Leave, LoopInv, LoopTypes
  <2>2. LoopTypes'
    BY <1>1, <2>1 DEF LoopInv, LoopTypes, Loops
  <2>3. Len(RenderedSlice) \in Nat /\ RenderedSlice' = RenderedSlice
    BY <1>1, <2>1, RenderedType DEF LoopInv, RenderedSlice
  <2>4. Route'
    BY <1>1, <2>1, <2>2, <2>3, StageIs DEF LoopInv, LoopTypes, Route
  <2>5. Len(old) \in Nat /\ i <= Len(old) + 1 /\ "cleared" \in Loops /\ "persisting" \in Loops
    BY <2>1, <2>3 DEF LoopInv, LoopTypes, Route, Loops
  <2>6. compare
    BY <2>1, StageIs DEF LoopInv, Route
  <2>7. SoFar'
    BY <1>1, <1>3, <2>1, <2>5, <2>6, LeaveStep, StageIs
  <2> QED
    BY <2>2, <2>4, <2>7
<1> QED
  BY <1>2, <1>3 DEF CompareCleared

(* The two loops of applyBaseline: its map ... *)
LEMMA CollectPersistingKeeps == LoopInv /\ CollectPersisting => LoopTypes' /\ Route' /\ SoFar'
<1> SUFFICES ASSUME LoopInv, CollectPersisting PROVE LoopTypes' /\ Route' /\ SoFar'
  OBVIOUS
<1>1. UNCHANGED <<cur, old, only, compare, array, len, baseSet, curSet, diff, out, worst>>
  BY DEF CollectPersisting
<1>2. CASE Iterate("persisting", Len(diff.Persisting))
  <2>1. persisting' = persisting \cup {Key(diff.Persisting[i])}
    BY <1>2 DEF CollectPersisting, Iterate, Leave, LoopInv, LoopTypes
  <2>2. SoFar'
    BY <1>2, <2>1, CollectPersistingStep
  <2>3. loop = "persisting" /\ loop' = "persisting" /\ i' = i + 1 /\ i <= Len(diff.Persisting)
    BY <1>2 DEF Iterate
  <2>5. LoopTypes'
    BY <1>1, <2>3 DEF LoopInv, LoopTypes
  <2>7. Route'
    BY <1>1, <2>3, StageIs DEF LoopInv, LoopTypes, Route
  <2> QED
    BY <2>2, <2>5, <2>7
<1>3. CASE Leave("persisting", Len(diff.Persisting), "mark")
  <2>1. UNCHANGED persisting /\ loop = "persisting" /\ loop' = "mark" /\ i' = 1
    BY <1>3 DEF CollectPersisting, Iterate, Leave, LoopInv, LoopTypes
  <2>2. LoopTypes'
    BY <1>1, <2>1 DEF LoopInv, LoopTypes, Loops
  <2>3. Len(RenderedSlice) \in Nat /\ RenderedSlice' = RenderedSlice
    BY <1>1, <2>1, RenderedType DEF LoopInv, RenderedSlice
  <2>4. Route'
    BY <1>1, <2>1, <2>2, <2>3, StageIs DEF LoopInv, LoopTypes, Route
  <2>5. Len(diff.Persisting) \in Nat /\ i <= Len(diff.Persisting) + 1 /\ "persisting" \in Loops /\ "mark" \in Loops
    BY <2>1, <2>3 DEF LoopInv, LoopTypes, Route, Loops
  <2>6. compare
    BY <2>1, StageIs DEF LoopInv, Route
  <2>7. SoFar'
    BY <1>1, <1>3, <2>1, <2>5, <2>6, LeaveStep, StageIs
  <2> QED
    BY <2>2, <2>4, <2>7
<1> QED
  BY <1>2, <1>3 DEF CollectPersisting

(* ... and its slice. *)
LEMMA MarkKeeps == LoopInv /\ Mark => LoopTypes' /\ Route' /\ SoFar'
<1> SUFFICES ASSUME LoopInv, Mark PROVE LoopTypes' /\ Route' /\ SoFar'
  OBVIOUS
<1>1. UNCHANGED <<cur, old, only, compare, array, len, baseSet, curSet, diff, persisting, worst>>
  BY DEF Mark
<1>2. CASE Iterate("mark", len)
  <2>1. out' = Append(out, IF Key(array[i]) \in persisting
                           THEN Tagged(array[i]) ELSE array[i])
    BY <1>2 DEF Mark, Iterate, Leave, LoopInv, LoopTypes
  <2>2. SoFar'
    BY <1>2, <2>1, MarkStep
  <2>3. loop = "mark" /\ loop' = "mark" /\ i' = i + 1 /\ i <= len
    BY <1>2 DEF Iterate
  <2>4. out' \in Seq(FindingSet)
    <3>1. array[i] \in FindingSet /\ out \in Seq(FindingSet)
      BY <2>3 DEF LoopInv, LoopTypes
    <3>2. (IF Key(array[i]) \in persisting THEN Tagged(array[i]) ELSE array[i]) \in FindingSet
      BY <3>1, TaggedType
    <3> QED
      BY <2>1, <3>1, <3>2
  <2>5. LoopTypes'
    BY <1>1, <2>3, <2>4 DEF LoopInv, LoopTypes
  <2>7. Route'
    BY <1>1, <2>3, StageIs DEF LoopInv, LoopTypes, Route
  <2> QED
    BY <2>2, <2>5, <2>7
<1>3. CASE Leave("mark", len, "worst")
  <2>1. UNCHANGED out /\ loop = "mark" /\ loop' = "worst" /\ i' = 1
    BY <1>3 DEF Mark, Iterate, Leave, LoopInv, LoopTypes
  <2>2. LoopTypes'
    BY <1>1, <2>1 DEF LoopInv, LoopTypes, Loops
  <2>3. Len(RenderedSlice) \in Nat /\ RenderedSlice' = RenderedSlice
    BY <1>1, <2>1, RenderedType DEF LoopInv, RenderedSlice
  <2>4. Route'
    BY <1>1, <2>1, <2>2, <2>3, StageIs DEF LoopInv, LoopTypes, Route
  <2>5. len \in Nat /\ i <= len + 1 /\ "mark" \in Loops /\ "worst" \in Loops
    BY <2>1, <2>3 DEF LoopInv, LoopTypes, Route, Loops
  <2>6. compare
    BY <2>1, StageIs DEF LoopInv, Route
  <2>7. SoFar'
    BY <1>1, <1>3, <2>1, <2>5, <2>6, LeaveStep, StageIs
  <2> QED
    BY <2>2, <2>4, <2>7
<1> QED
  BY <1>2, <1>3 DEF Mark

(* The loop of Worst. *)
LEMMA FindWorstKeeps == LoopInv /\ FindWorst => LoopTypes' /\ Route' /\ SoFar'
<1> SUFFICES ASSUME LoopInv, FindWorst PROVE LoopTypes' /\ Route' /\ SoFar'
  OBVIOUS
<1>1. UNCHANGED <<cur, old, only, compare, array, len, baseSet, curSet, diff, persisting, out>>
  BY DEF FindWorst
<1>2. CASE Iterate("worst", Len(RenderedSlice))
  <2>1. worst' = IF rank(RenderedSlice[i].status) > rank(worst)
                 THEN RenderedSlice[i].status ELSE worst
    BY <1>2 DEF FindWorst, Iterate, Leave, LoopInv, LoopTypes
  <2>2. SoFar'
    BY <1>2, <2>1, FindWorstStep
  <2>3. loop = "worst" /\ loop' = "worst" /\ i' = i + 1 /\ i <= Len(RenderedSlice)
    BY <1>2 DEF Iterate
  <2>5. LoopTypes'
    BY <1>1, <2>3 DEF LoopInv, LoopTypes
  <2>6. RenderedSlice' = RenderedSlice
    BY <1>1 DEF RenderedSlice
  <2>7. Route'
    BY <1>1, <2>3, <2>6, StageIs DEF LoopInv, LoopTypes, Route
  <2> QED
    BY <2>2, <2>5, <2>7
<1>3. CASE Leave("worst", Len(RenderedSlice), "done")
  <2>1. UNCHANGED worst /\ loop = "worst" /\ loop' = "done" /\ i' = 1
    BY <1>3 DEF FindWorst, Iterate, Leave, LoopInv, LoopTypes
  <2>2. LoopTypes'
    BY <1>1, <2>1 DEF LoopInv, LoopTypes, Loops
  <2>3. Len(RenderedSlice) \in Nat /\ RenderedSlice' = RenderedSlice
    BY <1>1, <2>1, RenderedType DEF LoopInv, RenderedSlice
  <2>4. Route'
    BY <1>1, <2>1, <2>2, <2>3, StageIs DEF LoopInv, LoopTypes, Route
  <2>5. Len(RenderedSlice) \in Nat /\ i <= Len(RenderedSlice) + 1 /\ "worst" \in Loops /\ "done" \in Loops
    BY <2>1, <2>3 DEF LoopInv, LoopTypes, Route, Loops
  <2>6. SoFar'
    BY <1>1, <1>3, <2>1, <2>5, LeaveStep, StageIs
  <2> QED
    BY <2>2, <2>4, <2>6
<1> QED
  BY <1>2, <1>3 DEF FindWorst

(* Every step keeps the invariant. *)
LEMMA LoopsInductive == LoopInv /\ [LoopNext]_loopVars => LoopInv'
<1> SUFFICES ASSUME LoopInv, [LoopNext]_loopVars PROVE LoopInv'
  OBVIOUS
<1>1. CASE LoopNext
  <2>1. LoopTypes' /\ Route' /\ SoFar'
    BY <1>1, FilterKeeps, CompareBaseKeeps, CompareCurKeeps, CompareSplitKeeps,
       CompareClearedKeeps, CollectPersistingKeeps, MarkKeeps, FindWorstKeeps DEF LoopNext
  <2>2. LoopsAgree'
    BY <2>1, EndAgrees, PTL
  <2> QED
    BY <2>1, <2>2 DEF LoopInv
<1>2. CASE UNCHANGED loopVars
  BY <1>2 DEF loopVars, LoopInv, LoopTypes, Route, LoopsAgree, CompactionInPlaceIsSafe,
              ComparisonInOrder, MarkingKeepsStatuses, WorstIsMostSevere, RenderedSlice, Passed
<1> QED
  BY <1>1, <1>2

(* The invariant of the loops holds at every iteration. *)
THEOREM LoopsInvariant == LoopSpec => []LoopInv
  BY LoopsInit, LoopsInductive, PTL DEF LoopSpec

(* The loops over a report of any length, compared with a baseline of any  *)
(* length, amount at every iteration to what the definitions on sets say,  *)
(* although the first of them writes the array it reads.                   *)
THEOREM LoopsCorrect == LoopSpec => []LoopsAgree
<1>1. LoopInv => LoopsAgree
  BY DEF LoopInv
<1> QED
  BY LoopsInvariant, <1>1, PTL

(* What the loops leave to the renderer and to the exit code is what       *)
(* CheckCmd's steps make of the set of findings in one go: RunChecks and   *)
(* CompareBaseline the report, Render the exit code (check.go 36-62).      *)
LoopsImplementCommand ==
  loop = "done" =>
    LET filtered == applyOnlyUnhealthy(All(cur), only)
    IN /\ All(RenderedSlice) = IF compare THEN applyBaseline(filtered, All(old)) ELSE filtered
       /\ worst = Worst(All(RenderedSlice))

(* The loops implement the operations on sets that CheckCmd is made of.    *)
THEOREM LoopsImplement == LoopSpec => []LoopsImplementCommand
<1>1. LoopInv => LoopsImplementCommand
  <2> SUFFICES ASSUME LoopInv, loop = "done"
               PROVE  LET filtered == applyOnlyUnhealthy(All(cur), only)
                      IN /\ All(RenderedSlice) = IF compare THEN applyBaseline(filtered, All(old))
                                                ELSE filtered
                         /\ worst = Worst(All(RenderedSlice))
    BY DEF LoopsImplementCommand
  <2> DEFINE filtered == applyOnlyUnhealthy(All(cur), only)
  <2>1. /\ Passed("filter", Len(cur)) = Len(cur) /\ Passed("mark", len) = len
        /\ Passed("worst", Len(RenderedSlice)) = Len(RenderedSlice)
    BY StageIs DEF Passed
  <2>2. /\ len \in Nat /\ Len(cur) \in Nat /\ only \in BOOLEAN
        /\ ~ compare => Len(RenderedSlice) = len /\ \A j \in 1..len : RenderedSlice[j] = array[j]
    BY RenderedType DEF LoopInv, LoopTypes
  <2>3. Elements(array, len) = filtered
    <3>1. CASE only
      <4> DEFINE P == applyOnlyUnhealthy(All(cur), TRUE)
      <4>1. Picks(array, len, cur, Len(cur), P)
        BY <2>1, <3>1 DEF LoopInv, LoopsAgree, CompactionInPlaceIsSafe
      <4> HIDE DEF P
      <4>2. Elements(array, len) = {f \in Elements(cur, Len(cur)) : f \in P}
        BY <2>2, <4>1, PicksElements
      <4> QED
        BY <3>1, <4>2 DEF applyOnlyUnhealthy, All, P
    <3>2. CASE ~ only
      BY <3>2 DEF LoopInv, LoopsAgree, CompactionInPlaceIsSafe, Elements, All,
                  applyOnlyUnhealthy
    <3> QED
      BY <3>1, <3>2
  <2>4. CASE compare
    <3>1. All(out) = applyBaseline(Elements(array, len), All(old))
      BY <2>1, <2>4 DEF LoopInv, LoopsAgree, MarkingKeepsStatuses
    <3> QED
      BY <2>1, <2>3, <2>4, <3>1
      DEF LoopInv, LoopsAgree, WorstIsMostSevere, All, RenderedSlice
  <2>5. CASE ~ compare
    <3>1. All(RenderedSlice) = Elements(array, len)
      BY <2>2, <2>5 DEF All, Elements
    <3>2. worst = Worst(All(RenderedSlice))
      BY <2>1 DEF LoopInv, LoopsAgree, WorstIsMostSevere, All
    <3> QED
      BY <2>3, <2>5, <3>1, <3>2
  <2> QED
    BY <2>4, <2>5
<1> QED
  BY LoopsInvariant, <1>1, PTL
=============================================================================
