------------------------------- MODULE Result -------------------------------
(***************************************************************************)
(* internal/result: the findings a check emits, the severity order, the    *)
(* exit code of a report and the comparison with a saved baseline.         *)
(*                                                                         *)
(* The text of a finding (Message, Detail, Duration) decides nothing and   *)
(* is left out; Resource is whatever the module that uses it makes it.     *)
(* What a report means depends only on which findings it holds, so the     *)
(* operators take the set of a report's findings.  ReportLoops has the     *)
(* loops of the code, over a slice; that they agree is checked and proved. *)
(***************************************************************************)
EXTENDS Integers, Sequences

Status == {"OK", "WARN", "CRIT", "UNKNOWN", "SKIP"}

(* Severity used for ranking only: SKIP and OK weigh nothing. *)
rank(s) ==
  CASE s = "CRIT" -> 3
    [] s = "WARN" -> 2
    [] s = "UNKNOWN" -> 1
    [] OTHER -> 0

(* The status of the most severe finding; OK when none weighs anything.    *)
Worst(S) ==
  CHOOSE s \in Status \ {"SKIP"} :
    /\ \A f \in S : rank(f.status) <= rank(s)
    /\ s = "OK" \/ \E f \in S : f.status = s

ExitCode(S, strict) ==
  CASE Worst(S) = "CRIT" -> 1
    [] Worst(S) = "WARN" -> IF strict THEN 2 ELSE 0
    [] OTHER -> 0

(* The identity of a finding across runs: messages may drift. *)
Key(f) == <<f.status, f.check, f.resource>>

Keys(S) == {Key(f) : f \in S}

(* Compare: the findings of cur that are in base and those that are not,   *)
(* and the ones of base that cur no longer has.                            *)
Compare(base, cur) ==
  [New        |-> {f \in cur : Key(f) \notin Keys(base)},
   Persisting |-> {f \in cur : Key(f) \in Keys(base)},
   Cleared    |-> {f \in base : Key(f) \notin Keys(cur)}]
=============================================================================
