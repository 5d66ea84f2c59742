---------------------------- MODULE ReportLoops -----------------------------
(***************************************************************************)
(* The loops of internal/cli and internal/result over the findings slice   *)
(* of one report, in the order khealth check runs them and one iteration a *)
(* step: applyOnlyUnhealthy with --only-unhealthy; the four loops of       *)
(* Compare and the two of applyBaseline with --baseline; Worst.  Result    *)
(* and CheckCmdOps say on sets what these loops amount to.                 *)
(*                                                                         *)
(* A slice is an array and a length: the report is the first len elements  *)
(* of array.                                                               *)
(***************************************************************************)
EXTENDS CheckCmdOps

CONSTANTS
  Reports,    \* the reports the checks may return
  Baselines   \* the reports a baseline file may hold

ASSUME ReportsAssumption == Reports \cup Baselines \subseteq Seq(FindingSet)

VARIABLES
  cur,          \* the findings the checks returned
  old,          \* the findings of the baseline
  only,         \* --only-unhealthy
  compare,      \* --baseline, with a file that is there
  loop,         \* the loop that is running
  i,            \* the index its next iteration is at
  array, len,   \* the report's slice
  baseSet,      \* Compare's maps and its result
  curSet,
  diff,
  persisting,   \* applyBaseline's map and its slice
  out,
  worst         \* the running worst status

loopVars == <<cur, old, only, compare, loop, i, array, len, baseSet, curSet, diff,
          persisting, out, worst>>

(* The loops in the order of the code, and the end. *)
Stage(l) ==
  CASE l = "filter" -> 1
    [] l = "base" -> 2
    [] l = "cur" -> 3
    [] l = "split" -> 4
    [] l = "cleared" -> 5
    [] l = "persisting" -> 6
    [] l = "mark" -> 7
    [] l = "worst" -> 8
    [] OTHER -> 9

Loops == {"filter", "base", "cur", "split", "cleared", "persisting", "mark", "worst", "done"}

AfterFilter == IF compare THEN "base" ELSE "worst"

(* The slice that is rendered and that Worst ranges over. *)
RenderedSlice == IF compare THEN out ELSE SubSeq(array, 1, len)

LoopInit ==
  /\ cur \in Reports
  /\ only \in BOOLEAN
  /\ compare \in BOOLEAN
  /\ old \in IF compare THEN Baselines ELSE {<<>>}
  /\ loop = IF only THEN "filter" ELSE AfterFilter
  /\ i = 1
  /\ array = cur
  /\ len = IF only THEN 0 ELSE Len(cur)
  /\ baseSet = {} /\ curSet = {}
  /\ diff = [New |-> <<>>, Persisting |-> <<>>, Cleared |-> <<>>]
  /\ persisting = {}
  /\ out = <<>>
  /\ worst = "OK"
-----------------------------------------------------------------------------
(* A loop over n elements goes on to its next one, or is left for the next *)
(* loop.                                                                   *)
Iterate(l, n) == loop = l /\ i <= n /\ i' = i + 1 /\ loop' = loop
Leave(l, n, next) == loop = l /\ i > n /\ i' = 1 /\ loop' = next

(* Mutant: each append lands one element too far. *)
FilterTooFar ==
  /\ \/ /\ Iterate("filter", Len(cur))
        /\ IF array[i].status # "OK" /\ array[i].status # "SKIP"
           THEN /\ array' = [j \in DOMAIN array |-> IF j = len + 2 THEN array[i] ELSE array[j]]
                /\ len' = len + 1
           ELSE UNCHANGED <<array, len>>
     \/ Leave("filter", Len(cur), AfterFilter) /\ UNCHANGED <<array, len>>
  /\ UNCHANGED <<cur, old, only, compare, baseSet, curSet, diff, persisting, out, worst>>

(* applyOnlyUnhealthy: out.Findings starts as rep.Findings[:0] and so      *)
(* shares its array: each append overwrites an element of the slice that   *)
(* is being ranged over.                                                   *)
Filter ==
  /\ \/ /\ Iterate("filter", Len(cur))
        /\ IF array[i].status # "OK" /\ array[i].status # "SKIP"
           THEN /\ array' = [array EXCEPT ![len + 1] = array[i]]
                /\ len' = len + 1
           ELSE UNCHANGED <<array, len>>
     \/ Leave("filter", Len(cur), AfterFilter) /\ UNCHANGED <<array, len>>
  /\ UNCHANGED <<cur, old, only, compare, baseSet, curSet, diff, persisting, out, worst>>

(* Compare: the keys of the baseline ...                                   *)
CompareBase ==
  /\ \/ Iterate("base", Len(old)) /\ baseSet' = baseSet \cup {Key(old[i])}
     \/ Leave("base", Len(old), "cur") /\ UNCHANGED baseSet
  /\ UNCHANGED <<cur, old, only, compare, array, len, curSet, diff, persisting, out, worst>>

(* ... and of the report; ...                                              *)
CompareCur ==
  /\ \/ Iterate("cur", len) /\ curSet' = curSet \cup {Key(array[i])}
     \/ Leave("cur", len, "split") /\ UNCHANGED curSet
  /\ UNCHANGED <<cur, old, only, compare, array, len, baseSet, diff, persisting, out, worst>>

(* ... each finding of the report is a persisting or a new one, ...        *)
CompareSplit ==
  /\ \/ /\ Iterate("split", len)
        /\ IF Key(array[i]) \in baseSet
           THEN diff' = [diff EXCEPT !.Persisting = Append(@, array[i])]
           ELSE diff' = [diff EXCEPT !.New = Append(@, array[i])]
     \/ Leave("split", len, "cleared") /\ UNCHANGED diff
  /\ UNCHANGED <<cur, old, only, compare, array, len, baseSet, curSet, persisting, out, worst>>

(* ... and one of the baseline that the report has no more is cleared.     *)
CompareCleared ==
  /\ \/ /\ Iterate("cleared", Len(old))
        /\ IF Key(old[i]) \notin curSet
           THEN diff' = [diff EXCEPT !.Cleared = Append(@, old[i])]
           ELSE UNCHANGED diff
     \/ Leave("cleared", Len(old), "persisting") /\ UNCHANGED diff
  /\ UNCHANGED <<cur, old, only, compare, array, len, baseSet, curSet, persisting, out, worst>>

(* applyBaseline: the keys of the persisting findings ...                  *)
CollectPersisting ==
  /\ \/ /\ Iterate("persisting", Len(diff.Persisting))
        /\ persisting' = persisting \cup {Key(diff.Persisting[i])}
     \/ Leave("persisting", Len(diff.Persisting), "mark") /\ UNCHANGED persisting
  /\ UNCHANGED <<cur, old, only, compare, array, len, baseSet, curSet, diff, out, worst>>

(* ... and a second slice, filled element by element.                      *)
Mark ==
  /\ \/ /\ Iterate("mark", len)
        /\ out' = Append(out, IF Key(array[i]) \in persisting
                              THEN Tagged(array[i]) ELSE array[i])
     \/ Leave("mark", len, "worst") /\ UNCHANGED out
  /\ UNCHANGED <<cur, old, only, compare, array, len, baseSet, curSet, diff, persisting, worst>>

(* Worst: only a strictly more severe finding replaces the running worst.  *)
FindWorst ==
  /\ \/ /\ Iterate("worst", Len(RenderedSlice))
        /\ worst' = IF rank(RenderedSlice[i].status) > rank(worst)
                    THEN RenderedSlice[i].status ELSE worst
     \/ Leave("worst", Len(RenderedSlice), "done") /\ UNCHANGED worst
  /\ UNCHANGED <<cur, old, only, compare, array, len, baseSet, curSet, diff, persisting, out>>

LoopNext ==
  \/ Filter
  \/ CompareBase \/ CompareCur \/ CompareSplit \/ CompareCleared
  \/ CollectPersisting \/ Mark
  \/ FindWorst

LoopSpec == LoopInit /\ [][LoopNext]_loopVars
-----------------------------------------------------------------------------
(* The types of the loops' state: an index never runs past the slices, and *)
(* the shared array keeps its length (check.go 160-189, baseline.go        *)
(* 66-87, result.go 43-51).                                                *)
LoopTypes ==
  /\ cur \in Seq(FindingSet) /\ old \in Seq(FindingSet)
  /\ only \in BOOLEAN /\ compare \in BOOLEAN
  /\ loop \in Loops /\ i \in Nat \ {0}
  /\ array \in Seq(FindingSet) /\ Len(array) = Len(cur)
  /\ len \in 0..Len(cur)
  /\ diff \in [New : Seq(FindingSet), Persisting : Seq(FindingSet), Cleared : Seq(FindingSet)]
  /\ out \in Seq(FindingSet)

(* A loop only runs with its flag, and never past its end. *)
Route ==
  /\ loop = "filter" => only /\ i <= Len(cur) + 1
  /\ Stage(loop) \in 2..7 => compare
  /\ loop \in {"base", "cleared"} => i <= Len(old) + 1
  /\ loop \in {"cur", "split", "mark"} => i <= len + 1
  /\ loop = "persisting" => i <= Len(diff.Persisting) + 1
  /\ loop = "worst" => i <= Len(RenderedSlice) + 1
-----------------------------------------------------------------------------
(* How many of its n elements a loop has gone through. *)
Passed(l, n) ==
  IF loop = l THEN i - 1 ELSE IF Stage(loop) > Stage(l) THEN n ELSE 0

Elements(s, n) == {s[j] : j \in 1..n}
All(s) == Elements(s, Len(s))

(* The first m elements of s are those of the first n of t that are in P,  *)
(* each once and in their order.                                           *)
Picks(s, m, t, n, P) ==
  /\ m <= n
  /\ \E e \in [1..m -> 1..n] :
       /\ \A j, k \in 1..m : j < k => e[j] < e[k]
       /\ \A j \in 1..m : s[j] = t[e[j]]
       /\ \A k \in 1..n : t[k] \in P <=> \E j \in 1..m : e[j] = k

(* Compacting the slice in place loses, repeats and reorders nothing,      *)
(* although the loop writes the array it reads: what it has not read yet   *)
(* is as it was (check.go 181-187).                                        *)
CompactionInPlaceIsSafe ==
  /\ ~ only => len = Len(cur)
  /\ only => Picks(array, len, cur, Passed("filter", Len(cur)),
                   applyOnlyUnhealthy(All(cur), TRUE))
  /\ \A j \in 1..Len(cur) : j > len \/ ~ only => array[j] = cur[j]

(* The loops of Compare build, element by element, the three parts of the  *)
(* comparison on sets, in the order of the slices (baseline.go 66-87).     *)
ComparisonInOrder ==
  LET parts == Compare(All(old), Elements(array, len))
      split == Passed("split", len)
      cleared == Passed("cleared", Len(old))
  IN compare =>
       /\ baseSet = Keys(Elements(old, Passed("base", Len(old))))
       /\ curSet = Keys(Elements(array, Passed("cur", len)))
       /\ Picks(diff.New, Len(diff.New), array, split, parts.New)
       /\ Picks(diff.Persisting, Len(diff.Persisting), array, split, parts.Persisting)
       /\ Picks(diff.Cleared, Len(diff.Cleared), old, cleared, parts.Cleared)
       /\ persisting = Keys(Elements(diff.Persisting,
                                     Passed("persisting", Len(diff.Persisting))))

(* Marking is positional: duplicates are marked alike, and every status    *)
(* stays where it was (check.go 165-174).                                  *)
MarkingKeepsStatuses ==
  compare =>
    /\ Len(out) = Passed("mark", len)
    /\ All(out) = applyBaseline(Elements(array, Len(out)), All(old))
    /\ \A j \in 1..Len(out) : /\ out[j].status = array[j].status
                              /\ Key(array[j]) \in Keys(All(old)) <=> out[j] # array[j]

(* The loop of Worst holds the most severe status so far, and in the end   *)
(* that of what the checks returned, whatever was filtered or marked       *)
(* (result.go 43-51).                                                      *)
WorstIsMostSevere ==
  /\ worst = Worst(Elements(RenderedSlice, Passed("worst", Len(RenderedSlice))))
  /\ loop = "done" => worst = Worst(All(cur))

(* The loops over a report amount, at every iteration, to what the         *)
(* definitions on sets say: the compaction in place, the comparison, the   *)
(* positional marking and the worst status (check.go 160-189, baseline.go  *)
(* 66-87, result.go 43-51).                                                *)
LoopsAgree ==
  CompactionInPlaceIsSafe /\ ComparisonInOrder /\ MarkingKeepsStatuses /\ WorstIsMostSevere

(* The inductive invariant: the types, the order of the loops and what     *)
(* each of them has done so far.                                           *)
LoopInv == LoopTypes /\ Route /\ LoopsAgree
=============================================================================
