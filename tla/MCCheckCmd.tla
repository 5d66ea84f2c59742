----------------------------- MODULE MCCheckCmd -----------------------------
(* Small instances of CheckCmd: two checks, three readings of the cluster  *)
(* and command lines that share one file.                                  *)
EXTENDS CheckCmd

CONSTANTS p1, p2, b, x, none

F(c, s) == [check |-> c, status |-> s, resource |-> [name |-> x, tags |-> 0]]

MCReadings ==
  {{F("a", "OK"), F("b", "WARN")},
   {F("a", "CRIT"), F("b", "WARN")},
   {F("a", "UNKNOWN"), F("b", "SKIP")}}

Cmd(save, from, out, only, strict) ==
  [save |-> save, base |-> from, out |-> out, onlyUnhealthy |-> only, strict |-> strict]

(* Saving, comparing, both on one file, and piping JSON into a file. *)
MCFlags ==
  {Cmd(b, NoPath, NoPath, FALSE, TRUE), Cmd(b, b, NoPath, FALSE, FALSE),
   Cmd(NoPath, b, NoPath, TRUE, TRUE), Cmd(b, NoPath, b, TRUE, FALSE)}
=============================================================================
