------------------------------ MODULE MCRunner ------------------------------
(* Small instances of Runner: a check that returns no finding at all, one  *)
(* that returns one of several results, and one that returns two findings. *)
EXTENDS Runner, TLC

MCRunResults ==
  [c \in Checks |->
     CASE c = 1 -> {<<"OK">>, <<"WARN", "CRIT">>}
       [] c = 2 -> {<<"CRIT", "CRIT">>}
       [] c = 3 -> {<<>>, <<"OK">>}
       [] OTHER -> {<<"OK">>}]
=============================================================================
