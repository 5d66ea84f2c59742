------------------------------- MODULE MCWatch ------------------------------
(* A small instance of Watch: enough runs for two to overlap and a third   *)
(* to follow, and findings that come and go.                               *)
EXTENDS Watch, TLC

CONSTANTS k1, k2
=============================================================================
