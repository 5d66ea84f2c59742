---------------------------- MODULE MCEtcdCollect ----------------------------
(* Three members of different sizes, all of them run as pods, and command  *)
(* lines that lead to different paths through Collect.                     *)
EXTENDS EtcdCollect

Flags(mode, endpoints, tls, image) ==
  [mode |-> mode, endpoints |-> endpoints, tls |-> tls, image |-> image,
   config |-> TRUE, quota |-> 0]

AllOptions ==
  {Flags("auto", {1, 2, 3}, "full", TRUE),
   [Flags("auto", {}, "none", FALSE) EXCEPT !.quota = 50],
   Flags("auto", {2}, "partial", FALSE),
   Flags("direct", {}, "none", FALSE),
   Flags("in-cluster", {}, "none", TRUE),
   Flags("via-apiserver", {}, "none", FALSE),
   Flags("bogus", {}, "none", FALSE),
   [Flags("pod-exec", {}, "none", FALSE) EXCEPT !.config = FALSE]}

Sizes == <<30, 40, 10>>
InUse == <<25, 10, 9>>
=============================================================================
