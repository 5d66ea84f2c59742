----------------------------- MODULE MCEtcdProbe -----------------------------
(* Small instances of EtcdProbe.  Launchers that all have an image are     *)
(* alike.                                                                  *)
EXTENDS EtcdProbe, TLC

CONSTANTS l1, l2

One == {l1}
Two == {l1, l2}
Alike == Permutations(Two)
=============================================================================
