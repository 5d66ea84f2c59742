---------------------------- MODULE MCJoinChecks ----------------------------
(* Two targets of different kinds and two referrers of different kinds in  *)
(* one of two namespaces.  Both referrers name both targets; for one of    *)
(* them one of the references is optional.                                 *)
EXTENDS JoinChecks

CONSTANTS a, b, x, y, n1, n2

MCRefs == [r \in {a, b} |-> {x, y}]
MCOptional == {<<b, y>>}
MCKindOf == [o \in {a, b, x, y} |->
              CASE o = a -> "deployments" [] o = b -> "statefulsets"
                [] o = x -> "cm" [] o = y -> "pvc"]
MCNsOf == [o \in {a, b, x, y} |-> n1]
=============================================================================
