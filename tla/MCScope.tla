------------------------------ MODULE MCScope -------------------------------
(* Four checks: two of one category for every distribution, one of rke2    *)
(* and one of k3s and kubeadm.  Two contexts and the pod's own cluster.    *)
EXTENDS Scope

CONSTANTS pods, nodes, jobs, leases, east, west

MCCategoriesOf == [c \in {pods, nodes, jobs, leases} |->
                     IF c = nodes THEN {"node"} ELSE {"workload"}]
MCDistrosOf == [c \in {pods, nodes, jobs, leases} |->
                  CASE c = jobs -> {"rke2"} [] c = leases -> {"k3s", "kubeadm"}
                    [] OTHER -> Everywhere]

Plain == [mode |-> "auto", context |-> None, namespace |-> None, all |-> FALSE,
          timeout |-> "valid", distro |-> "auto", checks |-> {}, skip |-> {}, cats |-> {}]

(* The plain command line and some that differ from it. *)
MCFlags ==
  {Plain,
   [Plain EXCEPT !.mode = "in-cluster", !.all = TRUE],
   [Plain EXCEPT !.mode = "out-of-cluster", !.namespace = "team"],
   [Plain EXCEPT !.context = west, !.namespace = "team", !.all = TRUE],
   [Plain EXCEPT !.mode = "out-of-cluster", !.context = east, !.cats = {"workload"}],
   [Plain EXCEPT !.distro = "rke2", !.skip = {pods}],
   [Plain EXCEPT !.skip = {jobs}, !.checks = {jobs, leases}],
   [Plain EXCEPT !.distro = "other"],
   [Plain EXCEPT !.mode = "other"],
   [Plain EXCEPT !.timeout = "invalid"]}
=============================================================================
