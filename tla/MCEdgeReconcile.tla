---------------------------- MODULE MCEdgeReconcile ----------------------------
(* Two deploys, two domains; the operator may have made one host for both   *)
(* of them, and two records for the second. Nothing tells the deploys, the  *)
(* targets or the entries of a provider apart.                              *)
EXTENDS EdgeReconcile, TLC

CONSTANTS d1, d2, n1, n2, t1, t2, h1, h2, e1, e2, e3

Symmetry == Permutations(Deploys) \cup Permutations(Targets)
              \cup Permutations(HostIds) \cup Permutations(RecordIds)

NoHosts == [id \in HostIds |-> Absent]

MCHosts ==
  {NoHosts} \cup
  {[NoHosts EXCEPT ![id] = [domains |-> {n1, n2}, target |-> t, cert |-> Cert]] :
     id \in HostIds, t \in Targets}

NoRecords == [id \in RecordIds |-> Absent]

MCRecords ==
  {NoRecords} \cup
  {[NoRecords EXCEPT ![id] = [name |-> n2, content |-> t1],
                     ![other] = [name |-> n2, content |-> t2]] :
     <<id, other>> \in {<<i, j>> \in RecordIds \X RecordIds : i # j}}
================================================================================
