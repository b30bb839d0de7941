--------------------------- MODULE MCReplicaPool ---------------------------
(* Instances of ReplicaPool for TLC: the cfg files give the constants.     *)
EXTENDS ReplicaPool, TLC

Symmetry == Permutations(Replicas) \cup Permutations(Spawners)
              \cup Permutations(Passes)
=============================================================================
