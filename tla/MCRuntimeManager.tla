-------------------------- MODULE MCRuntimeManager --------------------------
(* RuntimeManager on small instances. *)
EXTENDS RuntimeManager, TLC

(* A state file with one node present and one removed, or none. *)
OneFile(n) ==
    [nextEpoch |-> 1, nextRevision |-> 2, nextSlot |-> 1,
     handle |-> [m \in Nodes |-> IF m = n THEN [slot |-> 1, version |-> 1, born |-> 1] ELSE NoHandle],
     present |-> [m \in Nodes |-> FALSE]]

NoFile == {None}
SomeFile == {None} \cup {OneFile(n) : n \in Nodes}

(* Source updates reach active pools only, and one pool is retired while the *)
(* other is not.                                                             *)
Retiring(p) == pool[p].retire = "pending"
OneRetires == \A p \in Pools : Retiring(p) => \E q \in Pools : pool[q].retire = "no"
NoReplay == \A p \in Pools : ~pool[p].dirty

IdentitySpec == Init /\ [][Next /\ (NoReplay /\ OneRetires)']_vars

Symmetry == Permutations(Dials) \cup Permutations(Pools)
NodeSymmetry == Permutations(Nodes) \cup Permutations(Pools)
=============================================================================
