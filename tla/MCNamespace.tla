---------------------------- MODULE MCNamespace -----------------------------
(* Callers, and one PID that may be of the host, of a container, or of a     *)
(* process with a user namespace of its own in the host's mount namespace or *)
(* in that of a container nested in its own.                                 *)
EXTENDS Namespace, TLC

CONSTANTS c1, c2, n1, t1, t2, t3

MCKinds ==
  {[user |-> c, mnt |-> c] : c \in Spaces}
    \cup (Context \cap {[user |-> c1, mnt |-> Host], [user |-> c1, mnt |-> n1]})

MCTwoKinds == {[user |-> c1, mnt |-> c1], [user |-> c1, mnt |-> Host]}

MCOneKind == {[user |-> c1, mnt |-> c1]}

Symmetry == Permutations(Callers)

\* The host encloses the containers and the container c1 the container n1.
Parent == [c \in Containers |-> IF c = n1 THEN c1 ELSE Host]

\* From a namespace into those nested in it.
MCLinux ==
  {p \in Spaces \X Containers :
     \/ Parent[p[2]] = p[1]
     \/ Parent[p[2]] \in Containers /\ Parent[Parent[p[2]]] = p[1]}

\* From everywhere to everywhere else.
MCAny == {p \in Spaces \X Spaces : p[1] # p[2]}
=============================================================================
