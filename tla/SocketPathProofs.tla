-------------------------- MODULE SocketPathProofs --------------------------
(***************************************************************************)
(* The socket path for any number of instances, restarts and kills.        *)
(***************************************************************************)
EXTENDS SocketPath, TLAPS

\* One step for a single instance keeps the state well typed: in particular
\* the path never names two sockets, since bind fails on a path in use.
LEMMA StepKeepsTypes ==
  ASSUME TypeOK, NEW i \in Instances,
         Restart(i) \/ StartByHand(i) \/ Stop(i) \/ Main(i)
  PROVE  TypeOK'
<1> USE SocketAssumption DEF TypeOK
<1>1. CASE Restart(i)
  BY <1>1 DEF Restart
<1>2. CASE StartByHand(i)
  BY <1>2 DEF StartByHand
<1>3. CASE Stop(i)
  BY <1>3 DEF Stop
<1>4. CASE remove_file(i)
  BY <1>4 DEF remove_file
<1>5. CASE bind(i)
  BY <1>5 DEF bind
<1>6. CASE set_permissions(i)
  BY <1>6 DEF set_permissions
<1> QED BY <1>1, <1>2, <1>3, <1>4, <1>5, <1>6 DEF Main

\* The path names at most one instance, and the counters keep their bounds.
LEMMA TypesHold == Spec => []TypeOK
<1>1. Init => TypeOK
  <2> SUFFICES ASSUME Init PROVE TypeOK
    OBVIOUS
  <2>1. mode \in BOOLEAN /\ path \in {{}} \cup {{i} : i \in Instances}
    BY Zenon DEF Init
  <2>2. /\ pc \in [Instances -> {"down", "remove", "bind", "chmod", "running"}]
        /\ starts \in 0 .. MaxStarts /\ stops \in 0 .. MaxStops
    BY SocketAssumption DEF Init
  <2> QED BY <2>1, <2>2 DEF TypeOK
<1>2. TypeOK /\ [Next]_vars => TypeOK'
  <2> SUFFICES ASSUME TypeOK, [Next]_vars PROVE TypeOK'
    OBVIOUS
  <2>1. CASE Next
    BY <2>1, StepKeepsTypes DEF Next
  <2>2. CASE UNCHANGED vars
    BY <2>2 DEF vars, TypeOK
  <2> QED BY <2>1, <2>2
<1> QED BY <1>1, <1>2, PTL DEF Spec

\* One step for a single instance.  An instance becomes "running" only in
\* set_permissions, which succeeds only when the path names a socket and then
\* sets its mode; the mode is cleared only together with the path; and the
\* path names a new instance only when that one is still to set the mode.
LEMMA StepKeepsReachable ==
  ASSUME TypeOK, OwnerReachable, NEW i \in Instances,
         Restart(i) \/ StartByHand(i) \/ Stop(i) \/ Main(i)
  PROVE  OwnerReachable'
<1> USE DEF TypeOK, OwnerReachable
<1>1. CASE Restart(i)
  BY <1>1 DEF Restart
<1>2. CASE StartByHand(i)
  BY <1>2 DEF StartByHand
<1>3. CASE Stop(i)
  BY <1>3 DEF Stop
<1>4. CASE remove_file(i)
  BY <1>4 DEF remove_file
<1>5. CASE bind(i)
  BY <1>5 DEF bind
<1>6. CASE set_permissions(i)
  BY <1>6 DEF set_permissions
<1> QED BY <1>1, <1>2, <1>3, <1>4, <1>5, <1>6 DEF Main

\* The instance that serves the path is reachable by every user, whatever the
\* other instances do between its bind and its chmod.
THEOREM RunningOwnerReachable == Spec => []OwnerReachable
<1>1. Init => OwnerReachable
  BY DEF Init, OwnerReachable
<1>2. TypeOK /\ OwnerReachable /\ [Next]_vars => OwnerReachable'
  <2> SUFFICES ASSUME TypeOK, OwnerReachable, [Next]_vars PROVE OwnerReachable'
    OBVIOUS
  <2>1. CASE Next
    BY <2>1, StepKeepsReachable DEF Next
  <2>2. CASE UNCHANGED vars
    BY <2>2 DEF vars, OwnerReachable
  <2> QED BY <2>1, <2>2
<1> QED BY <1>1, <1>2, TypesHold, PTL DEF Spec

\* One step for a single instance.  An instance comes to bind only by removing
\* what the path names, and the path names it again only once it has bound.
LEMMA StepKeepsFileGone ==
  ASSUME TypeOK, OwnFileGone, NEW i \in Instances,
         Restart(i) \/ StartByHand(i) \/ Stop(i) \/ Main(i)
  PROVE  OwnFileGone'
<1> USE DEF TypeOK, OwnFileGone
<1>1. CASE Restart(i)
  BY <1>1 DEF Restart
<1>2. CASE StartByHand(i)
  BY <1>2 DEF StartByHand
<1>3. CASE Stop(i)
  BY <1>3 DEF Stop
<1>4. CASE remove_file(i)
  BY <1>4 DEF remove_file
<1>5. CASE bind(i)
  BY <1>5 DEF bind
<1>6. CASE set_permissions(i)
  BY <1>6 DEF set_permissions
<1> QED BY <1>1, <1>2, <1>3, <1>4, <1>5, <1>6 DEF Main

\* No instance is kept from binding by a file of its own, whenever it was
\* killed and however often it was restarted.
THEOREM NoFileInTheWay == Spec => []OwnFileGone
<1>1. Init => OwnFileGone
  BY DEF Init, OwnFileGone
<1>2. TypeOK /\ OwnFileGone /\ [Next]_vars => OwnFileGone'
  <2> SUFFICES ASSUME TypeOK, OwnFileGone, [Next]_vars PROVE OwnFileGone'
    OBVIOUS
  <2>1. CASE Next
    BY <2>1, StepKeepsFileGone DEF Next
  <2>2. CASE UNCHANGED vars
    BY <2>2 DEF vars, OwnFileGone
  <2> QED BY <2>1, <2>2
<1> QED BY <1>1, <1>2, TypesHold, PTL DEF Spec

-----------------------------------------------------------------------------
(* Coming to rest.                                                          *)

\* An instance that will come to remove the file or to bind the path.
WillBind(i) ==
  pc[i] \in {"remove", "bind"} \/ (pc[i] = "down" /\ i \in Supervised)

\* While the path names no socket someone is about to bind it.
EmptyPathIsTemporary == path = {} => \E i \in Instances : WillBind(i)

\* The instance the path names listens, or will come to remove its old file.
\* In particular it is not in `bind`: it has removed the file before.
OwnerReturns ==
  \A i \in path :
    pc[i] \in {"chmod", "running", "remove"} \/ (pc[i] = "down" /\ i \in Supervised)

RestInv == TypeOK /\ OwnerReachable /\ EmptyPathIsTemporary /\ OwnerReturns

\* A step of one instance keeps both facts.  An instance gives up its turn to
\* bind only by binding, or by finding the path taken; a supervised one that
\* is killed takes its turn again.
LEMMA StepKeepsTurns ==
  ASSUME RestInv, Stoppable \subseteq Supervised, NEW i \in Instances,
         Restart(i) \/ StartByHand(i) \/ Stop(i) \/ Main(i)
  PROVE  EmptyPathIsTemporary' /\ OwnerReturns'
<1> USE DEF RestInv, TypeOK, EmptyPathIsTemporary, OwnerReturns, WillBind
<1>1. CASE Restart(i)
  BY <1>1 DEF Restart
<1>2. CASE StartByHand(i)
  BY <1>2 DEF StartByHand
<1>3. CASE Stop(i)
  BY <1>3 DEF Stop
<1>4. CASE remove_file(i)
  BY <1>4 DEF remove_file
<1>5. CASE bind(i)
  BY <1>5 DEF bind
<1>6. CASE set_permissions(i)
  BY <1>6 DEF set_permissions
<1> QED BY <1>1, <1>2, <1>3, <1>4, <1>5, <1>6 DEF Main

\* However many instances were started, killed and restarted, when nothing is
\* under way any more every user can connect to one of them.
THEOREM RestIsAlwaysServed == Spec => []RestIsServed
<1>1. CASE Supervised # {} /\ Stoppable \subseteq Supervised
  <2>1. Init => EmptyPathIsTemporary /\ OwnerReturns
    BY <1>1, SocketAssumption DEF Init, EmptyPathIsTemporary, OwnerReturns, WillBind
  <2>2. TypeOK /\ OwnerReachable /\ (EmptyPathIsTemporary /\ OwnerReturns)
          /\ [Next]_vars => (EmptyPathIsTemporary /\ OwnerReturns)'
    <3> SUFFICES ASSUME RestInv, [Next]_vars
                 PROVE  (EmptyPathIsTemporary /\ OwnerReturns)'
      BY DEF RestInv
    <3>1. CASE Next
      BY <1>1, <3>1, StepKeepsTurns DEF Next
    <3>2. CASE UNCHANGED vars
      BY <3>2 DEF vars, RestInv, EmptyPathIsTemporary, OwnerReturns, WillBind
    <3> QED BY <3>1, <3>2
  <2>3. RestInv => RestIsServed
    <3> SUFFICES ASSUME RestInv, AtRest PROVE Status
      BY DEF RestIsServed
    <3>1. \A j \in Instances : ~ WillBind(j)
      BY DEF AtRest, WillBind
    <3>2. PICK o \in Instances : path = {o}
      BY <3>1 DEF RestInv, TypeOK, EmptyPathIsTemporary
    <3>3. pc[o] = "running"
      BY <3>2 DEF RestInv, OwnerReturns, AtRest
    <3> QED BY <3>2, <3>3 DEF RestInv, OwnerReachable, Status
  <2>4. TypeOK /\ OwnerReachable /\ (EmptyPathIsTemporary /\ OwnerReturns)
          => RestIsServed
    BY <2>3 DEF RestInv
  <2> QED BY <2>1, <2>2, <2>4, TypesHold, RunningOwnerReachable, PTL DEF Spec
<1>2. CASE ~ (Supervised # {} /\ Stoppable \subseteq Supervised)
  <2>1. RestIsServed
    BY <1>2 DEF RestIsServed
  <2> QED BY <2>1, PTL
<1> QED BY <1>1, <1>2
=============================================================================
