-------------------------- MODULE ProxyRefinement ---------------------------
(***************************************************************************)
(* Proxy mode implements the reference monitor.  A session is a connection *)
(* that the daemon has not dropped; Create is the Execute step that        *)
(* answers Success; everything else the daemon does is invisible.          *)
(***************************************************************************)
EXTENDS Proxy

\* What the value create_map returned tells its caller.
Told(o) ==
  IF o \in {"fd", "nofd"} THEN "created"
  ELSE IF o \in {"denied", "error"} THEN "refused" ELSE "nothing"

Live == {k \in Conns : task[k] # "none"}

Monitor == INSTANCE ReferenceMonitor WITH
  Sessions <- Conns,
  Policies <- PolicyConfigs \cup {DefaultPolicy},
  live <- Live,
  asked <- req,
  told <- [k \in Conns |-> Told(outcome[k])]

\* The daemon of main.rs with its clients behaves as the monitor, step by step:
\* a reply that fails is not computed again, the policy stays the same while a
\* connection is served, and create_map reports what happened, whatever
\* crashes and whoever else is served.
ImplementsMonitor == Monitor!Spec
=============================================================================
