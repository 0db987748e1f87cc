----------------------------- MODULE SocketPath -----------------------------
(***************************************************************************)
(* /run/bpf-rbac.sock when several instances of the daemon are started:    *)
(* the service of config/bpf-rbacd.service, which systemd restarts, and    *)
(* others started by hand.  main() of src/main.rs removes whatever file it *)
(* finds, binds, and sets the mode, in three steps that interleave with    *)
(* those of the other instances.                                           *)
(***************************************************************************)
EXTENDS Naturals

CONSTANTS
  Instances,   \* processes running main()
  Supervised,  \* the ones systemd restarts when they fail
  Stoppable,   \* the ones that may be killed
  MaxStarts,   \* bound: instances started by hand
  MaxStops     \* bound: instances killed

ASSUME SocketAssumption ==
  /\ Supervised \subseteq Instances /\ Stoppable \subseteq Instances
  /\ MaxStarts \in Nat /\ MaxStops \in Nat

VARIABLES
  pc,      \* how far main() of an instance has come
  path,    \* the instance whose socket the path names, {} if there is none
  mode,    \* may every user connect to what the path names?
  starts,  \* instances started by hand so far
  stops    \* instances killed so far

vars == <<pc, path, mode, starts, stops>>

Init ==
  /\ pc = [i \in Instances |-> "down"]
  /\ path = {} /\ mode = FALSE
  /\ starts = 0 /\ stops = 0

Restart(i) ==
  /\ i \in Supervised /\ pc[i] = "down"
  /\ pc' = [pc EXCEPT ![i] = "remove"]
  /\ UNCHANGED <<path, mode, starts, stops>>

StartByHand(i) ==
  /\ i \notin Supervised /\ pc[i] = "down" /\ starts < MaxStarts
  /\ starts' = starts + 1
  /\ pc' = [pc EXCEPT ![i] = "remove"]
  /\ UNCHANGED <<path, mode, stops>>

\* The file stays when its instance is gone.
Stop(i) ==
  /\ i \in Stoppable /\ pc[i] # "down" /\ stops < MaxStops
  /\ stops' = stops + 1
  /\ pc' = [pc EXCEPT ![i] = "down"]
  /\ UNCHANGED <<path, mode, starts>>

\* A wrong variant: a file that is already there is left alone.
remove_nothing(i) ==
  /\ pc[i] = "remove"
  /\ pc' = [pc EXCEPT ![i] = "bind"]
  /\ UNCHANGED <<path, mode, starts, stops>>

\* The result is ignored: there may be nothing to remove.
remove_file(i) ==
  /\ pc[i] = "remove"
  /\ path' = {} /\ mode' = FALSE
  /\ pc' = [pc EXCEPT ![i] = "bind"]
  /\ UNCHANGED <<starts, stops>>

\* EADDRINUSE when another instance has bound the path meanwhile.
bind(i) ==
  /\ pc[i] = "bind"
  /\ \/ path = {} /\ path' = {i} /\ pc' = [pc EXCEPT ![i] = "chmod"]
     \/ path # {} /\ path' = path /\ pc' = [pc EXCEPT ![i] = "down"]
  /\ UNCHANGED <<mode, starts, stops>>

\* A wrong variant: an error of chmod is ignored and so is the mode.
no_permissions(i) ==
  /\ pc[i] = "chmod"
  /\ pc' = [pc EXCEPT ![i] = "running"]
  /\ UNCHANGED <<path, mode, starts, stops>>

\* ENOENT when another instance has removed the file meanwhile; when it has
\* bound its own, the mode of that one is set.
set_permissions(i) ==
  /\ pc[i] = "chmod"
  /\ \/ path # {} /\ mode' = TRUE /\ pc' = [pc EXCEPT ![i] = "running"]
     \/ path = {} /\ mode' = mode /\ pc' = [pc EXCEPT ![i] = "down"]
  /\ UNCHANGED <<path, starts, stops>>

Main(i) == remove_file(i) \/ bind(i) \/ set_permissions(i)

Next == \E i \in Instances : Restart(i) \/ StartByHand(i) \/ Stop(i) \/ Main(i)

\* systemd restarts the service and every instance runs to its accept loop.
\* Nobody has to start an instance by hand or to kill one.
Spec ==
  /\ Init /\ [][Next]_vars
  /\ \A i \in Instances : WF_vars(Restart(i)) /\ WF_vars(Main(i))

-----------------------------------------------------------------------------
(* Properties.                                                              *)

TypeOK ==
  /\ pc \in [Instances -> {"down", "remove", "bind", "chmod", "running"}]
  /\ path \in {{}} \cup {{i} : i \in Instances}
  /\ mode \in BOOLEAN
  /\ starts \in 0 .. MaxStarts /\ stops \in 0 .. MaxStops

\* connect() of an ordinary user succeeds: `bpf-rbac status` reports a daemon.
Status == mode /\ \E i \in path : pc[i] \in {"chmod", "running"}

\* The file an instance left behind when it was killed never stands in the way
\* of its own restart: if bind finds the path in use, another instance has
\* bound it since this one removed the file.
OwnFileGone == \A i \in path : pc[i] # "bind"

\* An instance in its accept loop whose socket the path names is one every
\* user can reach, although the mode may have been set on another instance's
\* file in the meantime.
OwnerReachable == \A i \in path : pc[i] = "running" => mode

\* Nothing is under way: every instance is in its accept loop, or is down and
\* nobody restarts it.
AtRest ==
  \A i \in Instances : pc[i] = "running" \/ (pc[i] = "down" /\ i \notin Supervised)

\* Whichever way the instances got in each other's way, they do not come to
\* rest with a path that leads nowhere: no instance that removed the file of
\* another is the last one to touch it, as long as nobody kills one that was
\* started by hand.
RestIsServed ==
  Supervised # {} /\ Stoppable \subseteq Supervised => (AtRest => Status)

\* However many instances start at the same time and get in each other's way,
\* in the end every user can connect to one of them, as long as nobody kills
\* one that was started by hand.
EventuallyServed == Supervised # {} => <>[]Status

-----------------------------------------------------------------------------
\* bpf-rbac.rs:46, of `bpf-rbac status`: "Check if the BPF RBAC daemon is
\* running".  An instance that took over the path and was then killed leaves
\* the service running for ever and unreachable.
StatusTruthful == <>[](\E i \in Instances : pc[i] = "running") => []<>Status
=============================================================================
