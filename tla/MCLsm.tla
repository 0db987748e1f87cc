------------------------------- MODULE MCLsm --------------------------------
(* One process and entries made from the built-in policy: as it is, under a  *)
(* system policy, and with both flags set.                                   *)
EXTENDS Lsm

CONSTANTS p1

MCOwn == [p \in Procs |-> 1]
\* get_current_userns_id is a skeleton: Ok(0) for every process.
MCSkeleton == [p \in Procs |-> {0}]

System == [commands   |-> {"MAP_CREATE", "PROG_LOAD", "PROG_ATTACH"},
           prog_types |-> [kretprobe |-> {"load"}, xdp |-> {"load"}],
           map_types  |-> [any |-> {"create"}]]

MCGrants ==
  {[cfg |-> DefaultPolicy, role |-> DefaultPolicy.roles["ebpf"], flags |-> {}],
   [cfg |-> [DefaultPolicy EXCEPT !.system_policy = {System}],
    role |-> DefaultPolicy.roles["ebpf"], flags |-> {}],
   [cfg |-> DefaultPolicy, role |-> DefaultPolicy.roles["ebpf-net"],
    flags |-> {POLICY_FLAG_ALLOW_ALL, POLICY_FLAG_DENY_ALL}]}

MCCalls ==
  [cmd : {"PROG_LOAD"}, type : {"kprobe", "xdp", "lsm"}, kernel : {FALSE}]
    \cup [cmd : {"MAP_CREATE"}, type : {"hash", "devmap", "perf_event_array"}, kernel : {FALSE}]
    \cup [cmd : {"MAP_LOOKUP_ELEM", "LINK_UPDATE", "TOKEN_CREATE"}, type : {"none"},
          kernel : {FALSE}]
    \cup [cmd : {"PROG_LOAD"}, type : {"lsm"}, kernel : {TRUE}]
=============================================================================
