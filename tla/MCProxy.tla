------------------------------ MODULE MCProxy -------------------------------
(***************************************************************************)
(* Values for the constants of Proxy that a configuration file cannot      *)
(* write: policies, iteration orders and requests.                         *)
(***************************************************************************)
EXTENDS ProxyRefinement, TLC

\* Two roles for the groups ebpf and wheel, the second one unrestricted and
\* not among the names the daemon tries first.
MCRoles ==
  [ebpf |-> [groups |-> {"ebpf"}, commands |-> {"MAP_CREATE"},
             prog_types |-> <<>>, map_types |-> [hash |-> {"create"}]],
   ops  |-> [groups |-> {"wheel"}, commands |-> {"any"},
             prog_types |-> [any |-> {"any"}], map_types |-> [any |-> {"any"}]]]

OpenPolicy == [system_policy |-> {}, roles |-> MCRoles]

\* The same roles under a ceiling that leaves out the map type hash.
CappedPolicy ==
  [system_policy |-> {[commands   |-> {"MAP_CREATE", "PROG_LOAD"},
                       prog_types |-> [kprobe |-> {"load"}],
                       map_types  |-> [devmap |-> {"create"}]]},
   roles |-> MCRoles]

OpenOnly        == {OpenPolicy}
CappedOnly      == {CappedPolicy}
NoPolicy        == {}

\* No user of the instances matches two roles: one order is enough.
MCOrders == {[ebpf |-> 1, ops |-> 2]}

Hash      == [kind |-> "CreateMap",   type |-> "hash",   len |-> 44,   type_len |-> 4]
LongHash  == [kind |-> "CreateMap",   type |-> "hash",   len |-> 4090, type_len |-> 4]
HugeHash  == [kind |-> "CreateMap",   type |-> "hash",   len |-> 5000, type_len |-> 4]
Array     == [kind |-> "CreateMap",   type |-> "array",  len |-> 45,   type_len |-> 5]
LongDev   == [kind |-> "CreateMap",   type |-> "devmap", len |-> 4090, type_len |-> 6]
Malformed == [kind |-> "Malformed",   type |-> "",       len |-> 3,    type_len |-> 0]

LiveRequests  == {Hash, HugeHash, LongDev, Malformed}
ArrayRequests == {Array}
HashRequests  == {Hash}
TwoRequests   == {Hash, Array}
LongRequests  == {Hash, LongHash}

Symmetry == Permutations(Conns) \cup Permutations(Users)
=============================================================================
