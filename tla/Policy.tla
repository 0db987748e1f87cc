------------------------------- MODULE Policy -------------------------------
(***************************************************************************)
(* The policy engine of bpf-rbacd (src/policy.rs) as pure operators.       *)
(*                                                                         *)
(* Representation.  Option<T> is a set with at most one element, {} being  *)
(* None.  A Vec<String> of commands, groups or operations is only ever     *)
(* searched, so it is a set of names.  A HashMap<String, Vec<String>> is a *)
(* function from the names it has to sets of operations.  A u32 bitmap is  *)
(* the set of its bit numbers: | is \cup, & is \cap, 0xFFFFFFFF is AllBits.*)
(***************************************************************************)
EXTENDS Naturals

\* The wildcard of commands, type names and operations.
Wildcard == "any"

AllBits == 0 .. 31

-----------------------------------------------------------------------------
(* The tables from names to the kernel's enum values.  The match arms are   *)
(* the record fields; a name that is no field is the arm `_ => None`.       *)

prog_type_to_bit ==
  [socket_filter |-> 1, kprobe |-> 2, kretprobe |-> 2, sched_cls |-> 3,
   sched_act |-> 4, tracepoint |-> 5, xdp |-> 6, perf_event |-> 7,
   cgroup_skb |-> 8, cgroup_sock |-> 9, lwt_in |-> 10, lwt_out |-> 11,
   lwt_xmit |-> 12, sock_ops |-> 13, sk_skb |-> 14, cgroup_device |-> 15,
   sk_msg |-> 16, raw_tracepoint |-> 17, cgroup_sock_addr |-> 18,
   lwt_seg6local |-> 19, lirc_mode2 |-> 20, sk_reuseport |-> 21,
   flow_dissector |-> 22, cgroup_sysctl |-> 23,
   raw_tracepoint_writable |-> 24, cgroup_sockopt |-> 25, tracing |-> 26,
   fentry |-> 26, fexit |-> 26, struct_ops |-> 27, ext |-> 28, lsm |-> 29,
   sk_lookup |-> 30, uprobe |-> 2, uretprobe |-> 2]

map_type_to_bit ==
  [hash |-> 1, array |-> 2, prog_array |-> 3, perf_event_array |-> 4,
   percpu_hash |-> 5, percpu_array |-> 6, stack_trace |-> 7,
   cgroup_array |-> 8, lru_hash |-> 9, lru_percpu_hash |-> 10,
   lpm_trie |-> 11, array_of_maps |-> 12, hash_of_maps |-> 13,
   devmap |-> 14, sockmap |-> 15, cpumap |-> 16, xskmap |-> 17,
   sockhash |-> 18, cgroup_storage |-> 19, reuseport_sockarray |-> 20,
   percpu_cgroup_storage |-> 21, queue |-> 22, stack |-> 23,
   sk_storage |-> 24, devmap_hash |-> 25, struct_ops |-> 26, ringbuf |-> 27,
   inode_storage |-> 28, task_storage |-> 29, bloom_filter |-> 30]

command_to_bit ==
  [MAP_CREATE |-> 0, MAP_LOOKUP_ELEM |-> 1, MAP_UPDATE_ELEM |-> 2,
   MAP_DELETE_ELEM |-> 3, MAP_GET_NEXT_KEY |-> 4, PROG_LOAD |-> 5,
   OBJ_PIN |-> 6, OBJ_GET |-> 7, PROG_ATTACH |-> 8, PROG_DETACH |-> 9,
   PROG_TEST_RUN |-> 10, PROG_GET_NEXT_ID |-> 11, MAP_GET_NEXT_ID |-> 12,
   PROG_GET_FD_BY_ID |-> 13, MAP_GET_FD_BY_ID |-> 14,
   OBJ_GET_INFO_BY_FD |-> 15, PROG_QUERY |-> 16, RAW_TRACEPOINT_OPEN |-> 17,
   BTF_LOAD |-> 18, BTF_GET_FD_BY_ID |-> 19, TASK_FD_QUERY |-> 20,
   MAP_LOOKUP_AND_DELETE_ELEM |-> 21, MAP_FREEZE |-> 22,
   BTF_GET_NEXT_ID |-> 23, MAP_LOOKUP_BATCH |-> 24,
   MAP_LOOKUP_AND_DELETE_BATCH |-> 25, MAP_UPDATE_BATCH |-> 26,
   MAP_DELETE_BATCH |-> 27, LINK_CREATE |-> 28, LINK_UPDATE |-> 29,
   LINK_GET_FD_BY_ID |-> 30, LINK_GET_NEXT_ID |-> 31]

-----------------------------------------------------------------------------
(* Role resolution.                                                        *)

Priority == <<"ebpf-admin", "ebpf-net", "ebpf">>

\* The roles of cfg one of whose groups the user is in.
Matching(cfg, user_groups) ==
  {r \in DOMAIN cfg.roles : cfg.roles[r].groups \cap user_groups # {}}

\* A wrong variant: the search goes on after a match.
AllMatches(cfg, user_groups, order) == Matching(cfg, user_groups)

\* A wrong variant: only the well-known roles are tried.
PriorityOnly(cfg, user_groups, order) ==
  LET known == {i \in DOMAIN Priority : Priority[i] \in Matching(cfg, user_groups)}
  IN {Priority[i] : i \in {j \in known : \A l \in known : j <= l}}

\* A wrong variant: the well-known roles are not tried first.
HashOrderOnly(cfg, user_groups, order) ==
  LET matching == Matching(cfg, user_groups)
  IN {r \in matching : \A s \in matching : order[r] <= order[s]}

\* The first matching well-known role, else the first match in the iteration
\* order of the HashMap of roles.  `order` ranks the role names: Rust seeds
\* the order at random when the map is built and keeps it for its lifetime.
get_role_for_groups(cfg, user_groups, order) ==
  LET matching == Matching(cfg, user_groups)
      known    == {i \in DOMAIN Priority : Priority[i] \in matching}
  IN IF known # {}
       THEN {Priority[i] : i \in {j \in known : \A l \in known : j <= l}}
       ELSE {r \in matching : \A s \in matching : order[r] <= order[s]}

-----------------------------------------------------------------------------
(* Permission checks.                                                      *)

\* A wrong variant: an empty list of operations leaves the type unrestricted.
EmptyListMeansAll(type_map, type_name, op) ==
  LET key == IF Wildcard \in DOMAIN type_map THEN Wildcard ELSE type_name
  IN /\ key \in DOMAIN type_map
     /\ \/ type_map[key] = {}
        \/ {Wildcard, op} \cap type_map[key] # {}

\* The entry consulted is that of `any` when there is one: it hides the named
\* entry, because the first `if let` returns whatever it finds.
check_type_op(type_map, type_name, op) ==
  LET key == IF Wildcard \in DOMAIN type_map THEN Wildcard ELSE type_name
  IN /\ key \in DOMAIN type_map
     /\ {Wildcard, op} \cap type_map[key] # {}

\* A wrong variant: the system policy is not consulted.
RoleCommandsOnly(cfg, role, command) ==
  {Wildcard, command} \cap role.commands # {}

is_command_allowed(cfg, role, command) ==
  /\ {Wildcard, command} \cap role.commands # {}
  /\ \A system \in cfg.system_policy :
       {Wildcard, command} \cap system.commands # {}

is_prog_op_allowed(cfg, role, prog_type, operation) ==
  /\ check_type_op(role.prog_types, prog_type, operation)
  /\ \A system \in cfg.system_policy :
       check_type_op(system.prog_types, prog_type, operation)

is_map_op_allowed(cfg, role, map_type, operation) ==
  /\ check_type_op(role.map_types, map_type, operation)
  /\ \A system \in cfg.system_policy :
       check_type_op(system.map_types, map_type, operation)

is_allowed(cfg, role_name, request) ==
  /\ role_name \in DOMAIN cfg.roles
  /\ LET role == cfg.roles[role_name]
     IN \/ /\ request.kind = "LoadProgram"
           /\ is_command_allowed(cfg, role, "PROG_LOAD")
           /\ is_prog_op_allowed(cfg, role, request.type, "load")
        \/ /\ request.kind = "CreateMap"
           /\ is_command_allowed(cfg, role, "MAP_CREATE")
           /\ is_map_op_allowed(cfg, role, request.type, "create")
        \/ /\ request.kind = "Attach"
           /\ is_command_allowed(cfg, role, "PROG_ATTACH")
           /\ is_prog_op_allowed(cfg, role, request.type, "attach")

-----------------------------------------------------------------------------
(* The bitmaps written to the map the LSM programs read.                    *)

\* A wrong variant: the bits are numbered from one.
BitsFromOne(to_bit, names) == {to_bit[n] + 1 : n \in names \cap DOMAIN to_bit}

\* The bits of the names a table knows; the others are skipped.
BitsOf(to_bit, names) == {to_bit[n] : n \in names \cap DOMAIN to_bit}

SystemBitmap(to_bit, names) ==
  IF Wildcard \in names THEN AllBits ELSE BitsOf(to_bit, names)

\* A wrong variant: the system's entries are looked up in the program table.
WrongTable(cfg, role) ==
  IF Wildcard \in DOMAIN role.map_types THEN AllBits
  ELSE {b \in BitsOf(map_type_to_bit, DOMAIN role.map_types) :
          \A system \in cfg.system_policy :
            b \in SystemBitmap(prog_type_to_bit, DOMAIN system.map_types)}

\* A role with the wildcard returns before the system policy is looked at,
\* and the operations listed for a type play no part.
prog_types_bitmap(cfg, role) ==
  IF Wildcard \in DOMAIN role.prog_types THEN AllBits
  ELSE {b \in BitsOf(prog_type_to_bit, DOMAIN role.prog_types) :
          \A system \in cfg.system_policy :
            b \in SystemBitmap(prog_type_to_bit, DOMAIN system.prog_types)}

map_types_bitmap(cfg, role) ==
  IF Wildcard \in DOMAIN role.map_types THEN AllBits
  ELSE {b \in BitsOf(map_type_to_bit, DOMAIN role.map_types) :
          \A system \in cfg.system_policy :
            b \in SystemBitmap(map_type_to_bit, DOMAIN system.map_types)}

\* A wrong variant: the role's commands are not capped by the system's.
NoCommandCap(cfg, role) ==
  IF Wildcard \in role.commands THEN AllBits
  ELSE BitsOf(command_to_bit, role.commands)

commands_bitmap(cfg, role) ==
  IF Wildcard \in role.commands THEN AllBits
  ELSE {b \in BitsOf(command_to_bit, role.commands) :
          \A system \in cfg.system_policy :
            b \in SystemBitmap(command_to_bit, system.commands)}

-----------------------------------------------------------------------------
(* The built-in policy, used when no policy file can be loaded.             *)

DefaultPolicy ==
  LET la == {"load", "attach"}
      rw == {"create", "read", "write"}
  IN [system_policy |-> {},
      roles |->
        [r \in {"ebpf", "ebpf-net", "ebpf-admin"} |->
           CASE r = "ebpf" ->
                  [groups     |-> {"ebpf"},
                   commands   |-> {"PROG_LOAD", "MAP_CREATE",
                                   "MAP_LOOKUP_ELEM", "MAP_UPDATE_ELEM",
                                   "LINK_CREATE", "BTF_LOAD"},
                   prog_types |-> [kprobe |-> la, uprobe |-> la,
                                   tracepoint |-> la,
                                   perf_event |-> la,
                                   raw_tracepoint |-> la],
                   map_types  |-> [hash |-> rw, array |-> rw,
                                   perf_event_array |-> {"create", "read"},
                                   ringbuf |-> {"create", "read"}]]
             [] r = "ebpf-net" ->
                  [groups     |-> {"ebpf-net"},
                   commands   |-> {"PROG_LOAD", "MAP_CREATE",
                                   "MAP_LOOKUP_ELEM", "MAP_UPDATE_ELEM",
                                   "LINK_CREATE", "PROG_ATTACH", "BTF_LOAD"},
                   prog_types |-> [xdp |-> {"load", "attach", "detach"},
                                   sched_cls |-> {"load", "attach", "detach"},
                                   socket_filter |-> la],
                   map_types  |-> [hash |-> rw, array |-> rw, devmap |-> rw,
                                   lru_hash |-> rw]]
             [] OTHER ->
                  [groups     |-> {"ebpf-admin"},
                   commands   |-> {Wildcard},
                   prog_types |-> [any |-> {Wildcard}],
                   map_types  |-> [any |-> {Wildcard}]]]]

-----------------------------------------------------------------------------
(* What the policy means, stated without reference to the engine.           *)

\* Some entry of the type map, the wildcard's or the type's own, lists the
\* operation or the wildcard.
TypePermits(type_map, type_name, op) ==
  \E key \in DOMAIN type_map :
    /\ key \in {Wildcard, type_name}
    /\ \E o \in type_map[key] : o \in {Wildcard, op}

\* The command and the type-level entry a request needs.
CommandOf(request) ==
  CASE request.kind = "LoadProgram" -> "PROG_LOAD"
    [] request.kind = "CreateMap"   -> "MAP_CREATE"
    [] request.kind = "Attach"      -> "PROG_ATTACH"

\* `grant`, a role or a system policy, lists what the request needs.
Permits(grant, request) ==
  /\ \E c \in grant.commands : c \in {Wildcard, CommandOf(request)}
  /\ CASE request.kind = "LoadProgram" ->
            TypePermits(grant.prog_types, request.type, "load")
       [] request.kind = "CreateMap" ->
            TypePermits(grant.map_types, request.type, "create")
       [] request.kind = "Attach" ->
            TypePermits(grant.prog_types, request.type, "attach")

\* A user in these groups may make the request: some role of one of the groups
\* lists it, and so does the system policy if there is one.
Authorized(cfg, user_groups, request) ==
  /\ \E r \in DOMAIN cfg.roles :
       /\ \E g \in cfg.roles[r].groups : g \in user_groups
       /\ Permits(cfg.roles[r], request)
  /\ \A system \in cfg.system_policy : Permits(system, request)
=============================================================================
