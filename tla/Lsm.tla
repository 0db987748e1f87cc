-------------------------------- MODULE Lsm ---------------------------------
(***************************************************************************)
(* Token mode enforcement: the LSM programs of bpf-rbacd-ebpf, the types   *)
(* they share with user space (bpf-rbacd-common) and the bpf() system      *)
(* calls they decide on, while the policy map is rewritten.                *)
(*                                                                         *)
(* A bpf() call runs security_bpf first and, for PROG_LOAD and MAP_CREATE, *)
(* the hook of the type later: each reads the map when it runs.  A u32     *)
(* bitmap is the set of its bits, as in Policy.                            *)
(***************************************************************************)
EXTENDS Policy, FiniteSets

CONSTANTS
  Procs,       \* processes that make bpf() calls
  Ids,         \* inode numbers of user namespaces, and 0
  Own,         \* process -> inode number of its user namespace
  Resolver,    \* process -> what get_current_userns_id returns, {} an Err
  Grants,      \* what entries are made from: [cfg, role, flags]
  Calls,       \* bpf() calls: [cmd, type, kernel], by the constants' names
  MaxEntries   \* MAX_POLICY_ENTRIES

Option(S) == {{}} \cup {{x} : x \in S}

-----------------------------------------------------------------------------
(* The kernel's numbers as bpf-rbacd-common has them, under the names the   *)
(* policy uses for them.                                                    *)

commands ==
  [MAP_CREATE |-> 0, MAP_LOOKUP_ELEM |-> 1, MAP_UPDATE_ELEM |-> 2,
   MAP_DELETE_ELEM |-> 3, MAP_GET_NEXT_KEY |-> 4, PROG_LOAD |-> 5,
   OBJ_PIN |-> 6, OBJ_GET |-> 7, PROG_ATTACH |-> 8, PROG_DETACH |-> 9,
   PROG_TEST_RUN |-> 10, OBJ_GET_INFO_BY_FD |-> 15, BTF_LOAD |-> 18,
   LINK_CREATE |-> 28, LINK_UPDATE |-> 29, TOKEN_CREATE |-> 33]

prog_types ==
  [socket_filter |-> 1, kprobe |-> 2, sched_cls |-> 3, sched_act |-> 4,
   tracepoint |-> 5, xdp |-> 6, perf_event |-> 7, cgroup_skb |-> 8,
   cgroup_sock |-> 9, lwt_in |-> 10, lwt_out |-> 11, lwt_xmit |-> 12,
   sock_ops |-> 13, sk_skb |-> 14, cgroup_device |-> 15, sk_msg |-> 16,
   raw_tracepoint |-> 17, cgroup_sock_addr |-> 18, lwt_seg6local |-> 19,
   sk_reuseport |-> 21, flow_dissector |-> 22, tracing |-> 26,
   struct_ops |-> 27, ext |-> 28, lsm |-> 29, sk_lookup |-> 30]

map_types ==
  [hash |-> 1, array |-> 2, prog_array |-> 3, perf_event_array |-> 4,
   percpu_hash |-> 5, percpu_array |-> 6, stack_trace |-> 7,
   cgroup_array |-> 8, lru_hash |-> 9, lru_percpu_hash |-> 10,
   lpm_trie |-> 11, array_of_maps |-> 12, hash_of_maps |-> 13, devmap |-> 14,
   sockmap |-> 15, cpumap |-> 16, xskmap |-> 17, sockhash |-> 18,
   ringbuf |-> 27]

ASSUME LsmAssumption ==
  /\ Own \in [Procs -> Ids]
  /\ Resolver \in [Procs -> Option(Ids)]
  /\ \A c \in Calls :
       /\ c.kernel \in BOOLEAN
       /\ c.cmd \in DOMAIN commands
       /\ c.cmd = "PROG_LOAD" => c.type \in DOMAIN prog_types
       /\ c.cmd = "MAP_CREATE" => c.type \in DOMAIN map_types
  /\ MaxEntries \in Nat

POLICY_FLAG_ALLOW_ALL == 0
POLICY_FLAG_DENY_ALL == 1

\* A role that lists nothing, one that lists everything, no system policy.
Bare(commands_, types) ==
  [cfg |-> [system_policy |-> {}], flags |-> {},
   role |-> [commands |-> commands_, prog_types |-> types, map_types |-> types]]

\* PolicyValue::empty, PolicyValue::allow_all and the value made from a role;
\* `for` remembers the grant a value stands for.
empty ==
  [allowed_cmds |-> {}, allowed_prog_types |-> {}, allowed_map_types |-> {},
   flags |-> {}, for |-> Bare({}, <<>>)]

allow_all ==
  [allowed_cmds |-> AllBits, allowed_prog_types |-> AllBits,
   allowed_map_types |-> AllBits, flags |-> {},
   for |-> Bare({Wildcard}, [any |-> {Wildcard}])]

PolicyValue(g) ==
  [allowed_cmds |-> commands_bitmap(g.cfg, g.role),
   allowed_prog_types |-> prog_types_bitmap(g.cfg, g.role),
   allowed_map_types |-> map_types_bitmap(g.cfg, g.role),
   flags |-> g.flags, for |-> g]

Values == {PolicyValue(g) : g \in Grants} \cup {empty, allow_all}

-----------------------------------------------------------------------------
VARIABLES
  policy_map,  \* id -> its entry, {} if none
  pc,          \* how far a process is in a bpf() call
  call,        \* the call, {} if none
  seen         \* the entries the consulted id has had since the call began

vars == <<policy_map, pc, call, seen>>

Init ==
  /\ policy_map = [i \in Ids |-> {}]
  /\ pc = [p \in Procs |-> "idle"]
  /\ call = [p \in Procs |-> {}]
  /\ seen = [p \in Procs |-> {}]

get_current_userns_id(p) == Resolver[p]

\* The entry of id becomes e, for the calls in progress as well.
Put(id, e) ==
  /\ policy_map' = [policy_map EXCEPT ![id] = e]
  /\ seen' = [p \in Procs |->
                IF pc[p] # "idle" /\ id \in get_current_userns_id(p)
                  THEN seen[p] \cup {e} ELSE seen[p]]
  /\ UNCHANGED <<pc, call>>

\* The owner of the map inserts, replaces or removes an entry.
Insert(id, v) ==
  /\ policy_map[id] # {v}
  /\ policy_map[id] # {}
       \/ Cardinality({i \in Ids : policy_map[i] # {}}) < MaxEntries
  /\ Put(id, {v})

Remove(id) == policy_map[id] # {} /\ Put(id, {})

\* A process enters bpf(), or the kernel makes the call on its behalf.
Enter(p, c) ==
  /\ pc[p] = "idle"
  /\ pc' = [pc EXCEPT ![p] = "bpf"]
  /\ call' = [call EXCEPT ![p] = {c}]
  /\ seen' = [seen EXCEPT ![p] = {policy_map[i] : i \in get_current_userns_id(p)}]
  /\ UNCHANGED policy_map

-----------------------------------------------------------------------------
(* The three hooks differ in what they read.                                *)

\* A wrong variant: the shift is not guarded and wraps around.
ShiftWraps(v, bits, bit) ==
  /\ POLICY_FLAG_DENY_ALL \notin v.flags
  /\ POLICY_FLAG_ALLOW_ALL \in v.flags \/ bit % 32 \in bits

\* An entry admits a command or a type that has a bit.
Admits(v, bits, bit) ==
  /\ POLICY_FLAG_DENY_ALL \notin v.flags
  /\ POLICY_FLAG_ALLOW_ALL \in v.flags \/ (bit < 32 /\ bit \in bits)

\* 0 of a hook, as opposed to -1: the kernel's own call, or an id without an
\* entry, or an entry that admits.  An Err of the lookup of the id is -1.  The
\* kernel passes its copy of the attributes, so the pointer is never null.
try_bpf_rbac_bpf(p, c) ==
  \/ c.kernel
  \/ \E id \in get_current_userns_id(p) :
       \A v \in policy_map[id] : Admits(v, v.allowed_cmds, commands[c.cmd])

try_bpf_rbac_prog_load(p, c) ==
  \/ c.kernel
  \/ \E id \in get_current_userns_id(p) :
       \A v \in policy_map[id] :
         Admits(v, v.allowed_prog_types, prog_types[c.type])

\* A wrong variant: the bitmap of the program types is read.
WrongBitmap(p, c) ==
  \/ c.kernel
  \/ \E id \in get_current_userns_id(p) :
       \A v \in policy_map[id] :
         Admits(v, v.allowed_prog_types, map_types[c.type])

try_bpf_rbac_map_create(p, c) ==
  \/ c.kernel
  \/ \E id \in get_current_userns_id(p) :
       \A v \in policy_map[id] :
         Admits(v, v.allowed_map_types, map_types[c.type])

\* The hook of process p is over and the call goes on at `to`.
Goto(p, to) ==
  /\ pc' = [pc EXCEPT ![p] = to]
  /\ UNCHANGED <<policy_map, call, seen>>

\* A wrong variant: the type hook of the other command is attached.
HooksSwapped(p) ==
  /\ pc[p] = "bpf"
  /\ \E c \in call[p] :
       Goto(p, CASE ~ try_bpf_rbac_bpf(p, c) -> "denied"
                 [] c.cmd = "MAP_CREATE"     -> "prog_load"
                 [] c.cmd = "PROG_LOAD"      -> "map_create"
                 [] OTHER                    -> "ran")

bpf_rbac_bpf(p) ==
  /\ pc[p] = "bpf"
  /\ \E c \in call[p] :
       Goto(p, IF ~ try_bpf_rbac_bpf(p, c)  THEN "denied"
               ELSE IF c.cmd = "PROG_LOAD"  THEN "prog_load"
               ELSE IF c.cmd = "MAP_CREATE" THEN "map_create" ELSE "ran")

bpf_rbac_prog_load(p) ==
  /\ pc[p] = "prog_load"
  /\ \E c \in call[p] :
       Goto(p, IF try_bpf_rbac_prog_load(p, c) THEN "ran" ELSE "denied")

bpf_rbac_map_create(p) ==
  /\ pc[p] = "map_create"
  /\ \E c \in call[p] :
       Goto(p, IF try_bpf_rbac_map_create(p, c) THEN "ran" ELSE "denied")

Return(p) ==
  /\ pc[p] \in {"ran", "denied"}
  /\ pc' = [pc EXCEPT ![p] = "idle"]
  /\ call' = [call EXCEPT ![p] = {}]
  /\ seen' = [seen EXCEPT ![p] = {}]
  /\ UNCHANGED policy_map

Next ==
  \/ \E id \in Ids : Remove(id) \/ \E v \in Values : Insert(id, v)
  \/ \E p \in Procs :
       \/ \E c \in Calls : Enter(p, c)
       \/ bpf_rbac_bpf(p) \/ bpf_rbac_prog_load(p) \/ bpf_rbac_map_create(p)
       \/ Return(p)

Spec == Init /\ [][Next]_vars

-----------------------------------------------------------------------------
(* Properties.                                                              *)

\* A type hook is reached by its own command only.
TypeOK ==
  /\ policy_map \in [Ids -> Option(Values)]
  /\ pc \in [Procs -> {"idle", "bpf", "prog_load", "map_create", "ran", "denied"}]
  /\ call \in [Procs -> Option(Calls)]
  /\ seen \in [Procs -> SUBSET Option(Values)]
  /\ \A p \in Procs : \A c \in call[p] :
       /\ pc[p] = "prog_load" => c.cmd = "PROG_LOAD"
       /\ pc[p] = "map_create" => c.cmd = "MAP_CREATE"

\* The type, by one of its names, is among the types m lists.
Lists(m, to_bit, type) ==
  \E n \in DOMAIN m :
    \/ n \in {Wildcard, type}
    \/ {n, type} \subseteq DOMAIN to_bit /\ to_bit[n] = to_bit[type]

\* What a grant says about a command and about the type of a call, in names.
\* A wildcard of the role is not capped by the system policy.
CommandGranted(g, c) ==
  /\ POLICY_FLAG_DENY_ALL \notin g.flags
  /\ \/ POLICY_FLAG_ALLOW_ALL \in g.flags
     \/ Wildcard \in g.role.commands
     \/ is_command_allowed(g.cfg, g.role, c.cmd)

TypeGranted(g, c) ==
  LET field  == IF c.cmd = "PROG_LOAD" THEN "prog_types" ELSE "map_types"
      to_bit == IF c.cmd = "PROG_LOAD" THEN prog_type_to_bit ELSE map_type_to_bit
  IN /\ POLICY_FLAG_DENY_ALL \notin g.flags
     /\ \/ c.cmd \notin {"PROG_LOAD", "MAP_CREATE"}
        \/ POLICY_FLAG_ALLOW_ALL \in g.flags
        \/ Wildcard \in DOMAIN g.role[field]
        \/ \A h \in g.cfg.system_policy \cup {g.role} :
             Lists(h[field], to_bit, c.type)

\* A call that ran was granted, in the names of the policy, by entries that the
\* id its hooks consulted had while it was running, unless that id had none for
\* a moment: the hooks, the bitmaps and both tables of numbers agree however
\* the map is rewritten between the two hooks.  Which id is consulted is up to
\* get_current_userns_id, which yields 0 for every process.
RanWithinGrants ==
  \A p \in Procs :
    pc[p] = "ran" /\ {} \notin seen[p] =>
      \A c \in call[p] : ~ c.kernel =>
        /\ \E e \in seen[p] : \E v \in e : CommandGranted(v.for, c)
        /\ \E e \in seen[p] : \E v \in e : TypeGranted(v.for, c)

\* Commands with a bit in allowed_cmds.
HasBit(c) == commands[c.cmd] < 32

\* What an entry made from grant g refuses: what g does not grant and, unless
\* it allows everything, a command that has no bit.
Refuses(g, c) ==
  \/ ~ (CommandGranted(g, c) /\ TypeGranted(g, c))
  \/ ~ HasBit(c) /\ POLICY_FLAG_ALLOW_ALL \notin g.flags

\* A call is denied only for an entry that refuses it, which the consulted id
\* had while the call was running: never for want of an entry, never for the
\* entry of another id, and never when the kernel makes the call itself.  (An
\* id that cannot be told also denies; get_current_userns_id never fails.)
DeniedForCause ==
  \A p \in Procs :
    pc[p] = "denied" =>
      \A c \in call[p] :
        /\ ~ c.kernel
        /\ get_current_userns_id(p) # {} =>
             \E e \in seen[p] : \E v \in e : Refuses(v.for, c)

-----------------------------------------------------------------------------
(* What the comments and documents say and the hooks do not do.             *)

\* bpf-rbacd-ebpf/src/main.rs:24-25: "Checks whether the command is allowed
\* for the calling process's user namespace."  The id is always 0.
OwnNamespaceGoverns ==
  [][\A p \in Procs :
       pc[p] = "bpf" /\ pc'[p] \notin {"bpf", "denied"} =>
         \A c \in call[p] : \A v \in policy_map[Own[p]] :
           c.kernel \/ CommandGranted(v.for, c)]_vars

\* bpf-rbacd-common/src/lib.rs:94: "Create a policy value that allows all
\* operations (all bits set)."  TOKEN_CREATE is 33 and has no bit.
AllowAllAllows ==
  \A p \in Procs : pc[p] = "denied" => seen[p] # {{allow_all}}

\* docs/DESIGN.md:380: "Removing the map entry will cause the LSM to deny
\* future operations".  A namespace without an entry is not managed.
RemovalDenies ==
  [][\A p \in Procs :
       (/\ pc[p] \in {"bpf", "prog_load", "map_create"} /\ pc'[p] # pc[p]
        /\ \A c \in call[p] : ~ c.kernel
        /\ \A id \in get_current_userns_id(p) : policy_map[id] = {}
        /\ seen[p] # {{}})
         => pc'[p] = "denied"]_vars
=============================================================================
