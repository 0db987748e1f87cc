---------------------------- MODULE PolicyEdits -----------------------------
(***************************************************************************)
(* The policy engine over every small policy.  The state is a policy with  *)
(* one role and perhaps a system policy; the steps are the edits an        *)
(* administrator makes to /etc/bpf-rbac/policy.yaml, one entry at a time.  *)
(* The engine's answers are checked in every policy so reached, and across *)
(* every edit.                                                             *)
(*                                                                         *)
(* The three dimensions of a policy (commands, program types, map types)   *)
(* are checked by separate conjuncts of the engine: a behaviour varies one *)
(* dimension, chosen at the start, and leaves the others unrestricted.     *)
(***************************************************************************)
EXTENDS Policy, FiniteSets

CONSTANTS
  Commands,     \* bpf() commands the edits mention, without the wildcard
  ProgTypes,    \* program type names, without the wildcard
  MapTypes,     \* map type names, without the wildcard
  ProgOps,      \* operations listed for program types, the wildcard included
  MapOps        \* operations listed for map types, the wildcard included

ASSUME EditsAssumption ==
  /\ Commands \subseteq DOMAIN command_to_bit
  /\ ProgTypes \subseteq DOMAIN prog_type_to_bit
  /\ MapTypes \subseteq DOMAIN map_type_to_bit

VARIABLES
  config,       \* PolicyConfig: system_policy and roles
  dim           \* the dimension this behaviour edits

vars == <<config, dim>>

RoleName == "ebpf"
Role == config.roles[RoleName]

\* Who an entry belongs to: the role or the system policy.
Holders == {"role", "system"}

Grant(h) == IF h = "role" THEN {Role} ELSE config.system_policy

Names(d) ==
  CASE d = "commands"   -> Commands \cup {Wildcard}
    [] d = "prog_types" -> ProgTypes \cup {Wildcard}
    [] d = "map_types"  -> MapTypes \cup {Wildcard}

OpsOf(d) == IF d = "prog_types" THEN ProgOps ELSE MapOps

NoEntries(d) == IF d = "commands" THEN {} ELSE <<>>

\* A grant with no entry in dimension d and everything in the others.
EmptyIn(d) ==
  [[commands   |-> {Wildcard},
    prog_types |-> [any |-> {Wildcard}],
    map_types  |-> [any |-> {Wildcard}]] EXCEPT ![d] = NoEntries(d)]

Init ==
  /\ dim \in {"commands", "prog_types", "map_types"}
  /\ config =
       [system_policy |-> {},
        roles |-> [r \in {RoleName} |->
                     [groups     |-> {RoleName},
                      commands   |-> EmptyIn(dim).commands,
                      prog_types |-> EmptyIn(dim).prog_types,
                      map_types  |-> EmptyIn(dim).map_types]]]

-----------------------------------------------------------------------------
(* The edits.                                                               *)

\* Holder h's entries of dimension dim become v.
Put(h, v) ==
  /\ config' =
       IF h = "role"
         THEN [config EXCEPT !.roles[RoleName][dim] = v]
         ELSE [config EXCEPT !.system_policy = {[s EXCEPT ![dim] = v] : s \in @}]
  /\ UNCHANGED dim

AddCommand(h, c) ==
  /\ dim = "commands"
  /\ \E g \in Grant(h) : c \notin g.commands /\ Put(h, g.commands \cup {c})

RemoveCommand(h, c) ==
  /\ dim = "commands"
  /\ \E g \in Grant(h) : c \in g.commands /\ Put(h, g.commands \ {c})

\* `t: []`
AddType(h, t) ==
  /\ dim # "commands"
  /\ \E g \in Grant(h) :
       /\ t \notin DOMAIN g[dim]
       /\ Put(h, [k \in DOMAIN g[dim] \cup {t} |-> IF k = t THEN {} ELSE g[dim][k]])

RemoveType(h, t) ==
  /\ dim # "commands"
  /\ \E g \in Grant(h) :
       /\ t \in DOMAIN g[dim]
       /\ Put(h, [k \in DOMAIN g[dim] \ {t} |-> g[dim][k]])

AddOp(h, t, o) ==
  /\ dim # "commands"
  /\ \E g \in Grant(h) :
       /\ t \in DOMAIN g[dim]
       /\ o \notin g[dim][t]
       /\ Put(h, [g[dim] EXCEPT ![t] = @ \cup {o}])

RemoveOp(h, t, o) ==
  /\ dim # "commands"
  /\ \E g \in Grant(h) :
       /\ t \in DOMAIN g[dim]
       /\ o \in g[dim][t]
       /\ Put(h, [g[dim] EXCEPT ![t] = @ \ {o}])

\* A system_policy section that lists nothing in the dimension is added.
AddSystemPolicy ==
  /\ config.system_policy = {}
  /\ config' = [config EXCEPT !.system_policy = {EmptyIn(dim)}]
  /\ UNCHANGED dim

RemoveSystemPolicy ==
  /\ config.system_policy # {}
  /\ config' = [config EXCEPT !.system_policy = {}]
  /\ UNCHANGED dim

Next ==
  \/ \E h \in Holders, n \in Names(dim) :
       \/ AddCommand(h, n)
       \/ RemoveCommand(h, n)
       \/ AddType(h, n)
       \/ RemoveType(h, n)
       \/ \E o \in OpsOf(dim) : AddOp(h, n, o) \/ RemoveOp(h, n, o)
  \/ AddSystemPolicy
  \/ RemoveSystemPolicy

Spec == Init /\ [][Next]_vars

-----------------------------------------------------------------------------
(* Properties.                                                              *)

TypeMaps(d) == UNION {[S -> SUBSET OpsOf(d)] : S \in SUBSET Names(d)}

\* The edits keep the policy a PolicyConfig, and the bitmaps of its role are
\* u32 values: no `1 << bit` of a table reaches beyond bit 31.
TypeOK ==
  /\ Cardinality(config.system_policy) <= 1
  /\ \A g \in config.system_policy \cup {Role} :
       /\ g.commands \subseteq Commands \cup {Wildcard}
       /\ dim # "commands" => g[dim] \in TypeMaps(dim)
  /\ commands_bitmap(config, Role) \subseteq AllBits
  /\ prog_types_bitmap(config, Role) \subseteq AllBits
  /\ map_types_bitmap(config, Role) \subseteq AllBits

\* What clients ask for: `len` plays no part in a decision.
Requests ==
  [kind : {"LoadProgram", "Attach"}, type : ProgTypes, len : {0}]
    \cup [kind : {"CreateMap"}, type : MapTypes, len : {0}]

\* "A role can never exceed the system-wide limits" for the proxy's decision:
\* what is_allowed grants is listed by the role and, when there is a system
\* policy, by the system policy as well.
GrantWithinBothPolicies ==
  \A q \in Requests :
    is_allowed(config, RoleName, q) =>
      \A g \in config.system_policy \cup {Role} : Permits(g, q)

\* The two enforcement paths agree in one direction: the command and the type
\* of every request the proxy grants have their bits set in the bitmaps, so
\* the LSM hooks would admit what the proxy executes.
LsmAdmitsWhatProxyGrants ==
  \A q \in Requests :
    is_allowed(config, RoleName, q) =>
      /\ command_to_bit[CommandOf(q)] \in commands_bitmap(config, Role)
      /\ IF q.kind = "CreateMap"
           THEN map_type_to_bit[q.type] \in map_types_bitmap(config, Role)
           ELSE prog_type_to_bit[q.type] \in prog_types_bitmap(config, Role)

\* The command dimension loses nothing in the conversion to a bitmap: for a
\* role without the wildcard a bit is set exactly when is_command_allowed
\* answers yes for that command.
CommandBitmapExact ==
  Wildcard \notin Role.commands =>
    \A c \in DOMAIN command_to_bit :
      (command_to_bit[c] \in commands_bitmap(config, Role))
        <=> is_command_allowed(config, Role, c)

\* Every answer of the three permission checks, for a configuration.
Decisions(cfg) ==
  LET role == cfg.roles[RoleName]
  IN {<<"command", c, "">> : c \in {x \in Commands : is_command_allowed(cfg, role, x)}}
       \cup {d \in {"prog"} \X ProgTypes \X ProgOps :
               is_prog_op_allowed(cfg, role, d[2], d[3])}
       \cup {d \in {"map"} \X MapTypes \X MapOps :
               is_map_op_allowed(cfg, role, d[2], d[3])}

\* Type map m lists no more than n, and both have the wildcard or neither.
NarrowerMap(m, n) ==
  /\ DOMAIN m \subseteq DOMAIN n
  /\ Wildcard \in DOMAIN n => Wildcard \in DOMAIN m
  /\ \A t \in DOMAIN m : m[t] \subseteq n[t]

NarrowerGrant(g, h) ==
  /\ g.commands \subseteq h.commands
  /\ NarrowerMap(g.prog_types, h.prog_types)
  /\ NarrowerMap(g.map_types, h.map_types)

\* Policy c lists no more than d: its role and its ceiling are narrower.
Narrower(c, d) ==
  /\ NarrowerGrant(c.roles[RoleName], d.roles[RoleName])
  /\ \A s \in d.system_policy : \E t \in c.system_policy : NarrowerGrant(t, s)

\* Taking an entry away, or adding a system policy, never lets the role do
\* anything it could not do before, and giving one never takes anything away.
\* The entries of the wildcard type are excepted: `any` hides the named
\* entries in check_type_op, so adding or removing it works both ways.
EditsMonotone ==
  [][/\ Narrower(config', config) => Decisions(config') \subseteq Decisions(config)
     /\ Narrower(config, config') => Decisions(config) \subseteq Decisions(config')]_vars

-----------------------------------------------------------------------------
(* What the documentation says and the engine does not do.                  *)

\* policy.rs:290: the bitmap "is intersected with the system policy if one
\* exists".  A role with `any` returns 0xFFFFFFFF before that.
BitmapWithinCeiling ==
  \A s \in config.system_policy :
    prog_types_bitmap(config, Role)
      \subseteq SystemBitmap(prog_type_to_bit, DOMAIN s.prog_types)

\* policy.rs:20-23: the effective policy is "the set intersection of the
\* role's policy and the system policy".  For a role without `any`, a bit is
\* set only for a program type both of them list.  kprobe and uprobe share a
\* bit, so one of each is enough.
BitmapIsIntersection ==
  Wildcard \notin DOMAIN Role.prog_types =>
    \A b \in prog_types_bitmap(config, Role), s \in config.system_policy :
      \E t \in DOMAIN Role.prog_types \cap DOMAIN prog_type_to_bit :
        /\ prog_type_to_bit[t] = b
        /\ {Wildcard, t} \cap DOMAIN s.prog_types # {}

\* policy.rs:111: a role's prog_types are the "Allowed program types and their
\* permitted operations".  An operation the role lists for a type, with no
\* system policy, is refused when the role also has an `any` entry without it.
ListedOperationAllowed ==
  config.system_policy = {} =>
    \A t \in DOMAIN Role.prog_types : \A o \in Role.prog_types[t] :
      is_prog_op_allowed(config, Role, t, o)
=============================================================================
