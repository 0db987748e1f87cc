---------------------------- MODULE PolicyProofs ----------------------------
(***************************************************************************)
(* Facts about the policy engine that hold for every policy, role and      *)
(* request.  The state machines cite them by name.                         *)
(***************************************************************************)
EXTENDS Policy, TLAPS

\* An operation check_type_op accepts is listed, by the entry of the type or
\* by that of `any`.
LEMMA CheckTypeOpSound ==
  ASSUME NEW m, NEW t, NEW o, check_type_op(m, t, o)
  PROVE  TypePermits(m, t, o)
<1> DEFINE key == IF Wildcard \in DOMAIN m THEN Wildcard ELSE t
<1>1. key \in DOMAIN m /\ {Wildcard, o} \cap m[key] # {}
  BY DEF check_type_op
<1>2. key \in {Wildcard, t}
  OBVIOUS
<1>3. PICK x \in m[key] : x \in {Wildcard, o}
  BY <1>1
<1> QED BY <1>1, <1>2, <1>3 DEF TypePermits

\* The command check consults the role and the system policy.
LEMMA CommandAllowedSound ==
  ASSUME NEW cfg, NEW role, NEW c, is_command_allowed(cfg, role, c),
         NEW g \in cfg.system_policy \cup {role}
  PROVE  \E x \in g.commands : x \in {Wildcard, c}
BY DEF is_command_allowed

\* So do the two type-level checks.
LEMMA ProgOpAllowedSound ==
  ASSUME NEW cfg, NEW role, NEW t, NEW o, is_prog_op_allowed(cfg, role, t, o),
         NEW g \in cfg.system_policy \cup {role}
  PROVE  TypePermits(g.prog_types, t, o)
<1>1. check_type_op(g.prog_types, t, o)
  BY DEF is_prog_op_allowed
<1> QED BY <1>1, CheckTypeOpSound

\* The same for map types.
LEMMA MapOpAllowedSound ==
  ASSUME NEW cfg, NEW role, NEW t, NEW o, is_map_op_allowed(cfg, role, t, o),
         NEW g \in cfg.system_policy \cup {role}
  PROVE  TypePermits(g.map_types, t, o)
<1>1. check_type_op(g.map_types, t, o)
  BY DEF is_map_op_allowed
<1> QED BY <1>1, CheckTypeOpSound

\* Whatever is_allowed grants is permitted by the role and, when there is one,
\* by the system policy: "a role can never exceed the system-wide limits".
THEOREM AllowedWithinGrants ==
  ASSUME NEW cfg, NEW r, NEW q, is_allowed(cfg, r, q),
         NEW g \in cfg.system_policy \cup {cfg.roles[r]}
  PROVE  Permits(g, q)
<1> DEFINE role == cfg.roles[r]
<1>1. CASE /\ q.kind = "LoadProgram"
           /\ is_command_allowed(cfg, role, "PROG_LOAD")
           /\ is_prog_op_allowed(cfg, role, q.type, "load")
  <2>1. CommandOf(q) = "PROG_LOAD"
    BY <1>1 DEF CommandOf
  <2>2. \E c \in g.commands : c \in {Wildcard, CommandOf(q)}
    BY <1>1, <2>1, CommandAllowedSound
  <2>3. TypePermits(g.prog_types, q.type, "load")
    BY <1>1, ProgOpAllowedSound
  <2> QED BY <1>1, <2>2, <2>3 DEF Permits
<1>2. CASE /\ q.kind = "CreateMap"
           /\ is_command_allowed(cfg, role, "MAP_CREATE")
           /\ is_map_op_allowed(cfg, role, q.type, "create")
  <2>1. CommandOf(q) = "MAP_CREATE"
    BY <1>2 DEF CommandOf
  <2>2. \E c \in g.commands : c \in {Wildcard, CommandOf(q)}
    BY <1>2, <2>1, CommandAllowedSound
  <2>3. TypePermits(g.map_types, q.type, "create")
    BY <1>2, MapOpAllowedSound
  <2> QED BY <1>2, <2>2, <2>3 DEF Permits
<1>3. CASE /\ q.kind = "Attach"
           /\ is_command_allowed(cfg, role, "PROG_ATTACH")
           /\ is_prog_op_allowed(cfg, role, q.type, "attach")
  <2>1. CommandOf(q) = "PROG_ATTACH"
    BY <1>3 DEF CommandOf
  <2>2. \E c \in g.commands : c \in {Wildcard, CommandOf(q)}
    BY <1>3, <2>1, CommandAllowedSound
  <2>3. TypePermits(g.prog_types, q.type, "attach")
    BY <1>3, ProgOpAllowedSound
  <2> QED BY <1>3, <2>2, <2>3 DEF Permits
<1> QED BY <1>1, <1>2, <1>3 DEF is_allowed

\* The role resolved for a user is one of those the user's groups match.
THEOREM ResolvedRoleMatches ==
  ASSUME NEW cfg, NEW groups, NEW order
  PROVE  get_role_for_groups(cfg, groups, order) \subseteq Matching(cfg, groups)
BY DEF get_role_for_groups

\* More groups never match fewer roles.
LEMMA MatchingMonotone ==
  ASSUME NEW cfg, NEW G, NEW H, G \subseteq H
  PROVE  Matching(cfg, G) \subseteq Matching(cfg, H)
BY DEF Matching

\* A request that a matching role is allowed to make is authorized for the
\* user, by the definition that does not mention the engine.
THEOREM AllowedIsAuthorized ==
  ASSUME NEW cfg, NEW groups, NEW q, NEW r \in Matching(cfg, groups),
         is_allowed(cfg, r, q)
  PROVE  Authorized(cfg, groups, q)
<1>1. Permits(cfg.roles[r], q)
  BY AllowedWithinGrants
<1>2. \A s \in cfg.system_policy : Permits(s, q)
  BY AllowedWithinGrants
<1>3. r \in DOMAIN cfg.roles /\ \E g \in cfg.roles[r].groups : g \in groups
  BY DEF Matching
<1> QED BY <1>1, <1>2, <1>3 DEF Authorized

-----------------------------------------------------------------------------
(* The bitmaps.                                                             *)

\* A type that check_type_op accepts, whatever the operation, has its bit in
\* the bitmap built from the keys of the same type map.
LEMMA CheckedTypeHasBit ==
  ASSUME NEW m, NEW t, NEW o, check_type_op(m, t, o),
         NEW to_bit, t \in DOMAIN to_bit, to_bit[t] \in AllBits
  PROVE  to_bit[t] \in SystemBitmap(to_bit, DOMAIN m)
BY DEF check_type_op, SystemBitmap, BitsOf

\* The tables stay within the 32 bits of a bitmap.
LEMMA BitsInRange ==
  /\ \A t \in DOMAIN prog_type_to_bit : prog_type_to_bit[t] \in AllBits
  /\ \A t \in DOMAIN map_type_to_bit : map_type_to_bit[t] \in AllBits
  /\ \A c \in DOMAIN command_to_bit : command_to_bit[c] \in AllBits
<1>1. \A t \in DOMAIN prog_type_to_bit : prog_type_to_bit[t] \in AllBits
  BY DEF prog_type_to_bit, AllBits
<1>2. \A t \in DOMAIN map_type_to_bit : map_type_to_bit[t] \in AllBits
  BY DEF map_type_to_bit, AllBits
<1>3. \A c \in DOMAIN command_to_bit : command_to_bit[c] \in AllBits
  BY DEF command_to_bit, AllBits
<1> QED BY <1>1, <1>2, <1>3

\* Every program type the engine lets a role operate on is admitted by the
\* LSM's bitmap: the two enforcement paths disagree in one direction only.
THEOREM ProgOpHasBit ==
  ASSUME NEW cfg, NEW role, NEW t \in DOMAIN prog_type_to_bit, NEW o,
         is_prog_op_allowed(cfg, role, t, o)
  PROVE  prog_type_to_bit[t] \in prog_types_bitmap(cfg, role)
<1>1. prog_type_to_bit[t] \in AllBits
  BY BitsInRange
<1>2. \A s \in cfg.system_policy :
        prog_type_to_bit[t] \in SystemBitmap(prog_type_to_bit, DOMAIN s.prog_types)
  BY <1>1, CheckedTypeHasBit DEF is_prog_op_allowed
<1>3. prog_type_to_bit[t] \in SystemBitmap(prog_type_to_bit, DOMAIN role.prog_types)
  BY <1>1, CheckedTypeHasBit DEF is_prog_op_allowed
<1> QED BY <1>1, <1>2, <1>3 DEF prog_types_bitmap, SystemBitmap

\* The same for map types.
THEOREM MapOpHasBit ==
  ASSUME NEW cfg, NEW role, NEW t \in DOMAIN map_type_to_bit, NEW o,
         is_map_op_allowed(cfg, role, t, o)
  PROVE  map_type_to_bit[t] \in map_types_bitmap(cfg, role)
<1>1. map_type_to_bit[t] \in AllBits
  BY BitsInRange
<1>2. \A s \in cfg.system_policy :
        map_type_to_bit[t] \in SystemBitmap(map_type_to_bit, DOMAIN s.map_types)
  BY <1>1, CheckedTypeHasBit DEF is_map_op_allowed
<1>3. map_type_to_bit[t] \in SystemBitmap(map_type_to_bit, DOMAIN role.map_types)
  BY <1>1, CheckedTypeHasBit DEF is_map_op_allowed
<1> QED BY <1>1, <1>2, <1>3 DEF map_types_bitmap, SystemBitmap

\* And for commands.
THEOREM CommandHasBit ==
  ASSUME NEW cfg, NEW role, NEW c \in DOMAIN command_to_bit,
         is_command_allowed(cfg, role, c)
  PROVE  command_to_bit[c] \in commands_bitmap(cfg, role)
<1>1. command_to_bit[c] \in AllBits
  BY BitsInRange
<1>2. \A s \in cfg.system_policy :
        command_to_bit[c] \in SystemBitmap(command_to_bit, s.commands)
  BY <1>1 DEF is_command_allowed, SystemBitmap, BitsOf
<1>3. command_to_bit[c] \in SystemBitmap(command_to_bit, role.commands)
  BY <1>1 DEF is_command_allowed, SystemBitmap, BitsOf
<1> QED BY <1>1, <1>2, <1>3 DEF commands_bitmap, SystemBitmap

\* No two commands share a bit (program types do).
LEMMA CommandBitsDistinct ==
  ASSUME NEW c \in DOMAIN command_to_bit, NEW d \in DOMAIN command_to_bit,
         command_to_bit[c] = command_to_bit[d]
  PROVE  c = d
BY SMTT(60) DEF command_to_bit

\* For a role without the wildcard the command bitmap is exact: a bit is set
\* if and only if is_command_allowed accepts the command.
THEOREM CommandBitmapIsExact ==
  ASSUME NEW cfg, NEW role, Wildcard \notin role.commands,
         NEW c \in DOMAIN command_to_bit
  PROVE  (command_to_bit[c] \in commands_bitmap(cfg, role))
           <=> is_command_allowed(cfg, role, c)
<1>1. ASSUME command_to_bit[c] \in commands_bitmap(cfg, role)
      PROVE  is_command_allowed(cfg, role, c)
  <2>1. command_to_bit[c] \in BitsOf(command_to_bit, role.commands)
    BY <1>1 DEF commands_bitmap
  <2>2. c \in role.commands
    BY <2>1, CommandBitsDistinct DEF BitsOf
  <2>3. ASSUME NEW s \in cfg.system_policy
        PROVE  {Wildcard, c} \cap s.commands # {}
    <3>1. command_to_bit[c] \in SystemBitmap(command_to_bit, s.commands)
      BY <1>1 DEF commands_bitmap
    <3>2. CASE Wildcard \in s.commands
      BY <3>2
    <3>3. CASE Wildcard \notin s.commands
      <4>1. command_to_bit[c] \in BitsOf(command_to_bit, s.commands)
        BY <3>1, <3>3 DEF SystemBitmap
      <4>2. c \in s.commands
        BY <4>1, CommandBitsDistinct DEF BitsOf
      <4> QED BY <4>2
    <3> QED BY <3>2, <3>3
  <2> QED BY <2>2, <2>3 DEF is_command_allowed
<1> QED BY <1>1, CommandHasBit
=============================================================================
