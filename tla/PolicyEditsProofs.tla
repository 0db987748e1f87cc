------------------------- MODULE PolicyEditsProofs --------------------------
(***************************************************************************)
(* What PolicyEdits checks on small policies, for policies of any size.    *)
(* The first three theorems need no invariant: the facts hold of every     *)
(* policy, reachable or not.  The last one, that the edits keep the policy *)
(* a PolicyConfig, needs one.                                              *)
(***************************************************************************)
EXTENDS PolicyEdits, PolicyProofs, FiniteSetTheorems

\* The proxy never grants what the role or the system policy does not list.
THEOREM GrantsStayWithinBothPolicies == Spec => []GrantWithinBothPolicies
<1>1. GrantWithinBothPolicies
  BY AllowedWithinGrants DEF GrantWithinBothPolicies, Role
<1> QED BY <1>1, PTL

\* The command a request of a known kind needs has a bit.
LEMMA CommandOfKnown ==
  ASSUME NEW q, q.kind \in {"LoadProgram", "CreateMap", "Attach"}
  PROVE  CommandOf(q) \in {"PROG_LOAD", "MAP_CREATE", "PROG_ATTACH"}
BY Zenon DEF CommandOf

\* Program loads, map creations and attachments all have a command bit.
LEMMA RequestCommandsHaveBits ==
  {"PROG_LOAD", "MAP_CREATE", "PROG_ATTACH"} \subseteq DOMAIN command_to_bit
BY DEF command_to_bit

\* What a granted request implies for the three checks it is made of.
LEMMA AllowedParts ==
  ASSUME NEW cfg, NEW r, NEW q, is_allowed(cfg, r, q)
  PROVE  /\ q.kind \in {"LoadProgram", "CreateMap", "Attach"}
         /\ is_command_allowed(cfg, cfg.roles[r], CommandOf(q))
         /\ \/ /\ q.kind = "CreateMap"
               /\ is_map_op_allowed(cfg, cfg.roles[r], q.type, "create")
            \/ /\ q.kind # "CreateMap"
               /\ \E o : is_prog_op_allowed(cfg, cfg.roles[r], q.type, o)
<1> DEFINE role == cfg.roles[r]
<1>1. CASE /\ q.kind = "LoadProgram"
           /\ is_command_allowed(cfg, role, "PROG_LOAD")
           /\ is_prog_op_allowed(cfg, role, q.type, "load")
  <2>1. CommandOf(q) = "PROG_LOAD"
    BY <1>1 DEF CommandOf
  <2> QED BY <1>1, <2>1
<1>2. CASE /\ q.kind = "CreateMap"
           /\ is_command_allowed(cfg, role, "MAP_CREATE")
           /\ is_map_op_allowed(cfg, role, q.type, "create")
  <2>1. CommandOf(q) = "MAP_CREATE"
    BY <1>2 DEF CommandOf
  <2> QED BY <1>2, <2>1
<1>3. CASE /\ q.kind = "Attach"
           /\ is_command_allowed(cfg, role, "PROG_ATTACH")
           /\ is_prog_op_allowed(cfg, role, q.type, "attach")
  <2>1. CommandOf(q) = "PROG_ATTACH"
    BY <1>3 DEF CommandOf
  <2> QED BY <1>3, <2>1
<1> QED BY <1>1, <1>2, <1>3 DEF is_allowed

\* The LSM bitmaps admit every request the proxy grants.
THEOREM LsmAdmitsEveryGrant == Spec => []LsmAdmitsWhatProxyGrants
<1>1. LsmAdmitsWhatProxyGrants
  <2> SUFFICES ASSUME NEW q \in Requests, is_allowed(config, RoleName, q)
               PROVE  /\ command_to_bit[CommandOf(q)] \in commands_bitmap(config, Role)
                      /\ IF q.kind = "CreateMap"
                           THEN map_type_to_bit[q.type] \in map_types_bitmap(config, Role)
                           ELSE prog_type_to_bit[q.type] \in prog_types_bitmap(config, Role)
    BY DEF LsmAdmitsWhatProxyGrants
  <2>1. /\ q.kind \in {"LoadProgram", "CreateMap", "Attach"}
        /\ is_command_allowed(config, Role, CommandOf(q))
    BY AllowedParts DEF Role
  <2>2. command_to_bit[CommandOf(q)] \in commands_bitmap(config, Role)
    <3>1. CommandOf(q) \in DOMAIN command_to_bit
      BY <2>1, CommandOfKnown, RequestCommandsHaveBits
    <3> QED BY <2>1, <3>1, CommandHasBit
  <2>3. CASE q.kind = "CreateMap"
    <3>1. q.type \in DOMAIN map_type_to_bit
      BY <2>3, EditsAssumption DEF Requests
    <3>2. is_map_op_allowed(config, Role, q.type, "create")
      BY <2>3, AllowedParts DEF Role
    <3> QED BY <2>2, <2>3, <3>1, <3>2, MapOpHasBit
  <2>4. CASE q.kind # "CreateMap"
    <3>1. q.type \in DOMAIN prog_type_to_bit
      BY <2>4, EditsAssumption DEF Requests
    <3>2. PICK o : is_prog_op_allowed(config, Role, q.type, o)
      BY <2>4, AllowedParts DEF Role
    <3> QED BY <2>2, <2>4, <3>1, <3>2, ProgOpHasBit
  <2> QED BY <2>3, <2>4
<1> QED BY <1>1, PTL

\* For a role without `any`, the command bitmap is exact.
THEOREM CommandBitmapAlwaysExact == Spec => []CommandBitmapExact
<1>1. CommandBitmapExact
  BY CommandBitmapIsExact DEF CommandBitmapExact
<1> QED BY <1>1, PTL

-----------------------------------------------------------------------------
(* Monotonicity of edits.                                                   *)

\* check_type_op consults the same key of two maps that agree on having the
\* wildcard, so the one that lists more accepts more.
LEMMA CheckTypeOpMonotone ==
  ASSUME NEW m, NEW n, NarrowerMap(m, n), NEW t, NEW o, check_type_op(m, t, o)
  PROVE  check_type_op(n, t, o)
<1> DEFINE key == IF Wildcard \in DOMAIN m THEN Wildcard ELSE t
<1>1. Wildcard \in DOMAIN m <=> Wildcard \in DOMAIN n
  BY DEF NarrowerMap
<1>2. key \in DOMAIN m /\ {Wildcard, o} \cap m[key] # {}
  BY DEF check_type_op
<1>3. key \in DOMAIN n /\ m[key] \subseteq n[key]
  BY <1>2 DEF NarrowerMap
<1>4. {Wildcard, o} \cap n[key] # {}
  BY <1>2, <1>3
<1> QED BY <1>1, <1>3, <1>4 DEF check_type_op

\* A policy that lists more, under a ceiling that lists more or is absent,
\* answers yes wherever the narrower one does.
LEMMA DecisionsMonotone ==
  ASSUME NEW c, NEW d, Narrower(c, d)
  PROVE  Decisions(c) \subseteq Decisions(d)
<1> DEFINE rc == c.roles[RoleName]
           rd == d.roles[RoleName]
<1>1. NarrowerGrant(rc, rd)
  BY DEF Narrower
<1>2. \A s \in d.system_policy : \E t \in c.system_policy : NarrowerGrant(t, s)
  BY DEF Narrower
<1>3. ASSUME NEW x, is_command_allowed(c, rc, x)
      PROVE  is_command_allowed(d, rd, x)
  <2>1. {Wildcard, x} \cap rd.commands # {}
    BY <1>1, <1>3 DEF is_command_allowed, NarrowerGrant
  <2>2. ASSUME NEW s \in d.system_policy
        PROVE  {Wildcard, x} \cap s.commands # {}
    <3>1. PICK t \in c.system_policy : NarrowerGrant(t, s)
      BY <1>2
    <3>2. {Wildcard, x} \cap t.commands # {}
      BY <1>3 DEF is_command_allowed
    <3> QED BY <3>1, <3>2 DEF NarrowerGrant
  <2> QED BY <2>1, <2>2 DEF is_command_allowed
<1>4. ASSUME NEW x, NEW o, is_prog_op_allowed(c, rc, x, o)
      PROVE  is_prog_op_allowed(d, rd, x, o)
  <2>1. check_type_op(rd.prog_types, x, o)
    BY <1>1, <1>4, CheckTypeOpMonotone DEF is_prog_op_allowed, NarrowerGrant
  <2>2. ASSUME NEW s \in d.system_policy
        PROVE  check_type_op(s.prog_types, x, o)
    <3>1. PICK t \in c.system_policy : NarrowerGrant(t, s)
      BY <1>2
    <3>2. check_type_op(t.prog_types, x, o)
      BY <1>4 DEF is_prog_op_allowed
    <3> QED BY <3>1, <3>2, CheckTypeOpMonotone DEF NarrowerGrant
  <2> QED BY <2>1, <2>2 DEF is_prog_op_allowed
<1>5. ASSUME NEW x, NEW o, is_map_op_allowed(c, rc, x, o)
      PROVE  is_map_op_allowed(d, rd, x, o)
  <2>1. check_type_op(rd.map_types, x, o)
    BY <1>1, <1>5, CheckTypeOpMonotone DEF is_map_op_allowed, NarrowerGrant
  <2>2. ASSUME NEW s \in d.system_policy
        PROVE  check_type_op(s.map_types, x, o)
    <3>1. PICK t \in c.system_policy : NarrowerGrant(t, s)
      BY <1>2
    <3>2. check_type_op(t.map_types, x, o)
      BY <1>5 DEF is_map_op_allowed
    <3> QED BY <3>1, <3>2, CheckTypeOpMonotone DEF NarrowerGrant
  <2> QED BY <2>1, <2>2 DEF is_map_op_allowed
<1> QED BY <1>3, <1>4, <1>5 DEF Decisions

\* No edit that only removes entries, or adds a ceiling, ever grants, and no
\* edit that only adds entries ever revokes, the wildcard type excepted.
THEOREM EditsAreMonotone == Spec => EditsMonotone
<1>1. /\ Narrower(config', config) => Decisions(config') \subseteq Decisions(config)
      /\ Narrower(config, config') => Decisions(config) \subseteq Decisions(config')
  BY DecisionsMonotone
<1> QED BY <1>1, PTL DEF EditsMonotone

-----------------------------------------------------------------------------
(* The edits keep the policy a PolicyConfig.                                *)

Dimensions == {"commands", "prog_types", "map_types"}

\* What an edit may write in the dimension.
Entries(v) ==
  IF dim = "commands" THEN v \subseteq Commands \cup {Wildcard}
  ELSE v \in TypeMaps(dim)

GrantOK(g) ==
  /\ Dimensions \subseteq DOMAIN g
  /\ g.commands \subseteq Commands \cup {Wildcard}
  /\ dim # "commands" => g[dim] \in TypeMaps(dim)

ConfigOK(cfg) ==
  /\ DOMAIN cfg = {"system_policy", "roles"}
  /\ DOMAIN cfg.roles = {RoleName}
  /\ GrantOK(cfg.roles[RoleName])
  /\ cfg.system_policy = {} \/ \E s : cfg.system_policy = {s} /\ GrantOK(s)

Inv == dim \in Dimensions /\ ConfigOK(config)

\* The type maps by their keys and values.
LEMMA TypeMapsByKeys ==
  ASSUME NEW d, NEW m
  PROVE  m \in TypeMaps(d)
           <=> DOMAIN m \subseteq Names(d) /\ m \in [DOMAIN m -> SUBSET OpsOf(d)]
BY DEF TypeMaps

\* A grant in which the dimension is written stays one.
LEMMA PutGrant ==
  ASSUME dim \in Dimensions, NEW g, GrantOK(g), NEW v, Entries(v)
  PROVE  GrantOK([g EXCEPT ![dim] = v])
<1> DEFINE h == [g EXCEPT ![dim] = v]
<1> SUFFICES GrantOK(h)
  OBVIOUS
<1>1. DOMAIN h = DOMAIN g /\ dim \in DOMAIN g /\ "commands" \in DOMAIN g
  BY DEF GrantOK, Dimensions
<1>2. h[dim] = v
  BY <1>1
<1>3. CASE dim = "commands"
  <2>1. h.commands \subseteq Commands \cup {Wildcard}
    BY <1>2, <1>3 DEF Entries
  <2> HIDE DEF h
  <2> QED BY <1>1, <1>3, <2>1 DEF GrantOK
<1>4. CASE dim # "commands"
  <2>1. h.commands = g.commands
    BY <1>1, <1>4
  <2>2. h[dim] \in TypeMaps(dim)
    BY <1>2, <1>4 DEF Entries
  <2> HIDE DEF h
  <2> QED BY <1>1, <2>1, <2>2 DEF GrantOK
<1> QED BY <1>3, <1>4

\* Writing such entries keeps the invariant, whoever holds them.
LEMMA PutKeepsInv ==
  ASSUME Inv, NEW h \in Holders, NEW v, Entries(v), Put(h, v)
  PROVE  Inv'
<1>1. dim' = dim /\ dim \in Dimensions /\ ConfigOK(config)
  BY DEF Put, Inv
<1>2. ConfigOK(config')
  <2>1. CASE h = "role"
    <3> DEFINE new == [config.roles[RoleName] EXCEPT ![dim] = v]
    <3>1. GrantOK(new)
      BY <1>1, PutGrant DEF ConfigOK
    <3>2. /\ DOMAIN config' = DOMAIN config
          /\ config'.system_policy = config.system_policy
          /\ DOMAIN config'.roles = DOMAIN config.roles
          /\ config'.roles[RoleName] = new
      BY <1>1, <2>1 DEF Put, ConfigOK
    <3> HIDE DEF new
    <3> QED BY <1>1, <3>1, <3>2 DEF ConfigOK
  <2>2. CASE h # "role"
    <3>1. /\ DOMAIN config' = DOMAIN config
          /\ config'.roles = config.roles
          /\ config'.system_policy = {[s EXCEPT ![dim] = v] : s \in config.system_policy}
      BY <1>1, <2>2 DEF Put, ConfigOK
    <3>2. CASE config.system_policy = {}
      BY <1>1, <3>1, <3>2 DEF ConfigOK
    <3>3. CASE \E s : config.system_policy = {s} /\ GrantOK(s)
      <4>1. PICK s : config.system_policy = {s} /\ GrantOK(s)
        BY <3>3
      <4> DEFINE new == [s EXCEPT ![dim] = v]
      <4>2. GrantOK(new)
        BY <1>1, <4>1, PutGrant
      <4>3. config'.system_policy = {new}
        BY <3>1, <4>1
      <4> HIDE DEF new
      <4> QED BY <1>1, <3>1, <4>2, <4>3 DEF ConfigOK
    <3> QED BY <1>1, <3>2, <3>3 DEF ConfigOK
  <2> QED BY <2>1, <2>2
<1> QED BY <1>1, <1>2 DEF Inv, ConfigOK, GrantOK

\* The grants an edit starts from.
LEMMA HeldGrants ==
  ASSUME Inv, NEW h \in Holders, NEW g \in Grant(h)
  PROVE  GrantOK(g)
BY DEF Inv, ConfigOK, Grant, Role

\* A grant without entries in the dimension.
LEMMA EmptyGrant ==
  ASSUME dim \in Dimensions
  PROVE  /\ GrantOK(EmptyIn(dim))
         /\ DOMAIN EmptyIn(dim) = Dimensions
<1>1. DOMAIN EmptyIn(dim) = Dimensions
  BY DEF EmptyIn, Dimensions
<1>2. EmptyIn(dim).commands \subseteq Commands \cup {Wildcard}
  BY DEF EmptyIn, Dimensions, NoEntries
<1>3. ASSUME dim # "commands" PROVE EmptyIn(dim)[dim] \in TypeMaps(dim)
  <2>1. EmptyIn(dim)[dim] = <<>>
    BY <1>3 DEF EmptyIn, Dimensions, NoEntries
  <2>2. <<>> \in [{} -> SUBSET OpsOf(dim)]
    OBVIOUS
  <2>3. {} \in SUBSET Names(dim)
    OBVIOUS
  <2> QED BY <2>1, <2>2, <2>3 DEF TypeMaps
<1> QED BY <1>1, <1>2, <1>3 DEF GrantOK

LEMMA InitEstablishesInv == Init => Inv
<1> SUFFICES ASSUME Init PROVE Inv
  OBVIOUS
<1> DEFINE E == EmptyIn(dim)
           R == [groups |-> {RoleName}, commands |-> E.commands,
                 prog_types |-> E.prog_types, map_types |-> E.map_types]
<1>1. dim \in Dimensions
  BY DEF Init, Dimensions
<1>2. GrantOK(E)
  BY <1>1, EmptyGrant
<1>3. /\ config.system_policy = {} /\ DOMAIN config = {"system_policy", "roles"}
      /\ DOMAIN config.roles = {RoleName} /\ config.roles[RoleName] = R
  BY DEF Init
<1>4. GrantOK(R)
  <2> HIDE DEF E
  <2>1. Dimensions \subseteq DOMAIN R /\ R.commands = E.commands
    BY DEF Dimensions
  <2>2. dim # "commands" => R[dim] = E[dim]
    BY <1>1 DEF Dimensions
  <2> HIDE DEF R
  <2> QED BY <1>2, <2>1, <2>2 DEF GrantOK
<1> HIDE DEF R
<1> QED BY <1>1, <1>3, <1>4 DEF Inv, ConfigOK

\* One edit of a holder's entries.
LEMMA EditKeepsInv ==
  ASSUME Inv, NEW h \in Holders, NEW n \in Names(dim),
         \/ AddCommand(h, n)
         \/ RemoveCommand(h, n)
         \/ AddType(h, n)
         \/ RemoveType(h, n)
         \/ \E o \in OpsOf(dim) : AddOp(h, n, o) \/ RemoveOp(h, n, o)
  PROVE  Inv'
<1>1. CASE AddCommand(h, n)
  <2>1. PICK g \in Grant(h) : Put(h, g.commands \cup {n})
    BY <1>1 DEF AddCommand
  <2>2. n \in Commands \cup {Wildcard} /\ dim = "commands"
    BY <1>1 DEF AddCommand, Names
  <2>3. Entries(g.commands \cup {n})
    BY <2>2, HeldGrants DEF Entries, GrantOK
  <2> QED BY <2>1, <2>3, PutKeepsInv
<1>2. CASE RemoveCommand(h, n)
  <2>1. PICK g \in Grant(h) : Put(h, g.commands \ {n})
    BY <1>2 DEF RemoveCommand
  <2>2. Entries(g.commands \ {n})
    BY <1>2, HeldGrants DEF RemoveCommand, Entries, GrantOK
  <2> QED BY <2>1, <2>2, PutKeepsInv
<1>3. ASSUME dim # "commands", NEW g \in Grant(h)
      PROVE  /\ DOMAIN g[dim] \subseteq Names(dim)
             /\ g[dim] \in [DOMAIN g[dim] -> SUBSET OpsOf(dim)]
  BY <1>3, HeldGrants, TypeMapsByKeys DEF GrantOK
<1>4. CASE AddType(h, n)
  <2>1. PICK g \in Grant(h) :
          Put(h, [k \in DOMAIN g[dim] \cup {n} |-> IF k = n THEN {} ELSE g[dim][k]])
    BY <1>4 DEF AddType
  <2> DEFINE m == [k \in DOMAIN g[dim] \cup {n} |-> IF k = n THEN {} ELSE g[dim][k]]
  <2>2. dim # "commands"
    BY <1>4 DEF AddType
  <2>3. DOMAIN m \subseteq Names(dim) /\ m \in [DOMAIN m -> SUBSET OpsOf(dim)]
    BY <1>3, <2>2
  <2> HIDE DEF m
  <2>4. Entries(m)
    BY <2>2, <2>3, TypeMapsByKeys DEF Entries
  <2> USE DEF m
  <2> QED BY <2>1, <2>4, PutKeepsInv
<1>5. CASE RemoveType(h, n)
  <2>1. PICK g \in Grant(h) : Put(h, [k \in DOMAIN g[dim] \ {n} |-> g[dim][k]])
    BY <1>5 DEF RemoveType
  <2> DEFINE m == [k \in DOMAIN g[dim] \ {n} |-> g[dim][k]]
  <2>2. dim # "commands"
    BY <1>5 DEF RemoveType
  <2>3. DOMAIN m \subseteq Names(dim) /\ m \in [DOMAIN m -> SUBSET OpsOf(dim)]
    BY <1>3, <2>2
  <2> HIDE DEF m
  <2>4. Entries(m)
    BY <2>2, <2>3, TypeMapsByKeys DEF Entries
  <2> USE DEF m
  <2> QED BY <2>1, <2>4, PutKeepsInv
<1>6. ASSUME NEW o \in OpsOf(dim), AddOp(h, n, o)
      PROVE  Inv'
  <2>1. PICK g \in Grant(h) : /\ n \in DOMAIN g[dim]
                              /\ Put(h, [g[dim] EXCEPT ![n] = @ \cup {o}])
    BY <1>6 DEF AddOp
  <2> DEFINE m == [g[dim] EXCEPT ![n] = @ \cup {o}]
  <2>2. dim # "commands"
    BY <1>6 DEF AddOp
  <2>3. DOMAIN m \subseteq Names(dim) /\ m \in [DOMAIN m -> SUBSET OpsOf(dim)]
    BY <1>3, <2>1, <2>2
  <2> HIDE DEF m
  <2>4. Entries(m)
    BY <2>2, <2>3, TypeMapsByKeys DEF Entries
  <2> USE DEF m
  <2> QED BY <2>1, <2>4, PutKeepsInv
<1>7. ASSUME NEW o \in OpsOf(dim), RemoveOp(h, n, o)
      PROVE  Inv'
  <2>1. PICK g \in Grant(h) : /\ n \in DOMAIN g[dim]
                              /\ Put(h, [g[dim] EXCEPT ![n] = @ \ {o}])
    BY <1>7 DEF RemoveOp
  <2> DEFINE m == [g[dim] EXCEPT ![n] = @ \ {o}]
  <2>2. dim # "commands"
    BY <1>7 DEF RemoveOp
  <2>3. DOMAIN m \subseteq Names(dim) /\ m \in [DOMAIN m -> SUBSET OpsOf(dim)]
    BY <1>3, <2>1, <2>2
  <2> HIDE DEF m
  <2>4. Entries(m)
    BY <2>2, <2>3, TypeMapsByKeys DEF Entries
  <2> USE DEF m
  <2> QED BY <2>1, <2>4, PutKeepsInv
<1> QED BY <1>1, <1>2, <1>4, <1>5, <1>6, <1>7

\* Adding the section of the system policy or removing it.
LEMMA SectionKeepsInv ==
  ASSUME Inv, AddSystemPolicy \/ RemoveSystemPolicy
  PROVE  Inv'
<1>1. dim' = dim /\ dim \in Dimensions /\ ConfigOK(config)
  BY DEF AddSystemPolicy, RemoveSystemPolicy, Inv
<1>2. ConfigOK(config')
  <2>1. CASE AddSystemPolicy
    <3>1. /\ DOMAIN config' = DOMAIN config /\ config'.roles = config.roles
          /\ config'.system_policy = {EmptyIn(dim)}
      BY <1>1, <2>1 DEF AddSystemPolicy, ConfigOK
    <3> QED BY <1>1, <3>1, EmptyGrant DEF ConfigOK
  <2>2. CASE RemoveSystemPolicy
    <3>1. /\ DOMAIN config' = DOMAIN config /\ config'.roles = config.roles
          /\ config'.system_policy = {}
      BY <1>1, <2>2 DEF RemoveSystemPolicy, ConfigOK
    <3> QED BY <1>1, <3>1 DEF ConfigOK
  <2> QED BY <2>1, <2>2
<1> QED BY <1>1, <1>2 DEF Inv, ConfigOK, GrantOK

LEMMA StepKeepsInv == Inv /\ [Next]_vars => Inv'
<1> SUFFICES ASSUME Inv, [Next]_vars PROVE Inv'
  OBVIOUS
<1>1. CASE Next
  BY <1>1, EditKeepsInv, SectionKeepsInv DEF Next
<1>2. CASE UNCHANGED vars
  BY <1>2 DEF vars, Inv, ConfigOK, GrantOK
<1> QED BY <1>1, <1>2

\* The bitmaps of any role under any policy are u32 values.
LEMMA BitmapsInRange ==
  ASSUME NEW cfg, NEW role
  PROVE  /\ commands_bitmap(cfg, role) \subseteq AllBits
         /\ prog_types_bitmap(cfg, role) \subseteq AllBits
         /\ map_types_bitmap(cfg, role) \subseteq AllBits
<1>1. \A names : /\ BitsOf(command_to_bit, names) \subseteq AllBits
                 /\ BitsOf(prog_type_to_bit, names) \subseteq AllBits
                 /\ BitsOf(map_type_to_bit, names) \subseteq AllBits
  BY BitsInRange DEF BitsOf
<1> QED BY <1>1 DEF commands_bitmap, prog_types_bitmap, map_types_bitmap

\* Whatever edits are made, in whatever order, the policy stays a PolicyConfig
\* with at most one system policy, and the bitmaps fit their 32 bits.
THEOREM EditsKeepPolicy == Spec => []TypeOK
<1>1. ASSUME Inv PROVE TypeOK
  <2>1. Cardinality(config.system_policy) <= 1
    <3>1. config.system_policy = {} \/ \E s : config.system_policy = {s}
      BY <1>1 DEF Inv, ConfigOK
    <3>2. Cardinality(config.system_policy) \in {0, 1}
      BY <3>1, FS_EmptySet, FS_Singleton
    <3> QED BY <3>2
  <2>2. \A g \in config.system_policy \cup {Role} : GrantOK(g)
    BY <1>1 DEF Inv, ConfigOK, Role
  <2> QED BY <2>1, <2>2, BitmapsInRange DEF TypeOK, GrantOK
<1> QED BY <1>1, InitEstablishesInv, StepKeepsInv, PTL DEF Spec
=============================================================================
