----------------------------- MODULE LsmProofs ------------------------------
(* The hooks decide as the policy says, for every set of processes, ids,     *)
(* grants and calls, and for every lookup of the namespace.                  *)
EXTENDS Lsm, PolicyProofs

-----------------------------------------------------------------------------
(* What an entry of the map means.                                          *)

\* The numbers of bpf-rbacd-common and those of policy.rs are the same.
LEMMA TablesAgree ==
  /\ \A c \in DOMAIN commands : commands[c] < 32 =>
       c \in DOMAIN command_to_bit /\ commands[c] = command_to_bit[c]
  /\ \A t \in DOMAIN prog_types :
       t \in DOMAIN prog_type_to_bit /\ prog_types[t] = prog_type_to_bit[t]
  /\ \A t \in DOMAIN map_types :
       t \in DOMAIN map_type_to_bit /\ map_types[t] = map_type_to_bit[t]
<1>1. \A c \in DOMAIN commands : commands[c] < 32 =>
        c \in DOMAIN command_to_bit /\ commands[c] = command_to_bit[c]
  BY DEF commands, command_to_bit
<1>2. \A t \in DOMAIN prog_types :
        t \in DOMAIN prog_type_to_bit /\ prog_types[t] = prog_type_to_bit[t]
  BY DEF prog_types, prog_type_to_bit
<1>3. \A t \in DOMAIN map_types :
        t \in DOMAIN map_type_to_bit /\ map_types[t] = map_type_to_bit[t]
  BY DEF map_types, map_type_to_bit
<1> QED BY <1>1, <1>2, <1>3

\* Every value, the two constructors' included, holds the bitmaps of its grant.
LEMMA ValueOfGrant ==
  ASSUME NEW v \in Values
  PROVE  /\ v.flags = v.for.flags
         /\ v.allowed_cmds = commands_bitmap(v.for.cfg, v.for.role)
         /\ v.allowed_prog_types = prog_types_bitmap(v.for.cfg, v.for.role)
         /\ v.allowed_map_types = map_types_bitmap(v.for.cfg, v.for.role)
<1>1. CASE \E g \in Grants : v = PolicyValue(g)
  BY <1>1 DEF PolicyValue
<1>2. CASE v = empty
  <2> DEFINE g == Bare({}, <<>>)
  <2>1. v.for = g /\ v.flags = {} /\ v.allowed_cmds = {}
        /\ v.allowed_prog_types = {} /\ v.allowed_map_types = {}
    BY <1>2 DEF empty
  <2>2. /\ g.flags = {} /\ g.cfg.system_policy = {} /\ g.role.commands = {}
        /\ g.role.prog_types = <<>> /\ g.role.map_types = <<>>
    BY DEF Bare
  <2>3. DOMAIN <<>> = {}
    OBVIOUS
  <2>4. /\ commands_bitmap(g.cfg, g.role) = {}
        /\ prog_types_bitmap(g.cfg, g.role) = {}
        /\ map_types_bitmap(g.cfg, g.role) = {}
    BY <2>2, <2>3 DEF commands_bitmap, prog_types_bitmap, map_types_bitmap, BitsOf
  <2> QED BY <2>1, <2>2, <2>4
<1>3. CASE v = allow_all
  <2> DEFINE g == Bare({Wildcard}, [any |-> {Wildcard}])
  <2>1. v.for = g /\ v.flags = {} /\ v.allowed_cmds = AllBits
        /\ v.allowed_prog_types = AllBits /\ v.allowed_map_types = AllBits
    BY <1>3 DEF allow_all
  <2>2. /\ g.flags = {} /\ Wildcard \in g.role.commands
        /\ g.role.prog_types = [any |-> {Wildcard}]
        /\ g.role.map_types = [any |-> {Wildcard}]
    BY DEF Bare
  <2>3. Wildcard \in DOMAIN [any |-> {Wildcard}]
    BY DEF Wildcard
  <2> QED BY <2>1, <2>2, <2>3 DEF commands_bitmap, prog_types_bitmap,
                                  map_types_bitmap
<1> QED BY <1>1, <1>2, <1>3 DEF Values

\* security_bpf admits exactly the commands the grant names, as far as they
\* have a bit.
LEMMA CommandMeans ==
  ASSUME NEW v \in Values, NEW c \in Calls
  PROVE  /\ Admits(v, v.allowed_cmds, commands[c.cmd]) => CommandGranted(v.for, c)
         /\ CommandGranted(v.for, c) /\ HasBit(c)
              => Admits(v, v.allowed_cmds, commands[c.cmd])
         /\ ~ Admits(v, v.allowed_cmds, commands[c.cmd]) => Refuses(v.for, c)
<1> DEFINE g == v.for
           n == commands[c.cmd]
<1>1. v.flags = g.flags /\ v.allowed_cmds = commands_bitmap(g.cfg, g.role)
  BY ValueOfGrant
<1>2. c.cmd \in DOMAIN commands
  BY LsmAssumption DEF LsmAssumption
<1>3. ASSUME n < 32
      PROVE  n \in commands_bitmap(g.cfg, g.role)
               <=> \/ Wildcard \in g.role.commands
                   \/ is_command_allowed(g.cfg, g.role, c.cmd)
  <2>1. c.cmd \in DOMAIN command_to_bit /\ n = command_to_bit[c.cmd]
    BY <1>2, <1>3, TablesAgree
  <2>2. CASE Wildcard \in g.role.commands
    BY <2>1, <2>2, BitsInRange DEF commands_bitmap
  <2>3. CASE Wildcard \notin g.role.commands
    BY <2>1, <2>3, CommandBitmapIsExact
  <2> QED BY <2>2, <2>3
<1>4. /\ Admits(v, v.allowed_cmds, n) => CommandGranted(g, c)
      /\ CommandGranted(g, c) /\ HasBit(c) => Admits(v, v.allowed_cmds, n)
  BY <1>1, <1>3 DEF Admits, CommandGranted, HasBit
<1>5. ASSUME ~ Admits(v, v.allowed_cmds, n) PROVE Refuses(g, c)
  BY <1>1, <1>4, <1>5 DEF Admits, CommandGranted, Refuses
<1> QED BY <1>4, <1>5

\* A bitmap of types holds the types listed, under any of their names.
LEMMA ListedMeansBit ==
  ASSUME NEW to_bit, NEW m, NEW t \in DOMAIN to_bit, to_bit[t] \in AllBits
  PROVE  to_bit[t] \in SystemBitmap(to_bit, DOMAIN m) <=> Lists(m, to_bit, t)
BY DEF SystemBitmap, BitsOf, Lists

\* The hooks of the types admit exactly the types the grant lists.
LEMMA ProgMeans ==
  ASSUME NEW v \in Values, NEW c \in Calls, c.cmd = "PROG_LOAD"
  PROVE  Admits(v, v.allowed_prog_types, prog_types[c.type])
           <=> TypeGranted(v.for, c)
<1> DEFINE g == v.for
           b == prog_type_to_bit[c.type]
<1>1. v.flags = g.flags
      /\ v.allowed_prog_types = prog_types_bitmap(g.cfg, g.role)
  BY ValueOfGrant
<1>2. c.type \in DOMAIN prog_type_to_bit /\ prog_types[c.type] = b /\ b \in AllBits
  BY LsmAssumption, TablesAgree, BitsInRange DEF LsmAssumption
<1>3. \A m : b \in SystemBitmap(prog_type_to_bit, DOMAIN m)
               <=> Lists(m, prog_type_to_bit, c.type)
  BY <1>2, ListedMeansBit
<1>4. b \in prog_types_bitmap(g.cfg, g.role)
        <=> \/ Wildcard \in DOMAIN g.role.prog_types
            \/ \A h \in g.cfg.system_policy \cup {g.role} :
                 Lists(h.prog_types, prog_type_to_bit, c.type)
  <2>1. CASE Wildcard \in DOMAIN g.role.prog_types
    BY <1>2, <2>1 DEF prog_types_bitmap
  <2>2. CASE Wildcard \notin DOMAIN g.role.prog_types
    BY <1>3, <2>2 DEF prog_types_bitmap, SystemBitmap
  <2> QED BY <2>1, <2>2
<1>5. b < 32
  BY <1>2 DEF AllBits
<1> QED BY <1>1, <1>2, <1>4, <1>5 DEF Admits, TypeGranted

LEMMA MapMeans ==
  ASSUME NEW v \in Values, NEW c \in Calls, c.cmd = "MAP_CREATE"
  PROVE  Admits(v, v.allowed_map_types, map_types[c.type])
           <=> TypeGranted(v.for, c)
<1> DEFINE g == v.for
           b == map_type_to_bit[c.type]
<1>1. v.flags = g.flags
      /\ v.allowed_map_types = map_types_bitmap(g.cfg, g.role)
  BY ValueOfGrant
<1>2. c.type \in DOMAIN map_type_to_bit /\ map_types[c.type] = b /\ b \in AllBits
  BY LsmAssumption, TablesAgree, BitsInRange DEF LsmAssumption
<1>3. \A m : b \in SystemBitmap(map_type_to_bit, DOMAIN m)
               <=> Lists(m, map_type_to_bit, c.type)
  BY <1>2, ListedMeansBit
<1>4. b \in map_types_bitmap(g.cfg, g.role)
        <=> \/ Wildcard \in DOMAIN g.role.map_types
            \/ \A h \in g.cfg.system_policy \cup {g.role} :
                 Lists(h.map_types, map_type_to_bit, c.type)
  <2>1. CASE Wildcard \in DOMAIN g.role.map_types
    BY <1>2, <2>1 DEF map_types_bitmap
  <2>2. CASE Wildcard \notin DOMAIN g.role.map_types
    BY <1>3, <2>2 DEF map_types_bitmap, SystemBitmap
  <2> QED BY <2>1, <2>2
<1>5. b < 32
  BY <1>2 DEF AllBits
<1> QED BY <1>1, <1>2, <1>4, <1>5 DEF Admits, TypeGranted

-----------------------------------------------------------------------------
(* The system calls.                                                        *)

\* Process p's call has seen the entry its id has now; past the first hook its
\* command was granted by an entry it has seen.
Tracked(p) ==
  /\ pc[p] # "idle" =>
       \A id \in get_current_userns_id(p) : policy_map[id] \in seen[p]
  /\ pc[p] \in {"prog_load", "map_create"} /\ {} \notin seen[p] =>
       \A c \in call[p] : ~ c.kernel =>
         \E e \in seen[p] : \E v \in e : CommandGranted(v.for, c)

Ran(p) ==
  pc[p] = "ran" /\ {} \notin seen[p] =>
    \A c \in call[p] : ~ c.kernel =>
      /\ \E e \in seen[p] : \E v \in e : CommandGranted(v.for, c)
      /\ \E e \in seen[p] : \E v \in e : TypeGranted(v.for, c)

Denied(p) ==
  pc[p] = "denied" =>
    \A c \in call[p] :
      /\ ~ c.kernel
      /\ get_current_userns_id(p) # {} =>
           \E e \in seen[p] : \E v \in e : Refuses(v.for, c)

Inv == TypeOK /\ \A p \in Procs : Tracked(p) /\ Ran(p) /\ Denied(p)

\* The entries of a process's id are entries of the map.
LEMMA EntryType ==
  ASSUME TypeOK, NEW id \in Ids
  PROVE  policy_map[id] \subseteq Values
<1>1. policy_map[id] \in Option(Values)
  BY DEF TypeOK
<1> QED BY <1>1 DEF Option

LEMMA ResolverType ==
  ASSUME NEW p \in Procs
  PROVE  get_current_userns_id(p) \subseteq Ids
<1>1. Resolver[p] \in Option(Ids)
  BY LsmAssumption DEF LsmAssumption
<1> QED BY <1>1 DEF Option, get_current_userns_id

LEMMA CallType ==
  ASSUME TypeOK, NEW p \in Procs
  PROVE  call[p] \subseteq Calls /\ \A c, d \in call[p] : c = d
<1>1. call[p] \in Option(Calls)
  BY DEF TypeOK
<1> QED BY <1>1 DEF Option

\* A write of the map only adds to what the calls in progress have seen.
LEMMA PutStep ==
  ASSUME Inv, NEW id \in Ids, NEW e \in Option(Values), Put(id, e)
  PROVE  Inv'
<1>1. TypeOK'
  BY DEF Inv, TypeOK, Put
<1>2. ASSUME NEW p \in Procs PROVE Tracked(p)' /\ Ran(p)' /\ Denied(p)'
  <2>1. Tracked(p) /\ Ran(p) /\ Denied(p)
    BY DEF Inv
  <2>2. /\ pc'[p] = pc[p] /\ call'[p] = call[p] /\ seen[p] \subseteq seen'[p]
        /\ pc[p] # "idle" /\ id \in get_current_userns_id(p) => e \in seen'[p]
    BY DEF Put
  <2>3. policy_map \in [Ids -> Option(Values)]
    BY DEF Inv, TypeOK
  <2>4. Tracked(p)'
    <3>1. ASSUME pc[p] # "idle", NEW i \in get_current_userns_id(p)
          PROVE  policy_map'[i] \in seen'[p]
      <4>1. i \in Ids
        BY ResolverType
      <4> QED BY <2>1, <2>2, <2>3, <3>1, <4>1 DEF Tracked, Put
    <3>2. ASSUME pc[p] \in {"prog_load", "map_create"}, {} \notin seen'[p],
                 NEW c \in call[p], ~ c.kernel
          PROVE  \E x \in seen'[p] : \E v \in x : CommandGranted(v.for, c)
      BY <2>1, <2>2, <3>2 DEF Tracked
    <3> QED BY <2>2, <3>1, <3>2 DEF Tracked, get_current_userns_id
  <2>5. Ran(p)'
    BY <2>1, <2>2 DEF Ran
  <2>6. Denied(p)'
    BY <2>1, <2>2 DEF Denied, get_current_userns_id
  <2> QED BY <2>4, <2>5, <2>6
<1> QED BY <1>1, <1>2 DEF Inv

\* A step of one process leaves what holds of the others.
LEMMA OthersKeep ==
  ASSUME Inv, NEW p \in Procs, UNCHANGED policy_map,
         \A q \in Procs \ {p} :
           pc'[q] = pc[q] /\ call'[q] = call[q] /\ seen'[q] = seen[q],
         TypeOK', Tracked(p)', Ran(p)', Denied(p)'
  PROVE  Inv'
<1>1. ASSUME NEW q \in Procs \ {p} PROVE Tracked(q)' /\ Ran(q)' /\ Denied(q)'
  <2>1. Tracked(q) /\ Ran(q) /\ Denied(q)
        /\ pc'[q] = pc[q] /\ call'[q] = call[q] /\ seen'[q] = seen[q]
    BY <1>1 DEF Inv
  <2> QED BY <2>1 DEF Tracked, Ran, Denied, get_current_userns_id
<1> QED BY <1>1 DEF Inv

\* The end of a hook: what is known of the call at its new place.
LEMMA HookStep ==
  ASSUME Inv, NEW p \in Procs, NEW c \in call[p],
         NEW to \in {"prog_load", "map_create", "ran", "denied"},
         pc[p] # "idle", Goto(p, to),
         to = "prog_load" => c.cmd = "PROG_LOAD",
         to = "map_create" => c.cmd = "MAP_CREATE",
         to # "denied" /\ {} \notin seen[p] /\ ~ c.kernel =>
           \E e \in seen[p] : \E v \in e : CommandGranted(v.for, c),
         to = "ran" /\ {} \notin seen[p] /\ ~ c.kernel =>
           \E e \in seen[p] : \E v \in e : TypeGranted(v.for, c),
         to = "denied" =>
           /\ ~ c.kernel
           /\ get_current_userns_id(p) # {} =>
                \E e \in seen[p] : \E v \in e : Refuses(v.for, c)
  PROVE  Inv'
<1>1. /\ pc'[p] = to /\ call' = call /\ seen' = seen /\ policy_map' = policy_map
      /\ \A q \in Procs \ {p} : pc'[q] = pc[q]
  BY DEF Inv, TypeOK, Goto
<1>2. \A d \in call[p] : d = c
  BY CallType DEF Inv
<1>3. TypeOK'
  <2>1. pc' \in [Procs -> {"idle", "bpf", "prog_load", "map_create", "ran", "denied"}]
    BY DEF Inv, TypeOK, Goto
  <2>2. \A q \in Procs : \A d \in call'[q] :
          /\ pc'[q] = "prog_load" => d.cmd = "PROG_LOAD"
          /\ pc'[q] = "map_create" => d.cmd = "MAP_CREATE"
    BY <1>1, <1>2 DEF Inv, TypeOK
  <2> QED BY <1>1, <2>1, <2>2 DEF Inv, TypeOK
<1>4. Tracked(p)
  BY DEF Inv
<1>5. Tracked(p)'
  BY <1>1, <1>2, <1>4 DEF Tracked, get_current_userns_id
<1>6. Ran(p)'
  BY <1>1, <1>2 DEF Ran
<1>7. Denied(p)'
  BY <1>1, <1>2 DEF Denied, get_current_userns_id
<1> QED BY <1>1, <1>3, <1>5, <1>6, <1>7, OthersKeep

LEMMA InitInv == Init => Inv
<1> SUFFICES ASSUME Init PROVE Inv
  OBVIOUS
<1>1. \A S : {} \in Option(S)
  BY DEF Option
<1>2. TypeOK
  BY <1>1 DEF Init, TypeOK
<1> QED BY <1>2 DEF Init, Inv, Tracked, Ran, Denied

LEMMA NextInv == ASSUME Inv, [Next]_vars PROVE Inv'
<1>1. ASSUME NEW id \in Ids, Remove(id) PROVE Inv'
  BY <1>1, PutStep DEF Remove, Option
<1>2. ASSUME NEW id \in Ids, NEW v \in Values, Insert(id, v) PROVE Inv'
  BY <1>2, PutStep DEF Insert, Option
<1>3. ASSUME NEW p \in Procs, NEW c \in Calls, Enter(p, c) PROVE Inv'
  <2>1. {c} \in Option(Calls)
    BY DEF Option
  <2>2. {policy_map[i] : i \in get_current_userns_id(p)} \subseteq Option(Values)
    BY ResolverType DEF Inv, TypeOK
  <2>3. /\ pc' \in [Procs -> {"idle", "bpf", "prog_load", "map_create", "ran", "denied"}]
        /\ call' \in [Procs -> Option(Calls)]
        /\ seen' \in [Procs -> SUBSET Option(Values)]
    BY <1>3, <2>1, <2>2 DEF Inv, TypeOK, Enter
  <2>4. /\ pc'[p] = "bpf"
        /\ seen'[p] = {policy_map[i] : i \in get_current_userns_id(p)}
        /\ \A q \in Procs \ {p} :
             pc'[q] = pc[q] /\ call'[q] = call[q] /\ seen'[q] = seen[q]
        /\ policy_map' = policy_map
    BY <1>3 DEF Inv, TypeOK, Enter
  <2>5. TypeOK'
    BY <2>3, <2>4 DEF Inv, TypeOK
  <2>6. Tracked(p)' /\ Ran(p)' /\ Denied(p)'
    BY <2>4 DEF Tracked, Ran, Denied, get_current_userns_id
  <2> QED BY <2>4, <2>5, <2>6, OthersKeep
<1>4. ASSUME NEW p \in Procs, Return(p) PROVE Inv'
  <2>1. {} \in Option(Calls)
    BY DEF Option
  <2>2. /\ pc' \in [Procs -> {"idle", "bpf", "prog_load", "map_create", "ran", "denied"}]
        /\ call' \in [Procs -> Option(Calls)]
        /\ seen' \in [Procs -> SUBSET Option(Values)]
    BY <1>4, <2>1 DEF Inv, TypeOK, Return
  <2>3. /\ pc'[p] = "idle"
        /\ \A q \in Procs \ {p} :
             pc'[q] = pc[q] /\ call'[q] = call[q] /\ seen'[q] = seen[q]
        /\ policy_map' = policy_map
    BY <1>4 DEF Inv, TypeOK, Return
  <2>4. TypeOK'
    BY <2>2, <2>3 DEF Inv, TypeOK
  <2>5. Tracked(p)' /\ Ran(p)' /\ Denied(p)'
    BY <2>3 DEF Tracked, Ran, Denied
  <2> QED BY <2>3, <2>4, <2>5, OthersKeep
<1>5. ASSUME NEW p \in Procs, NEW c \in call[p], pc[p] = "bpf",
             Goto(p, IF ~ try_bpf_rbac_bpf(p, c)  THEN "denied"
                     ELSE IF c.cmd = "PROG_LOAD"  THEN "prog_load"
                     ELSE IF c.cmd = "MAP_CREATE" THEN "map_create" ELSE "ran")
      PROVE  Inv'
  <2>1. Tracked(p) /\ c \in Calls
    BY CallType DEF Inv
  <2>2. ASSUME try_bpf_rbac_bpf(p, c), {} \notin seen[p], ~ c.kernel
        PROVE  \E e \in seen[p] : \E v \in e : CommandGranted(v.for, c)
    <3>1. PICK id \in get_current_userns_id(p) : \A v \in policy_map[id] :
            Admits(v, v.allowed_cmds, commands[c.cmd])
      BY <2>2 DEF try_bpf_rbac_bpf
    <3>2. policy_map[id] \in seen[p] /\ policy_map[id] \subseteq Values
      BY <1>5, <2>1, EntryType, ResolverType DEF Tracked, Inv
    <3>3. PICK v \in policy_map[id] : TRUE
      BY <2>2, <3>2
    <3> QED BY <2>1, <3>1, <3>2, <3>3, CommandMeans
  <2>3. ASSUME ~ try_bpf_rbac_bpf(p, c), get_current_userns_id(p) # {}
        PROVE  \E e \in seen[p] : \E v \in e : Refuses(v.for, c)
    <3>1. PICK id \in get_current_userns_id(p) : TRUE
      BY <2>3
    <3>2. PICK v \in policy_map[id] : ~ Admits(v, v.allowed_cmds, commands[c.cmd])
      BY <2>3, <3>1 DEF try_bpf_rbac_bpf
    <3>3. policy_map[id] \in seen[p] /\ policy_map[id] \subseteq Values
      BY <1>5, <2>1, <3>1, EntryType, ResolverType DEF Tracked, Inv
    <3> QED BY <2>1, <2>3, <3>2, <3>3, CommandMeans
  <2>4. ~ try_bpf_rbac_bpf(p, c) => ~ c.kernel
    BY DEF try_bpf_rbac_bpf
  <2>5. c.cmd \notin {"PROG_LOAD", "MAP_CREATE"} =>
          \A g : CommandGranted(g, c) => TypeGranted(g, c)
    BY DEF CommandGranted, TypeGranted
  <2>6. CASE ~ try_bpf_rbac_bpf(p, c)
    BY <1>5, <2>3, <2>4, <2>6, HookStep
  <2>7. CASE try_bpf_rbac_bpf(p, c) /\ c.cmd = "PROG_LOAD"
    BY <1>5, <2>2, <2>7, HookStep
  <2>8. CASE try_bpf_rbac_bpf(p, c) /\ c.cmd = "MAP_CREATE"
    BY <1>5, <2>2, <2>8, HookStep
  <2>9. CASE try_bpf_rbac_bpf(p, c) /\ c.cmd \notin {"PROG_LOAD", "MAP_CREATE"}
    BY <1>5, <2>2, <2>5, <2>9, HookStep
  <2> QED BY <2>6, <2>7, <2>8, <2>9
<1>6. ASSUME NEW p \in Procs, NEW c \in call[p], pc[p] = "prog_load",
             Goto(p, IF try_bpf_rbac_prog_load(p, c) THEN "ran" ELSE "denied")
      PROVE  Inv'
  <2>1. Tracked(p) /\ c \in Calls /\ c.cmd = "PROG_LOAD"
    BY <1>6, CallType DEF Inv, TypeOK
  <2>2. ASSUME try_bpf_rbac_prog_load(p, c), {} \notin seen[p], ~ c.kernel
        PROVE  \E e \in seen[p] : \E v \in e : TypeGranted(v.for, c)
    <3>1. PICK id \in get_current_userns_id(p) : \A v \in policy_map[id] :
            Admits(v, v.allowed_prog_types, prog_types[c.type])
      BY <2>2 DEF try_bpf_rbac_prog_load
    <3>2. policy_map[id] \in seen[p] /\ policy_map[id] \subseteq Values
      BY <1>6, <2>1, EntryType, ResolverType DEF Tracked, Inv
    <3>3. PICK v \in policy_map[id] : TRUE
      BY <2>2, <3>2
    <3> QED BY <2>1, <3>1, <3>2, <3>3, ProgMeans
  <2>3. ASSUME ~ try_bpf_rbac_prog_load(p, c), get_current_userns_id(p) # {}
        PROVE  \E e \in seen[p] : \E v \in e : Refuses(v.for, c)
    <3>1. PICK id \in get_current_userns_id(p) : TRUE
      BY <2>3
    <3>2. PICK v \in policy_map[id] :
            ~ Admits(v, v.allowed_prog_types, prog_types[c.type])
      BY <2>3, <3>1 DEF try_bpf_rbac_prog_load
    <3>3. policy_map[id] \in seen[p] /\ policy_map[id] \subseteq Values
      BY <1>6, <2>1, <3>1, EntryType, ResolverType DEF Tracked, Inv
    <3> QED BY <2>1, <3>2, <3>3, ProgMeans DEF Refuses
  <2>4. ~ try_bpf_rbac_prog_load(p, c) => ~ c.kernel
    BY DEF try_bpf_rbac_prog_load
  <2>5. {} \notin seen[p] /\ ~ c.kernel =>
          \E e \in seen[p] : \E v \in e : CommandGranted(v.for, c)
    BY <1>6, <2>1 DEF Tracked
  <2>6. CASE try_bpf_rbac_prog_load(p, c)
    BY <1>6, <2>2, <2>5, <2>6, HookStep
  <2>7. CASE ~ try_bpf_rbac_prog_load(p, c)
    BY <1>6, <2>3, <2>4, <2>7, HookStep
  <2> QED BY <2>6, <2>7
<1>7. ASSUME NEW p \in Procs, NEW c \in call[p], pc[p] = "map_create",
             Goto(p, IF try_bpf_rbac_map_create(p, c) THEN "ran" ELSE "denied")
      PROVE  Inv'
  <2>1. Tracked(p) /\ c \in Calls /\ c.cmd = "MAP_CREATE"
    BY <1>7, CallType DEF Inv, TypeOK
  <2>2. ASSUME try_bpf_rbac_map_create(p, c), {} \notin seen[p], ~ c.kernel
        PROVE  \E e \in seen[p] : \E v \in e : TypeGranted(v.for, c)
    <3>1. PICK id \in get_current_userns_id(p) : \A v \in policy_map[id] :
            Admits(v, v.allowed_map_types, map_types[c.type])
      BY <2>2 DEF try_bpf_rbac_map_create
    <3>2. policy_map[id] \in seen[p] /\ policy_map[id] \subseteq Values
      BY <1>7, <2>1, EntryType, ResolverType DEF Tracked, Inv
    <3>3. PICK v \in policy_map[id] : TRUE
      BY <2>2, <3>2
    <3> QED BY <2>1, <3>1, <3>2, <3>3, MapMeans
  <2>3. ASSUME ~ try_bpf_rbac_map_create(p, c), get_current_userns_id(p) # {}
        PROVE  \E e \in seen[p] : \E v \in e : Refuses(v.for, c)
    <3>1. PICK id \in get_current_userns_id(p) : TRUE
      BY <2>3
    <3>2. PICK v \in policy_map[id] :
            ~ Admits(v, v.allowed_map_types, map_types[c.type])
      BY <2>3, <3>1 DEF try_bpf_rbac_map_create
    <3>3. policy_map[id] \in seen[p] /\ policy_map[id] \subseteq Values
      BY <1>7, <2>1, <3>1, EntryType, ResolverType DEF Tracked, Inv
    <3> QED BY <2>1, <3>2, <3>3, MapMeans DEF Refuses
  <2>4. ~ try_bpf_rbac_map_create(p, c) => ~ c.kernel
    BY DEF try_bpf_rbac_map_create
  <2>5. {} \notin seen[p] /\ ~ c.kernel =>
          \E e \in seen[p] : \E v \in e : CommandGranted(v.for, c)
    BY <1>7, <2>1 DEF Tracked
  <2>6. CASE try_bpf_rbac_map_create(p, c)
    BY <1>7, <2>2, <2>5, <2>6, HookStep
  <2>7. CASE ~ try_bpf_rbac_map_create(p, c)
    BY <1>7, <2>3, <2>4, <2>7, HookStep
  <2> QED BY <2>6, <2>7
<1>8. CASE UNCHANGED vars
  BY <1>8 DEF Inv, TypeOK, Tracked, Ran, Denied, vars, get_current_userns_id
<1> QED BY <1>1, <1>2, <1>3, <1>4, <1>5, <1>6, <1>7, <1>8
        DEF Next, bpf_rbac_bpf, bpf_rbac_prog_load, bpf_rbac_map_create

THEOREM InvHolds == Spec => []Inv
<1> QED BY InitInv, NextInv, PTL DEF Spec

\* The values of the variables, and no type hook runs for another command.
THEOREM TypeCorrect == Spec => []TypeOK
<1>1. Inv => TypeOK
  BY DEF Inv
<1> QED BY <1>1, InvHolds, PTL

\* What runs while the consulted id has an entry was granted, by name, by
\* entries of that id during the call.
THEOREM RanHolds == Spec => []RanWithinGrants
<1>1. Inv => RanWithinGrants
  BY DEF Inv, Ran, RanWithinGrants
<1> QED BY <1>1, InvHolds, PTL

\* What is denied was refused by an entry the consulted id had during the call.
THEOREM DeniedHolds == Spec => []DeniedForCause
<1>1. Inv => DeniedForCause
  BY DEF Inv, Denied, DeniedForCause
<1> QED BY <1>1, InvHolds, PTL
=============================================================================
