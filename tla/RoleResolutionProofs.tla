------------------------ MODULE RoleResolutionProofs ------------------------
(***************************************************************************)
(* Role resolution for any number of roles and groups and every iteration  *)
(* order of the HashMap.                                                   *)
(***************************************************************************)
EXTENDS RoleResolution, PolicyProofs, FiniteSetTheorems

\* A nonempty set of ranked names has a first one.
LEMMA FirstExists ==
  ASSUME NEW S, NEW o, \A x \in S : o[x] \in Nat, S # {}
  PROVE  \E x \in S : \A y \in S : o[x] <= o[y]
<1> DEFINE T == {o[x] : x \in S}
<1>1. T \subseteq Nat /\ T # {}
  OBVIOUS
<1>2. \E m \in T : \A n \in T : ~ (<<n, m>> \in OpToRel(<, Nat))
  <2> HIDE DEF T
  <2> QED BY <1>1, NatLessThanWellFounded, WFMin
<1>3. PICK m \in T : \A n \in T : ~ (<<n, m>> \in OpToRel(<, Nat))
  BY <1>2
<1>4. ASSUME NEW n \in T PROVE m <= n
  <2>1. m \in Nat /\ n \in Nat
    BY <1>1
  <2>2. ~ (n < m)
    BY <1>3, <2>1 DEF OpToRel
  <2> QED BY <2>1, <2>2
<1>5. PICK x \in S : o[x] = m
  OBVIOUS
<1> QED BY <1>4, <1>5

\* The three well-known names.
LEMMA PriorityNames ==
  /\ DOMAIN Priority = 1 .. 3 /\ Len(Priority) = 3
  /\ \A i, j \in 1 .. 3 : Priority[i] = Priority[j] => i = j
  /\ WellKnown = {Priority[i] : i \in 1 .. 3}
BY DEF Priority, WellKnown, Range

\* A user who matches a well-known role gets the first of those, whatever the
\* iteration order.
LEMMA ResolvesToKnown ==
  ASSUME NEW cfg, NEW G, Matching(cfg, G) \cap WellKnown # {}
  PROVE  \E j \in 1 .. 3 :
           /\ Priority[j] \in Matching(cfg, G)
           /\ \A l \in 1 .. 3 : Priority[l] \in Matching(cfg, G) => j <= l
           /\ \A o : get_role_for_groups(cfg, G, o) = {Priority[j]}
<1> DEFINE known == {i \in 1 .. 3 : Priority[i] \in Matching(cfg, G)}
           id == [i \in 1 .. 3 |-> i]
<1>1. known # {}
  BY PriorityNames
<1>2. \E j \in known : \A l \in known : id[j] <= id[l]
  <2>1. \A i \in known : id[i] \in Nat
    OBVIOUS
  <2> HIDE DEF known, id
  <2> QED BY <1>1, <2>1, FirstExists
<1>3. PICK j \in known : \A l \in known : j <= l
  BY <1>2
<1>4. {i \in known : \A l \in known : i <= l} = {j}
  BY <1>3
<1>5. ASSUME NEW o
      PROVE  get_role_for_groups(cfg, G, o) = {Priority[j]}
  <2>1. get_role_for_groups(cfg, G, o)
          = {Priority[i] : i \in {i \in known : \A l \in known : i <= l}}
    BY <1>1, PriorityNames DEF get_role_for_groups
  <2> QED BY <1>4, <2>1
<1> QED BY <1>3, <1>5

\* A user who matches none gets the first match of the iteration order.
LEMMA ResolvesToFirst ==
  ASSUME NEW cfg, NEW G, NEW o, Matching(cfg, G) \cap WellKnown = {}
  PROVE  get_role_for_groups(cfg, G, o)
           = {r \in Matching(cfg, G) : \A s \in Matching(cfg, G) : o[r] <= o[s]}
<1>1. {i \in DOMAIN Priority : Priority[i] \in Matching(cfg, G)} = {}
  BY PriorityNames
<1> QED BY <1>1 DEF get_role_for_groups

\* A member of some role's group gets a role.
LEMMA MembersResolve ==
  ASSUME NEW cfg, NEW G, NEW o \in Orders, DOMAIN cfg.roles \subseteq RoleNames,
         Matching(cfg, G) # {}
  PROVE  get_role_for_groups(cfg, G, o) # {}
<1>1. CASE Matching(cfg, G) \cap WellKnown # {}
  BY <1>1, ResolvesToKnown
<1>2. CASE Matching(cfg, G) \cap WellKnown = {}
  <2>1. \A r \in Matching(cfg, G) : o[r] \in Nat
    BY ResolutionAssumption DEF Matching
  <2>2. \E r \in Matching(cfg, G) : \A s \in Matching(cfg, G) : o[r] <= o[s]
    BY <2>1, FirstExists
  <2> QED BY <1>2, <2>2, ResolvesToFirst
<1> QED BY <1>1, <1>2

\* Nobody gets two roles.
LEMMA ResolvesToOne ==
  ASSUME NEW cfg, NEW G, NEW o \in Orders, DOMAIN cfg.roles \subseteq RoleNames,
         NEW r \in get_role_for_groups(cfg, G, o),
         NEW s \in get_role_for_groups(cfg, G, o)
  PROVE  r = s
<1>1. CASE Matching(cfg, G) \cap WellKnown # {}
  BY <1>1, ResolvesToKnown
<1>2. CASE Matching(cfg, G) \cap WellKnown = {}
  <2>1. r \in RoleNames /\ s \in RoleNames
    BY ResolvedRoleMatches DEF Matching
  <2>2. o[r] <= o[s] /\ o[s] <= o[r]
    BY <1>2, ResolvesToFirst
  <2>3. o \in [RoleNames -> Nat] /\ IsInjective(o)
    BY ResolutionAssumption
  <2>4. o[r] = o[s]
    BY <2>1, <2>2, <2>3
  <2> QED BY <2>1, <2>3, <2>4 DEF IsInjective
<1> QED BY <1>1, <1>2

-----------------------------------------------------------------------------
(* The invariant.                                                           *)

\* The policies reached have finitely many roles, all of known names.
Inv ==
  /\ config = [system_policy |-> {}, roles |-> config.roles]
  /\ DOMAIN config.roles \subseteq RoleNames
  /\ IsFiniteSet(DOMAIN config.roles)
  /\ order \in Orders
  /\ groups \subseteq Groups

\* A restart with roles of known names keeps the invariant.
LEMMA RestartKeepsInv ==
  ASSUME Inv, NEW R, Restart(R), DOMAIN R \subseteq RoleNames, IsFiniteSet(DOMAIN R)
  PROVE  Inv'
<1>1. config' = [system_policy |-> {}, roles |-> R]
  BY DEF Inv, Restart
<1> QED BY <1>1 DEF Inv, Restart

LEMMA InitEstablishesInv == Init => Inv
<1> SUFFICES ASSUME Init PROVE Inv
  OBVIOUS
<1>1. DOMAIN config.roles = {}
  BY DEF Init
<1> QED BY <1>1, FS_EmptySet DEF Init, Inv

LEMMA StepKeepsInv == Inv /\ [Next]_vars => Inv'
<1> SUFFICES ASSUME Inv, [Next]_vars PROVE Inv'
  OBVIOUS
<1>0. DOMAIN config.roles \subseteq RoleNames /\ IsFiniteSet(DOMAIN config.roles)
  BY DEF Inv
<1>1. ASSUME NEW r \in RoleNames, AddRole(r)
      PROVE  Inv'
  <2> DEFINE R == [s \in DOMAIN config.roles \cup {r} |->
                     IF s = r THEN [Body(r) EXCEPT !.groups = {}]
                     ELSE config.roles[s]]
  <2>1. Restart(R)
    BY <1>1 DEF AddRole
  <2>2. DOMAIN R = DOMAIN config.roles \cup {r}
    OBVIOUS
  <2>3. IsFiniteSet(DOMAIN R)
    BY <1>0, <2>2, FS_AddElement
  <2> HIDE DEF R
  <2> QED BY <1>0, <2>1, <2>2, <2>3, RestartKeepsInv
<1>2. ASSUME NEW r \in RoleNames, RemoveRole(r)
      PROVE  Inv'
  <2> DEFINE R == [s \in DOMAIN config.roles \ {r} |-> config.roles[s]]
  <2>1. Restart(R)
    BY <1>2 DEF RemoveRole
  <2>2. DOMAIN R = DOMAIN config.roles \ {r}
    OBVIOUS
  <2>3. IsFiniteSet(DOMAIN R)
    BY <1>0, <2>2, FS_RemoveElement
  <2> HIDE DEF R
  <2> QED BY <1>0, <2>1, <2>2, <2>3, RestartKeepsInv
<1>3. ASSUME NEW r \in RoleNames, NEW g \in Groups, AddGroup(r, g)
      PROVE  Inv'
  <2> DEFINE R == [config.roles EXCEPT ![r].groups = @ \cup {g}]
  <2>1. Restart(R) /\ DOMAIN R = DOMAIN config.roles
    BY <1>3 DEF AddGroup
  <2> HIDE DEF R
  <2> QED BY <1>0, <2>1, RestartKeepsInv
<1>4. ASSUME NEW r \in RoleNames, NEW g \in Groups, RemoveGroup(r, g)
      PROVE  Inv'
  <2> DEFINE R == [config.roles EXCEPT ![r].groups = @ \ {g}]
  <2>1. Restart(R) /\ DOMAIN R = DOMAIN config.roles
    BY <1>4 DEF RemoveGroup
  <2> HIDE DEF R
  <2> QED BY <1>0, <2>1, RestartKeepsInv
<1>5. ASSUME NEW g \in Groups, Join(g) \/ Leave(g)
      PROVE  Inv'
  BY <1>5 DEF Join, Leave, Inv
<1>6. CASE UNCHANGED vars
  BY <1>6 DEF vars, Inv
<1> QED BY <1>1, <1>2, <1>3, <1>4, <1>5, <1>6 DEF Next

LEMMA InvHolds == Spec => []Inv
BY InitEstablishesInv, StepKeepsInv, PTL DEF Spec

-----------------------------------------------------------------------------
(* The properties.                                                          *)

\* Resolution answers None or one role of the policy.
THEOREM ResolutionIsOption == Spec => []TypeOK
<1>1. ASSUME Inv PROVE TypeOK
  <2>1. Resolved \subseteq RoleNames
    BY <1>1, ResolvedRoleMatches DEF Inv, Resolved, Matching
  <2>2. CASE Resolved = {}
    BY <1>1, <2>1, <2>2, FS_EmptySet DEF Inv, TypeOK
  <2>3. CASE Resolved # {}
    <3>1. PICK r \in Resolved : TRUE
      BY <2>3
    <3>2. Resolved = {r}
      BY <1>1, <3>1, ResolvesToOne DEF Inv, Resolved
    <3>3. Cardinality(Resolved) = 1
      BY <3>2, FS_Singleton
    <3> QED BY <1>1, <2>1, <3>3 DEF Inv, TypeOK
  <2> QED BY <2>2, <2>3
<1> QED BY <1>1, InvHolds, PTL

\* A user gets a role exactly when a role names one of the user's groups, and
\* it is one of those roles.
THEOREM ResolutionIsMembership == Spec => []ResolvedRoleIsMatching
<1>1. ASSUME Inv PROVE ResolvedRoleIsMatching
  <2>1. ASSUME NEW r \in Resolved
        PROVE  /\ r \in DOMAIN config.roles
               /\ \E g \in config.roles[r].groups : g \in groups
    BY ResolvedRoleMatches DEF Resolved, Matching
  <2>2. ASSUME Resolved = {}, NEW r \in DOMAIN config.roles
        PROVE  ~ \E g \in config.roles[r].groups : g \in groups
    <3>1. Matching(config, groups) = {}
      BY <1>1, <2>2, MembersResolve DEF Inv, Resolved
    <3> QED BY <3>1 DEF Matching
  <2> QED BY <2>1, <2>2 DEF ResolvedRoleIsMatching
<1> QED BY <1>1, InvHolds, PTL

\* Two elements of a finite set count for two.
LEMMA TwoElements ==
  ASSUME NEW S, IsFiniteSet(S), NEW a \in S, NEW b \in S, a # b
  PROVE  Cardinality(S) >= 2
<1>1. IsFiniteSet({b}) /\ Cardinality({b}) = 1
  BY FS_Singleton
<1>2. Cardinality({b} \cup {a}) = 2
  BY <1>1, FS_AddElement
<1>3. Cardinality({b} \cup {a}) <= Cardinality(S)
  BY FS_Subset
<1>4. Cardinality(S) \in Nat
  BY FS_CardinalityType
<1> QED BY <1>2, <1>3, <1>4

\* Only users who match two custom roles and no well-known one can tell two
\* daemons with the same policy file apart.
THEOREM OrderRarelyMatters == Spec => []OrderMattersOnlyForCustomRoles
<1>1. ASSUME Inv PROVE OrderMattersOnlyForCustomRoles
  <2> DEFINE M == Matching(config, groups)
             Other(o) == get_role_for_groups(config, groups, o)
  <2>0. /\ DOMAIN config.roles \subseteq RoleNames
        /\ IsFiniteSet(DOMAIN config.roles) /\ order \in Orders
    BY <1>1 DEF Inv
  <2> SUFFICES ASSUME NEW o \in Orders, Other(o) # Resolved
               PROVE  Cardinality(M \cap CustomRoles) >= 2 /\ M \cap WellKnown = {}
    BY DEF OrderMattersOnlyForCustomRoles
  <2>1. M \cap WellKnown = {}
    BY ResolvesToKnown DEF Resolved
  <2>2. M \subseteq DOMAIN config.roles /\ M \subseteq CustomRoles
    BY <2>0, <2>1 DEF Matching, RoleNames
  <2>3. IsFiniteSet(M \cap CustomRoles)
    BY <2>0, <2>2, FS_Subset
  <2>4. Other(o) \subseteq M /\ Resolved \subseteq M
    BY ResolvedRoleMatches DEF Resolved
  <2>5. M # {}
    BY <2>4
  <2>6. Other(o) # {} /\ Resolved # {}
    BY <2>0, <2>5, MembersResolve DEF Resolved
  <2>7. \A r, s \in Other(o) : r = s
    BY <2>0, ResolvesToOne
  <2>8. \A r, s \in Resolved : r = s
    BY <2>0, ResolvesToOne DEF Resolved
  <2> HIDE DEF M, Other
  <2>9. PICK a \in Other(o), b \in Resolved : a # b
    BY <2>6, <2>7, <2>8
  <2>10. a \in M \cap CustomRoles /\ b \in M \cap CustomRoles
    BY <2>2, <2>4, <2>9
  <2> QED BY <2>1, <2>3, <2>9, <2>10, TwoElements
<1> QED BY <1>1, InvHolds, PTL

-----------------------------------------------------------------------------
(* Joining and leaving groups.                                              *)

\* The place of a well-known role is its index.
LEMMA PlaceOfKnown ==
  ASSUME NEW j \in 1 .. 3
  PROVE  Place(Priority[j]) = j
<1>1. Priority[j] \in WellKnown
  BY PriorityNames
<1>2. (CHOOSE i \in DOMAIN Priority : Priority[i] = Priority[j]) = j
  BY PriorityNames
<1> QED BY <1>1, <1>2 DEF Place

\* The others come after them.
LEMMA PlaceOfCustom ==
  ASSUME order \in Orders, NEW r \in RoleNames, r \notin WellKnown
  PROVE  Place(r) = 3 + order[r] /\ order[r] \in Nat
BY ResolutionAssumption, PriorityNames DEF Place

\* Who is in more groups gets a role that comes no later.
LEMMA MoreGroupsNoLater ==
  ASSUME NEW cfg, DOMAIN cfg.roles \subseteq RoleNames, order \in Orders,
         NEW G, NEW H, G \subseteq H
  PROVE  NoLater(get_role_for_groups(cfg, H, order), get_role_for_groups(cfg, G, order))
<1> DEFINE more == get_role_for_groups(cfg, H, order)
<1> SUFFICES ASSUME NEW s \in get_role_for_groups(cfg, G, order)
             PROVE  \E r \in more : Place(r) <= Place(s)
  BY DEF NoLater
<1>1. s \in Matching(cfg, G) /\ s \in Matching(cfg, H)
  BY ResolvedRoleMatches, MatchingMonotone
<1>2. Matching(cfg, H) \subseteq RoleNames
  BY DEF Matching
<1>3. CASE Matching(cfg, H) \cap WellKnown # {}
  <2>1. PICK j \in 1 .. 3 :
          /\ \A l \in 1 .. 3 : Priority[l] \in Matching(cfg, H) => j <= l
          /\ more = {Priority[j]}
    BY <1>3, ResolvesToKnown
  <2>2. Place(Priority[j]) = j
    BY PlaceOfKnown
  <2>3. CASE s \in WellKnown
    <3>1. PICK l \in 1 .. 3 : s = Priority[l]
      BY <2>3, PriorityNames
    <3>2. j <= l /\ Place(s) = l
      BY <1>1, <2>1, <3>1, PlaceOfKnown
    <3> QED BY <2>1, <2>2, <3>2
  <2>4. CASE s \notin WellKnown
    <3>1. Place(s) = 3 + order[s] /\ order[s] \in Nat
      BY <1>1, <1>2, <2>4, PlaceOfCustom
    <3> HIDE DEF more
    <3>2. j <= 3 + order[s]
      BY <3>1
    <3> QED BY <2>1, <2>2, <3>1, <3>2
  <2> QED BY <2>3, <2>4
<1>4. CASE Matching(cfg, H) \cap WellKnown = {}
  <2>1. more # {}
    BY <1>1, MembersResolve
  <2>2. PICK r \in more : TRUE
    BY <2>1
  <2>3. r \in Matching(cfg, H) /\ order[r] <= order[s]
    BY <1>1, <1>4, <2>2, ResolvesToFirst
  <2>4. r \in RoleNames \ WellKnown /\ s \in RoleNames \ WellKnown
    BY <1>1, <1>2, <1>4, <2>3
  <2>5. /\ Place(r) = 3 + order[r] /\ order[r] \in Nat
        /\ Place(s) = 3 + order[s] /\ order[s] \in Nat
    BY <2>4, PlaceOfCustom
  <2>6. Place(r) <= Place(s)
    BY <2>3, <2>5
  <2> QED BY <2>2, <2>6
<1> QED BY <1>3, <1>4

\* Joining a group never moves a user down the order of roles, and leaving one
\* never moves a user up, until the daemon is restarted.
THEOREM MembershipIsMonotone == Spec => MembershipMonotone
<1>1. Inv => (UNCHANGED <<config, order>> =>
                /\ groups \subseteq groups' => NoLater(Resolved', Resolved)
                /\ groups' \subseteq groups => NoLater(Resolved, Resolved'))
  <2> SUFFICES ASSUME Inv, UNCHANGED <<config, order>>
               PROVE  /\ groups \subseteq groups' => NoLater(Resolved', Resolved)
                      /\ groups' \subseteq groups => NoLater(Resolved, Resolved')
    OBVIOUS
  <2>1. Resolved' = get_role_for_groups(config, groups', order)
    BY DEF Resolved
  <2>2. DOMAIN config.roles \subseteq RoleNames /\ order \in Orders
    BY DEF Inv
  <2> QED BY <2>1, <2>2, MoreGroupsNoLater DEF Resolved
<1> QED BY <1>1, InvHolds, PTL DEF MembershipMonotone
=============================================================================
