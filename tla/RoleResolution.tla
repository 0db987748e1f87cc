--------------------------- MODULE RoleResolution ---------------------------
(***************************************************************************)
(* Role resolution (Policy::get_role_for_groups) over every small          *)
(* assignment of groups to roles, while the administrator edits the roles, *)
(* the daemon restarts and the user's group membership changes.            *)
(***************************************************************************)
EXTENDS Policy, FiniteSets, Sequences, Functions

CONSTANTS
  CustomRoles,  \* role names other than the three well-known ones
  Groups,       \* Unix groups
  Orders        \* iteration orders of the HashMap: ranks of the role names

WellKnown == Range(Priority)
RoleNames == WellKnown \cup CustomRoles

ASSUME ResolutionAssumption ==
  /\ CustomRoles \cap WellKnown = {}
  /\ \A o \in Orders : o \in [RoleNames -> Nat] /\ IsInjective(o)

VARIABLES
  config,       \* the policy the running daemon has loaded
  order,        \* iteration rank of the roles in its HashMap
  groups        \* the Unix groups of one user

vars == <<config, order, groups>>

\* The permissions do not change here: those of the built-in policy for the
\* well-known roles, and one program type no other role lists for the rest.
Body(r) ==
  IF r \in WellKnown THEN DefaultPolicy.roles[r]
  ELSE [groups |-> {}, commands |-> {"PROG_LOAD"},
        prog_types |-> [lsm |-> {"load"}], map_types |-> <<>>]

Init ==
  /\ config = [system_policy |-> {}, roles |-> <<>>]
  /\ order \in Orders
  /\ groups = {}

\* The daemon is restarted with other roles: a new HashMap, a new order.
Restart(roles) ==
  /\ config' = [config EXCEPT !.roles = roles]
  /\ order' \in Orders
  /\ UNCHANGED groups

AddRole(r) ==
  /\ r \notin DOMAIN config.roles
  /\ Restart([s \in DOMAIN config.roles \cup {r} |->
                IF s = r THEN [Body(r) EXCEPT !.groups = {}]
                ELSE config.roles[s]])

RemoveRole(r) ==
  /\ r \in DOMAIN config.roles
  /\ Restart([s \in DOMAIN config.roles \ {r} |-> config.roles[s]])

AddGroup(r, g) ==
  /\ r \in DOMAIN config.roles
  /\ g \notin config.roles[r].groups
  /\ Restart([config.roles EXCEPT ![r].groups = @ \cup {g}])

RemoveGroup(r, g) ==
  /\ r \in DOMAIN config.roles
  /\ g \in config.roles[r].groups
  /\ Restart([config.roles EXCEPT ![r].groups = @ \ {g}])

\* usermod: no restart, the daemon looks the groups up at every connection.
Join(g) ==
  /\ g \notin groups
  /\ groups' = groups \cup {g}
  /\ UNCHANGED <<config, order>>

Leave(g) ==
  /\ g \in groups
  /\ groups' = groups \ {g}
  /\ UNCHANGED <<config, order>>

Next ==
  \/ \E r \in RoleNames :
       \/ AddRole(r)
       \/ RemoveRole(r)
       \/ \E g \in Groups : AddGroup(r, g) \/ RemoveGroup(r, g)
  \/ \E g \in Groups : Join(g) \/ Leave(g)

Spec == Init /\ [][Next]_vars

-----------------------------------------------------------------------------
(* Properties.                                                              *)

Resolved == get_role_for_groups(config, groups, order)

\* Resolution answers None or one role.
TypeOK ==
  /\ DOMAIN config.roles \subseteq RoleNames
  /\ order \in Orders
  /\ groups \subseteq Groups
  /\ Resolved \subseteq RoleNames
  /\ Cardinality(Resolved) <= 1

\* A user gets a role exactly when some role names one of the user's groups,
\* and the role is one of those: never the permissions of a role of groups
\* the user is not in, and never None for a member.
ResolvedRoleIsMatching ==
  LET member(r) == \E g \in config.roles[r].groups : g \in groups
  IN /\ \A r \in Resolved : r \in DOMAIN config.roles /\ member(r)
     /\ (Resolved = {}) => \A r \in DOMAIN config.roles : ~ member(r)

\* The random iteration order of the HashMap is observable only by users whose
\* groups match two custom roles and no well-known one: for everyone else two
\* daemons with the same policy file resolve the same role.
OrderMattersOnlyForCustomRoles ==
  \A o \in Orders :
    get_role_for_groups(config, groups, o) # Resolved =>
      /\ Cardinality(Matching(config, groups) \cap CustomRoles) >= 2
      /\ Matching(config, groups) \cap WellKnown = {}

\* The place of a role in the documented order: ebpf-admin, ebpf-net, ebpf,
\* then the others as the map iterates over them.
Place(r) ==
  IF r \in WellKnown THEN CHOOSE i \in DOMAIN Priority : Priority[i] = r
  ELSE Len(Priority) + order[r]

\* Resolution to a comes no later in the order than resolution to b; None
\* comes last.
NoLater(a, b) == \A s \in b : \E r \in a : Place(r) <= Place(s)

\* While the daemon runs, joining a group never moves a user down the order
\* of roles, and leaving one never moves a user up.
MembershipMonotone ==
  [][UNCHANGED <<config, order>> =>
       /\ groups \subseteq groups' => NoLater(Resolved', Resolved)
       /\ groups' \subseteq groups => NoLater(Resolved, Resolved')]_vars

-----------------------------------------------------------------------------
(* What the documentation says and resolution does not do.                  *)

\* policy.rs:97-98: "Users whose group membership matches any entry in groups
\* are granted this role's permissions".  A user who is in the groups of two
\* roles gets one of them: with ebpf and ebpf-net, the tracing permissions
\* of ebpf are gone.
MembershipGrantsRole ==
  \A r \in Matching(config, groups), t \in DOMAIN prog_type_to_bit :
    is_allowed(config, r, [kind |-> "LoadProgram", type |-> t, len |-> 0]) =>
      \E s \in Resolved :
        is_allowed(config, s, [kind |-> "LoadProgram", type |-> t, len |-> 0])
=============================================================================
