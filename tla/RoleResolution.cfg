SPECIFICATION Spec
CONSTANTS
  CustomRoles = {"ops", "dev"}
  Orders <- MCOrders
  Groups = {"ebpf", "wheel"}
INVARIANTS TypeOK ResolvedRoleIsMatching OrderMattersOnlyForCustomRoles
PROPERTY MembershipMonotone
