SPECIFICATION Spec
CONSTANTS
  CustomRoles = {"ops", "dev"}
  Orders <- MCOrders
  Groups = {"ebpf", "wheel"}
INVARIANT MembershipGrantsRole
