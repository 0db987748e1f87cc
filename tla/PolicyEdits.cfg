SPECIFICATION Spec
CONSTANTS
  Commands = {"PROG_LOAD", "MAP_CREATE", "PROG_ATTACH", "LINK_GET_NEXT_ID"}
  ProgTypes = {"kprobe", "uprobe"}
  MapTypes = {"hash", "devmap"}
  ProgOps = {"load", "any"}
  MapOps = {"create", "any"}
INVARIANTS TypeOK GrantWithinBothPolicies LsmAdmitsWhatProxyGrants CommandBitmapExact
PROPERTY EditsMonotone
