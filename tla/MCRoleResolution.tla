-------------------------- MODULE MCRoleResolution --------------------------
(***************************************************************************)
(* Iteration orders for RoleResolution: the custom roles in either order,  *)
(* before and after the well-known ones.                                   *)
(***************************************************************************)
EXTENDS RoleResolution, TLC

MCOrders ==
  {("ebpf-admin" :> 3) @@ ("ebpf-net" :> 4) @@ ("ebpf" :> 5)
     @@ ("ops" :> o[1]) @@ ("dev" :> o[2]) :
     o \in {<<1, 2>>, <<2, 1>>, <<8, 9>>, <<9, 8>>}}
=============================================================================
