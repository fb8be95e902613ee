-------------------------- MODULE MCTenantMiddleware --------------------------
(* Two requests, two tenants and two entries behind a registry of capacity  *)
(* one, for model checking.                                                 *)
EXTENDS TenantMiddleware
===============================================================================
