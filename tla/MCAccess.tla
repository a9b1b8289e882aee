------------------------------ MODULE MCAccess ------------------------------
(* An instance of Access for TLC: the default roles of two tenants and one *)
(* more, their default permission and one more.                            *)
EXTENDS Access, TLC

CONSTANTS t1, t2, u1, p1

MCRole ==
  [tenant : Tenant, name : {"Admin", "Member"}] \cup {[tenant |-> t1, name |-> "Auditor"]}
MCPermission ==
  [tenant : Tenant, key : DefaultKeys] \cup {[tenant |-> t1, key |-> "audit"]}

(* Nothing, or one: an id of the tenant founded first, or one of the other.*)
MCAsked ==
  {{}} \cup {{[tenant |-> t1, name |-> n]} : n \in {"Admin", "Auditor"}}
       \cup {{[tenant |-> t, key |-> "create"]} : t \in Tenant}
       \cup {{[tenant |-> t2, name |-> "Admin"]}}
MCDeletable ==
  {u1, p1, [tenant |-> t1, name |-> "Admin"], [tenant |-> t1, key |-> "create"]}

Symmetry == Permutations(Request)

=============================================================================
