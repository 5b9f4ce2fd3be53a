---------------------------- MODULE MCConversations ----------------------------
(* Conversations with three principals: one user under two tenants, and an *)
(* administrator without a tenant.  The tenants are interchangeable.       *)
EXTENDS Conversations

CONSTANTS ann, root, t1, t2

MCPrincipals == {[user |-> ann, tenant |-> t1], [user |-> ann, tenant |-> t2],
                 [user |-> root, tenant |-> NoTenant]}

TenantSymmetry == Permutations({t1, t2})
================================================================================
