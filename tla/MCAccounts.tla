----------------------------- MODULE MCAccounts -----------------------------
(***************************************************************************)
(* Three identities: an administrator's, one that has an address of its    *)
(* own or the administrator's (the same person at another provider), and   *)
(* one whose provider makes no claim about the e-mail.                     *)
(***************************************************************************)
EXTENDS Accounts, TLC

MCEmailsOf == ("root" :> {"r"}) @@ ("ann" :> {"r", "a"}) @@ ("bob" :> {Unset})

MCPatches ==
    {[role |-> "user", status |-> Unset], [role |-> "admin", status |-> Unset],
     [role |-> Unset, status |-> "suspended"], [role |-> Unset, status |-> "active"]}

Symmetry == Permutations(Workers)
=============================================================================
