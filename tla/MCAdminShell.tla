---------------------------- MODULE MCAdminShell ----------------------------
(* Tabs are interchangeable, and so are accounts. *)
EXTENDS AdminShell, TLC
Symmetry == Permutations(Tabs) \cup Permutations(Accounts)
=============================================================================
