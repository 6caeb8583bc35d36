--------------------------- MODULE MCAdminTables ---------------------------
(* Three rows on pages of two or one, a fourth to add, and one group. *)
EXTENDS AdminTables
CONSTANTS a
MCKeys == 1 .. 4
MCSuper == {1}
MCHits == {3, 4}
MCSizes == {1, 2}
MCGroups == {a}
MCStart == [k \in MCKeys |-> IF k = 4 THEN Absent ELSE IF k = 2 THEN a ELSE NoGroup]
MCBatches == {{4}}
MCTables == {"domain", "cidr", "worker", "proxy", "user"}
MCBudgets ==
    [t \in MCTables |-> CASE t = "domain" -> {<<3, 0>>, <<1, 1>>}
                          [] t = "cidr" -> {<<2, 1>>}
                          [] t = "worker" -> {<<3, 0>>, <<2, 1>>}
                          [] t = "proxy" -> {<<3, 1>>}
                          [] t = "user" -> {<<3, 1>>}]
============================================================================
