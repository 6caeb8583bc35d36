----------------------------- MODULE ProxiesPage -----------------------------
(***************************************************************************)
(* The page of the proxy accounts, ProxiesPage.tsx, and the page of the    *)
(* administrators, UsersPage.tsx, which is a list without paging, search   *)
(* or selection.                                                           *)
(***************************************************************************)
EXTENDS PagedTable

ProxiesInit == table = "proxy" /\ TableInit
UsersInit == table = "user" /\ TableInit
IsProxies == table = "proxy"
IsUsers == table = "user"

-----------------------------------------------------------------------------
(* Proxies: every change of what is listed clears the selection *)

loadProxies(i) == IsProxies /\ LoadDone(i)
proxiesRelabel == IsProxies /\ Relabel(<<Load(query, {})>>)
handleSearchChange(text) == IsProxies /\ Type(text, FALSE)
setSearch == IsProxies /\ Debounced
handlePageChange(p, size) == IsProxies /\ Turn(p, size, FALSE)
tickProxy(k) == IsProxies /\ Tick(k, FALSE)
clearSelection == IsProxies /\ "bulk" \notin busy /\ Untick

setDeletingProxy(k) ==
    /\ IsProxies /\ InTable /\ Click /\ k \in RowKeys
    /\ deleting' = k
    /\ UNCHANGED <<busy, modal, ops>> /\ Sent

\* DeleteProxyModal: cancel stays enabled while the request runs
cancelProxy ==
    /\ IsProxies /\ deleting # None
    /\ deleting' = None
    /\ UNCHANGED <<busy, modal, ops>> /\ Sent /\ UNCHANGED budgets

remove ==
    /\ IsProxies /\ deleting # None /\ "del" \notin busy
    /\ busy' = busy \cup {"del"}
    /\ Send(Op("delete", {deleting}, {deleting}, None))
    /\ UNCHANGED <<deleting, modal>> /\ Sent /\ UNCHANGED budgets

\* Math.max(1, Math.ceil(Math.max(0, total - removed) / pageSize))
MaxPage(op) ==
    LET left == op.total - Cardinality(op.ok)
    IN  LastPage(IF left < 0 THEN 0 ELSE left, op.q.size)

removed(i) ==
    LET op == ops[i] IN
    /\ IsProxies /\ Answered(i, "delete")
    /\ IF op.ok = {}
       THEN Release({"del"}) /\ UNCHANGED <<query, selected, shown, loads>>
       ELSE /\ selected' = {}
            /\ IF op.q.page > MaxPage(op)
               THEN /\ MoveTo([query EXCEPT !.page = MaxPage(op)], <<>>)
                    /\ Release({"del", "deleting"})
               ELSE /\ Fetch(<<Load(op.q, {"del"})>>)
                    /\ Release({"deleting"}) /\ query' = query
    /\ Close(i) /\ UNCHANGED edited

confirmBulkRemove ==
    IsProxies /\ "bulk" \notin busy /\ selected # {} /\ Confirm("purge", selected)

bulkRemove == IsProxies /\ Accept("purge", "bulk")

\* Mutant: the selection is cleared whatever failed.
bulkRemovedClears(i) ==
    /\ IsProxies /\ Answered(i, "purge")
    /\ selected' = {}
    /\ Correct(ops[i], MaxPage(ops[i]), {"bulk", "modal"})
    /\ Close(i) /\ UNCHANGED edited

bulkRemoved(i) ==
    /\ IsProxies /\ Answered(i, "purge")
    /\ selected' = ops[i].bad
    /\ Correct(ops[i], MaxPage(ops[i]), {"bulk", "modal"})
    /\ Close(i) /\ UNCHANGED edited

-----------------------------------------------------------------------------
(* Users: the button of a superuser is not there *)

loadUsers(i) == IsUsers /\ LoadDone(i)

setDeletingUser(k) ==
    /\ IsUsers /\ InTable /\ Click /\ k \in RowKeys \ Super
    /\ deleting' = k
    /\ UNCHANGED <<busy, modal, ops>> /\ Sent

cancelUser ==
    /\ IsUsers /\ deleting # None
    /\ deleting' = None
    /\ UNCHANGED <<busy, modal, ops>> /\ Sent /\ UNCHANGED budgets

removeUser ==
    /\ IsUsers /\ deleting \in Keys \ Super /\ "del" \notin busy
    /\ busy' = busy \cup {"del"}
    /\ Send(Op("delete", {deleting}, {deleting}, None))
    /\ UNCHANGED <<deleting, modal>> /\ Sent /\ UNCHANGED budgets

userRemoved(i) ==
    LET op == ops[i] IN
    /\ IsUsers /\ Answered(i, "delete")
    /\ IF op.ok = {}
       THEN Release({"del"}) /\ UNCHANGED <<shown, loads>>
       ELSE Fetch(<<Load(op.q, {"del"})>>) /\ Release({"deleting"})
    /\ Close(i) /\ UNCHANGED <<query, selected, edited>>

-----------------------------------------------------------------------------
ProxiesNext ==
    \/ proxiesRelabel \/ setSearch \/ clearSelection \/ cancelProxy \/ remove
    \/ confirmBulkRemove \/ bulkRemove \/ (IsProxies /\ Dismiss)
    \/ \E i \in DOMAIN loads : loadProxies(i)
    \/ \E i \in DOMAIN ops : removed(i) \/ bulkRemoved(i)
    \/ \E text \in BOOLEAN : handleSearchChange(text)
    \/ \E p \in 1 .. Cardinality(Keys), size \in Sizes : handlePageChange(p, size)
    \/ \E k \in Keys : tickProxy(k) \/ setDeletingProxy(k)

UsersNext ==
    \/ cancelUser \/ removeUser
    \/ \E i \in DOMAIN loads : loadUsers(i)
    \/ \E i \in DOMAIN ops : userRemoved(i)
    \/ \E k \in Keys : setDeletingUser(k)
=============================================================================
