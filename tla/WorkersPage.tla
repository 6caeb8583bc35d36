----------------------------- MODULE WorkersPage -----------------------------
(***************************************************************************)
(* The page of the groups and the workers, GroupsPage.tsx: the groups are  *)
(* a list without paging, the workers are the paged table.                 *)
(***************************************************************************)
EXTENDS PagedTable

WorkersInit == table = "worker" /\ TableInit
IsWorkers == table = "worker"

NullOr(gs) == gs \cup {NoGroup}

-----------------------------------------------------------------------------
(* Lists: searching and filtering load at once *)

loadWorkers(i) == IsWorkers /\ LoadDone(i)

\* Mutant: loadGroups throws on, and removeGroupConfirmation has no finally.
loadWorkerGroupsThrows(i) ==
    IsWorkers /\ GroupsDone(i, IF loads[i].frees # {} /\ loads[i].ans # Failed
                               THEN <<Load(loads[i].q, loads[i].frees)>> ELSE <<>>)

\* await loadGroups(); await loadWorkers() in removeGroupConfirmation
loadWorkerGroups(i) ==
    IsWorkers /\ GroupsDone(i, IF loads[i].frees # {}
                               THEN <<Load(loads[i].q, loads[i].frees)>> ELSE <<>>)

setWorkerSearch(text) ==
    /\ IsWorkers /\ Free /\ Click /\ text # query.search
    /\ MoveTo([query EXCEPT !.search = text, !.page = 1], <<>>)
    /\ selected' = {}
    /\ UNCHANGED <<backend, input, due, groups, dialogs, ops, past>>

setWorkerGroupFilter(f) == IsWorkers /\ f \in NullOr(groups) \cup {All} /\ Filter(f)
turnWorkers(p, size) == IsWorkers /\ Turn(p, size, TRUE)
workerRowSelection(k) == IsWorkers /\ Tick(k, TRUE)
untickWorkers == IsWorkers /\ "bulk" \notin busy /\ Untick

-----------------------------------------------------------------------------
(* The dialogs that delete a group or a worker *)

setDeletingGroup(g) ==
    /\ IsWorkers /\ Free /\ ~shown.loading /\ Click /\ g \in groups
    /\ deleting' = g
    /\ UNCHANGED <<busy, modal, ops>> /\ Sent

setDeletingWorker(k) ==
    /\ IsWorkers /\ InTable /\ Click /\ k \in RowKeys
    /\ deleting' = k
    /\ UNCHANGED <<busy, modal, ops>> /\ Sent

\* Cancel stays enabled while the request runs
cancelDeletion ==
    /\ IsWorkers /\ deleting # None
    /\ deleting' = None
    /\ UNCHANGED <<busy, modal, ops>> /\ Sent /\ UNCHANGED budgets

removeGroupConfirmation ==
    /\ IsWorkers /\ deleting \in Groups /\ "del" \notin busy
    /\ busy' = busy \cup {"del"}
    /\ Send(Op("dropgroup", {}, {0}, deleting))
    /\ UNCHANGED <<deleting, modal>> /\ Sent /\ UNCHANGED budgets

groupRemoved(i) ==
    LET op == ops[i] IN
    /\ IsWorkers /\ Answered(i, "dropgroup")
    /\ IF op.ok = {}
       THEN Release({"del"}) /\ UNCHANGED <<shown, loads>>
       ELSE /\ deleting' = IF deleting \in Groups THEN None ELSE deleting
            /\ Fetch(<<LoadGroups(op.q, {"del"})>>)
            /\ UNCHANGED <<busy, modal>>
    /\ Close(i) /\ UNCHANGED <<query, selected, edited>>

removeWorkerConfirmation ==
    /\ IsWorkers /\ deleting \in Keys /\ "del" \notin busy
    /\ busy' = busy \cup {"del"}
    /\ Send(Op("delete", {deleting}, {deleting}, None))
    /\ UNCHANGED <<deleting, modal>> /\ Sent /\ UNCHANGED budgets

\* Mutant: the removed worker stays selected.
workerRemovedKept(i) ==
    LET op == ops[i] IN
    /\ IsWorkers /\ Answered(i, "delete")
    /\ IF op.ok = {}
       THEN Release({"del"}) /\ UNCHANGED <<shown, loads>>
       ELSE /\ deleting' = IF deleting \in Keys THEN None ELSE deleting
            /\ Fetch(<<Load(op.q, {"del"})>>)
            /\ UNCHANGED <<busy, modal>>
    /\ Close(i) /\ UNCHANGED <<query, selected, edited>>

workerRemoved(i) ==
    LET op == ops[i] IN
    /\ IsWorkers /\ Answered(i, "delete")
    /\ IF op.ok = {}
       THEN Release({"del"}) /\ UNCHANGED <<shown, loads>>
       ELSE /\ deleting' = IF deleting \in Keys THEN None ELSE deleting
            /\ Fetch(<<Load(op.q, {"del"})>>)
            /\ UNCHANGED <<busy, modal>>
    /\ selected' = selected \ op.ok
    /\ Close(i) /\ UNCHANGED <<query, edited>>

-----------------------------------------------------------------------------
(* The Select of a row *)

updateWorker(k, g) ==
    /\ IsWorkers /\ InTable /\ Click /\ k \in RowKeys
    /\ g \in NullOr(groups) /\ g # shown.rows[k]
    /\ Send(Op("patch", {k}, {k}, g))
    /\ UNCHANGED dialogs /\ Sent

workerUpdated(i) ==
    LET op == ops[i] IN
    /\ IsWorkers /\ Answered(i, "patch")
    /\ shown' = Patched(op.ok, op.group)
    /\ edited' = (edited \/ (op.ok # {} /\ query.filter # All))
    /\ Close(i) /\ UNCHANGED <<query, selected, loads, dialogs>>

-----------------------------------------------------------------------------
(* The footer of the selected rows *)

bulkUpdateGroup(g) ==
    /\ IsWorkers /\ Free /\ "bulk" \notin busy /\ selected # {} /\ Click
    /\ g \in NullOr(groups)
    /\ busy' = busy \cup {"bulk"}
    /\ Send(Op("regroup", selected, selected, g))
    /\ UNCHANGED <<deleting, modal>> /\ Sent

\* Only the updated rows leave the selection
groupUpdated(i) ==
    LET op == ops[i] IN
    /\ IsWorkers /\ Answered(i, "regroup")
    /\ FetchOver(Patched(op.ok, op.group), <<Load(op.q, {"bulk"})>>)
    /\ selected' = selected \ op.ok
    /\ Close(i) /\ UNCHANGED <<query, dialogs, edited>>

bulkDeleteWorkers ==
    IsWorkers /\ "bulk" \notin busy /\ selected # {} /\ Confirm("purge", selected)

purgeWorkers == IsWorkers /\ Accept("purge", "bulk")

workersPurged(i) ==
    LET op == ops[i]
        left == op.total - Cardinality(op.ok)
    IN  /\ IsWorkers /\ Answered(i, "purge")
        /\ selected' = selected \ op.ok
        /\ Correct(op, LastPage(IF left < 0 THEN 0 ELSE left, op.q.size), {"bulk", "modal"})
        /\ Close(i) /\ UNCHANGED edited

-----------------------------------------------------------------------------
WorkersNext ==
    \/ untickWorkers \/ cancelDeletion
    \/ removeGroupConfirmation \/ removeWorkerConfirmation
    \/ bulkDeleteWorkers \/ purgeWorkers \/ (IsWorkers /\ Dismiss)
    \/ \E i \in DOMAIN loads : loadWorkers(i) \/ loadWorkerGroups(i)
    \/ \E i \in DOMAIN ops : \/ groupRemoved(i) \/ workerRemoved(i) \/ workerUpdated(i)
                             \/ groupUpdated(i) \/ workersPurged(i)
    \/ \E text \in BOOLEAN : setWorkerSearch(text)
    \/ \E f \in NullOr(groups) \cup {All} : setWorkerGroupFilter(f)
    \/ \E p \in 1 .. Cardinality(Keys), size \in Sizes : turnWorkers(p, size)
    \/ \E k \in Keys : workerRowSelection(k) \/ setDeletingWorker(k)
    \/ \E g \in Groups : setDeletingGroup(g)
    \/ \E g \in NullOr(groups) : bulkUpdateGroup(g) \/ \E k \in Keys : updateWorker(k, g)
=============================================================================
