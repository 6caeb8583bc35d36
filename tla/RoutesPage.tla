----------------------------- MODULE RoutesPage -----------------------------
(***************************************************************************)
(* The tabs "domains" and "cidrs" of SplittingPage.tsx.  The two are       *)
(* written twice in the code and differ only in handleAdd... and in        *)
(* clearAll; what they share is stated here once, with an action for each. *)
(***************************************************************************)
EXTENDS PagedTable

RoutesInit == table \in Routes /\ TableInit

Offered == groups \cup {NoGroup}

-----------------------------------------------------------------------------
(* Lists *)

loadDomains(i) == table = "domain" /\ LoadDone(i)
loadCidrs(i) == table = "cidr" /\ LoadDone(i)
loadGroups(i) == table \in Routes /\ GroupsDone(i, <<>>)

\* Four effects that depend on their loaders, which depend on t
RoutesRelabel ==
    table \in Routes /\ Relabel(<<LoadGroups(query, {}), Load(query, {})>>)

typeDomainSearch(text) == table = "domain" /\ Type(text, TRUE)
typeCidrSearch(text) == table = "cidr" /\ Type(text, TRUE)
setDomainSearch == table = "domain" /\ Debounced
setCidrSearch == table = "cidr" /\ Debounced
setDomainGroupFilter(f) == table = "domain" /\ f \in Offered \cup {All} /\ Filter(f)
setCidrGroupFilter(f) == table = "cidr" /\ f \in Offered \cup {All} /\ Filter(f)
turnDomains(p, size) == table = "domain" /\ Turn(p, size, TRUE)
turnCidrs(p, size) == table = "cidr" /\ Turn(p, size, TRUE)
tickDomain(k) == table = "domain" /\ Tick(k, TRUE)
tickCidr(k) == table = "cidr" /\ Tick(k, TRUE)
untickDomains == table = "domain" /\ Untick
untickCidrs == table = "cidr" /\ Untick

-----------------------------------------------------------------------------
(* The add forms *)

Add(keys, g) ==
    /\ Free /\ "add" \notin busy /\ Click
    /\ keys # {} /\ g \in Offered
    /\ busy' = busy \cup {"add"}
    /\ Send(Op("add", keys, {0}, g))
    /\ UNCHANGED <<deleting, modal>> /\ Sent

handleAddDomains(keys, g) == table = "domain" /\ Add(keys, g)
handleAddCidrs(keys, g) == table = "cidr" /\ Add(keys, g)

\* The page is set in any case, so a page turned meanwhile is loaded as well
domainsAdded(i) ==
    LET op == ops[i] IN
    /\ table = "domain" /\ Answered(i, "add")
    /\ IF op.ok = {}
       THEN Release({"add"}) /\ UNCHANGED <<query, shown, loads>>
       ELSE /\ MoveTo([query EXCEPT !.page = 1],
                      IF op.q.page = 1 THEN <<Load(op.q, {"add"})>> ELSE <<>>)
            /\ Release(IF op.q.page = 1 THEN {} ELSE {"add"})
    /\ Close(i) /\ UNCHANGED <<selected, edited>>

\* Mutant: a page that shows page 1 already is not loaded again.
FirstPageSet(op, frees) ==
    MoveTo([query EXCEPT !.page = 1], <<>>) /\ Release(frees)

\* Reloads in place or turns to page 1
FirstPage(op, frees) ==
    IF op.q.page = 1
    THEN Reload(op.q, frees)
    ELSE MoveTo([query EXCEPT !.page = 1], <<>>) /\ Release(frees)

cidrsAdded(i) ==
    /\ table = "cidr" /\ Answered(i, "add")
    /\ IF ops[i].ok = {}
       THEN Release({"add"}) /\ UNCHANGED <<query, shown, loads>>
       ELSE FirstPage(ops[i], {"add"})
    /\ Close(i) /\ UNCHANGED <<selected, edited>>

-----------------------------------------------------------------------------
(* Clear all: the button and onOk *)

handleClearAllCidrs ==
    /\ table = "cidr" /\ ~shown.loading /\ busy \cap {"add", "clear"} = {}
    /\ Confirm("clear", {})

clearAllCidrs == table = "cidr" /\ Accept("clear", "clear")

cidrsCleared(i) ==
    LET op == ops[i]
        frees == {"clear", "modal"}
    IN  /\ table = "cidr" /\ Answered(i, "clear")
        /\ IF op.ok = {}
           THEN Release(frees) /\ UNCHANGED <<query, shown, loads, selected>>
           ELSE /\ selected' = {}
                /\ IF op.q.page = 1
                   THEN /\ FetchOver([shown EXCEPT !.total = 0], <<Load(op.q, frees)>>)
                        /\ UNCHANGED <<query, dialogs>>
                   ELSE /\ query' = [query EXCEPT !.page = 1]
                        /\ FetchOver([shown EXCEPT !.total = 0],
                              IF query.page = 1 THEN <<>>
                              ELSE <<Load([query EXCEPT !.page = 1], {})>>)
                        /\ Release(frees)
        /\ Close(i) /\ UNCHANGED edited

-----------------------------------------------------------------------------
(* One row *)

ChangeGroup(k, g) ==
    /\ InTable /\ Click /\ k \in RowKeys
    /\ g \in Offered /\ g # shown.rows[k]
    /\ Send(Op("patch", {k}, {k}, g))
    /\ UNCHANGED dialogs /\ Sent

changeDomainGroup(k, g) == table = "domain" /\ ChangeGroup(k, g)
changeCidrGroup(k, g) == table = "cidr" /\ ChangeGroup(k, g)

\* The Select of the worker table ends in the same way
GroupChanged(i) ==
    LET op == ops[i] IN
    /\ Answered(i, "patch")
    /\ shown' = Patched(op.ok, op.group)
    /\ edited' = (edited \/ (op.ok # {} /\ query.filter # All))
    /\ Close(i) /\ UNCHANGED <<query, selected, loads, dialogs>>

domainGroupChanged(i) == table = "domain" /\ GroupChanged(i)
cidrGroupChanged(i) == table = "cidr" /\ GroupChanged(i)

\* The button of the row that is being deleted is inert, the others are not
RemoveRoute(k) ==
    /\ InTable /\ Click /\ k \in RowKeys \ {deleting}
    /\ deleting' = k
    /\ Send(Op("delete", {k}, {k}, None))
    /\ UNCHANGED <<busy, modal>> /\ Sent

removeDomain(k) == table = "domain" /\ RemoveRoute(k)
removeCidr(k) == table = "cidr" /\ RemoveRoute(k)

\* Mutant: the last row of a page is removed like any other.
RemovedReloads(i) ==
    LET op == ops[i] IN
    /\ Answered(i, "delete")
    /\ IF op.ok = {}
       THEN Release({"deleting"}) /\ UNCHANGED <<query, shown, loads>>
       ELSE Reload(op.q, {"deleting"})
    /\ Close(i) /\ UNCHANGED <<selected, edited>>

\* page - 1 is taken of the page as it is now, the condition of the page then
Removed(i) ==
    LET op == ops[i] IN
    /\ Answered(i, "delete")
    /\ IF op.ok = {}
       THEN Release({"deleting"}) /\ UNCHANGED <<query, shown, loads>>
       ELSE IF op.n = 1 /\ op.q.page > 1
       THEN MoveTo([query EXCEPT !.page = @ - 1], <<>>) /\ Release({"deleting"})
       ELSE Reload(op.q, {"deleting"})
    /\ Close(i) /\ UNCHANGED <<selected, edited>>

domainRemoved(i) == table = "domain" /\ Removed(i)
cidrRemoved(i) == table = "cidr" /\ Removed(i)

-----------------------------------------------------------------------------
(* The footer of the selected rows *)

ChangeSelected(g) ==
    /\ Free /\ "bulk" \notin busy /\ selected # {} /\ Click
    /\ g \in Offered
    /\ busy' = busy \cup {"bulk"}
    /\ Send(Op("regroup", selected, selected, g))
    /\ UNCHANGED <<deleting, modal>> /\ Sent

changeSelectedDomainsGroup(g) == table = "domain" /\ ChangeSelected(g)
changeSelectedCidrsGroup(g) == table = "cidr" /\ ChangeSelected(g)

\* The whole selection is dropped, and the flag is off before the reload
SelectedChanged(i) ==
    /\ Answered(i, "regroup")
    /\ Release({"bulk"}) /\ selected' = {}
    /\ Fetch(<<Load(ops[i].q, {})>>)
    /\ Close(i) /\ UNCHANGED <<query, edited>>

selectedDomainsChanged(i) == table = "domain" /\ SelectedChanged(i)
selectedCidrsChanged(i) == table = "cidr" /\ SelectedChanged(i)

DeleteSelected == "bulk" \notin busy /\ selected # {} /\ Confirm("purge", selected)

deleteSelectedDomains == table = "domain" /\ DeleteSelected
deleteSelectedCidrs == table = "cidr" /\ DeleteSelected
purgeDomains == table = "domain" /\ Accept("purge", "bulk")
purgeCidrs == table = "cidr" /\ Accept("purge", "bulk")

\* The dialog stays until the reload is through; the page is not corrected
SelectedDeleted(i) ==
    LET op == ops[i] IN
    /\ Answered(i, "purge")
    /\ Release({"bulk"}) /\ selected' = op.bad
    /\ Fetch(<<Load(op.q, {"modal"})>>)
    /\ Close(i) /\ UNCHANGED <<query, edited>>

selectedDomainsDeleted(i) == table = "domain" /\ SelectedDeleted(i)
selectedCidrsDeleted(i) == table = "cidr" /\ SelectedDeleted(i)

-----------------------------------------------------------------------------
DomainsNext ==
    \/ setDomainSearch \/ untickDomains
    \/ deleteSelectedDomains \/ purgeDomains
    \/ \E i \in DOMAIN loads : loadDomains(i)
    \/ \E i \in DOMAIN ops : \/ domainsAdded(i) \/ domainGroupChanged(i)
                             \/ domainRemoved(i) \/ selectedDomainsChanged(i)
                             \/ selectedDomainsDeleted(i)
    \/ \E text \in BOOLEAN : typeDomainSearch(text)
    \/ \E f \in Offered \cup {All} : setDomainGroupFilter(f)
    \/ \E p \in 1 .. Cardinality(Keys), size \in Sizes : turnDomains(p, size)
    \/ \E keys \in Batches, g \in Offered : handleAddDomains(keys, g)
    \/ \E k \in Keys : tickDomain(k) \/ removeDomain(k)
    \/ \E k \in Keys, g \in Offered : changeDomainGroup(k, g)
    \/ \E g \in Offered : changeSelectedDomainsGroup(g)

CidrsNext ==
    \/ setCidrSearch \/ untickCidrs
    \/ handleClearAllCidrs \/ clearAllCidrs \/ deleteSelectedCidrs \/ purgeCidrs
    \/ \E i \in DOMAIN loads : loadCidrs(i)
    \/ \E i \in DOMAIN ops : \/ cidrsAdded(i) \/ cidrsCleared(i) \/ cidrGroupChanged(i)
                             \/ cidrRemoved(i) \/ selectedCidrsChanged(i)
                             \/ selectedCidrsDeleted(i)
    \/ \E text \in BOOLEAN : typeCidrSearch(text)
    \/ \E f \in Offered \cup {All} : setCidrGroupFilter(f)
    \/ \E p \in 1 .. Cardinality(Keys), size \in Sizes : turnCidrs(p, size)
    \/ \E keys \in Batches, g \in Offered : handleAddCidrs(keys, g)
    \/ \E k \in Keys : tickCidr(k) \/ removeCidr(k)
    \/ \E k \in Keys, g \in Offered : changeCidrGroup(k, g)
    \/ \E g \in Offered : changeSelectedCidrsGroup(g)

RoutesNext ==
    \/ DomainsNext \/ CidrsNext
    \/ RoutesRelabel
    \/ \E i \in DOMAIN loads : loadGroups(i)
    \/ table \in Routes /\ Dismiss
=============================================================================
