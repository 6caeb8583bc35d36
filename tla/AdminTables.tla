---------------------------- MODULE AdminTables ----------------------------
(***************************************************************************)
(* The list pages of the admin panel against the backend, each alone in a  *)
(* behaviour, and what an administrator may rely on when he reads them.    *)
(***************************************************************************)
EXTENDS RoutesPage, WorkersPage, ProxiesPage

Init == RoutesInit \/ WorkersInit \/ ProxiesInit \/ UsersInit

Next ==
    /\ \/ BackendNext
       \/ RoutesNext
       \/ WorkersNext
       \/ ProxiesNext
       \/ UsersNext
    /\ Watch

Spec == Init /\ [][Next]_vars

-----------------------------------------------------------------------------
Flags == {"bulk", "add", "clear", "del"}
Frees == SUBSET (Flags \cup {"deleting", "modal"})
OpRecord ==
    [kind : {"patch", "delete", "add", "clear", "regroup", "purge", "dropgroup"},
     keys : SUBSET Keys, todo : SUBSET (Keys \cup {0}), ok : SUBSET (Keys \cup {0}),
     bad : SUBSET (Keys \cup {0}), group : Groups \cup {NoGroup, None},
     q : Query, n : Nat, total : Nat]

\* The page asked for is at least 1, whatever interleaves.  The routes are the
\* exception: page - 1 there may meet a page that was set back meanwhile.
PagePositive == query.page >= 1 \/ (overlap /\ table \in Routes)

\* Every variable holds what the pages put there, and the page is one there can be.
TypeOK ==
    /\ table \in Tables /\ store \in [Keys -> Values] /\ live \subseteq Groups
    /\ query \in Query /\ PagePositive /\ input \in BOOLEAN /\ due \in BOOLEAN
    /\ shown \in [rows : [Keys -> Values], total : Nat, loading : BOOLEAN]
    /\ groups \subseteq Groups /\ selected \subseteq Keys /\ busy \subseteq Flags
    /\ deleting \in Keys \cup Groups \cup {None}
    /\ modal = None \/ modal \in [op : OpRecord, running : BOOLEAN]
    /\ \A i \in DOMAIN loads : loads[i].q \in Query /\ loads[i].frees \in Frees
    /\ \A i \in DOMAIN ops : ops[i] \in OpRecord
    /\ clicks \in Nat /\ faults \in Nat /\ Within(clicks, faults)

\* Every request has been answered, and every answer has been handled
Settled == loads = <<>> /\ ops = <<>>

\* No change met another request, no list overtook another, nothing failed,
\* and nobody else wrote
Calm == ~overlap /\ ~overtaken /\ faults = 0

\* A page that has come to rest shows the backend's answer to what its search
\* box, its filter and its pager say, although the handlers that reload it use
\* the query of the render that created them.  Exceptions: a list that was
\* answered with 404, and rows patched in place in a filtered list.
SettledView ==
    Settled /\ Calm /\ ~stranded /\ ~edited =>
        Answer(query) = [rows |-> shown.rows, total |-> shown.total]

\* The changes after which a page is not corrected
Uncorrected ==
    CASE table \in Routes -> {"purge", "regroup"}
      [] table = "worker" -> {"delete", "regroup", "dropgroup"}
      [] OTHER -> {}

\* The removals that look at the last page get it right: deleting one route,
\* several workers or any proxies never leaves the pager behind the end, where
\* the reload fails and the deleted rows stay on show.  The other changes can.
PageCorrected ==
    Settled /\ Calm /\ ~edited /\ stranded => via \cap Uncorrected # {}

\* Once every request has been answered, or has failed, no button is left
\* loading, no spinner and no dialog covers the page.
NothingLeftBusy ==
    Settled => /\ busy = {} /\ ~shown.loading
               /\ modal = None \/ ~modal.running
               /\ table \in Routes => deleting = None

\* The bulk footer of workers and of proxies counts rows that exist: rows leave
\* the selection when the page deletes them.
SelectedExist ==
    Settled /\ Calm /\ ~stranded /\ ~edited /\ table \in {"worker", "proxy"} =>
        selected \subseteq Existing

\* "If some requests failed, their GUIDs stay selected": a bulk change that ends
\* takes no row out of the selection whose request failed.  The bulk change of
\* the group of routes is the exception.
FailedStaySelected ==
    [][\A i \in DOMAIN ops :
         /\ Len(ops') < Len(ops) /\ ops[i] \notin Range(ops')
         /\ ops[i].kind = "purge" \/ (ops[i].kind = "regroup" /\ table = "worker")
         => ops[i].bad \cap selected \subseteq selected']_vars
============================================================================
