------------------------------ MODULE PagedTable ------------------------------
(***************************************************************************)
(* What the list pages of the admin panel share: a table of the backend,   *)
(* the React state of the page that shows it, and the requests in flight   *)
(* between them.  RoutesPage, WorkersPage, ProxiesPage and UsersPage add   *)
(* the handlers of their pages, AdminTables composes them.                 *)
(*                                                                         *)
(* Every handler runs up to its first await in one step (the click), the   *)
(* backend handles each request in a step of its own, and the rest of the  *)
(* handler runs in a step when the answer is in.  A handler keeps the      *)
(* query, the number of rows and the total of the render it was created    *)
(* in: they travel in the records of ops and modal.                        *)
(***************************************************************************)
EXTENDS Integers, Sequences, FiniteSets, SequencesExt

CONSTANTS
    Tables,     \* the pages to check
    Keys,       \* row keys, in the order in which the backend lists them
    Super,      \* the superusers among the keys of the users page
    Hits,       \* the keys that the search text matches
    Groups,     \* ids of groups
    NoGroup,    \* workers: a null group, and the filter "none"; routes: 0, direct
    Absent,     \* no such row
    All,        \* the filter "all"
    Sizes,      \* page sizes on offer
    Start,      \* the rows of the backend at the start
    Batches,    \* what one add form may hold: sets of keys
    None,       \* null
    Pending, Failed, NotFound,   \* states of a list request
    Budgets,    \* for each page, pairs that bound clicks and faults together
    MaxFlight   \* bound on the requests in flight when the admin clicks

ASSUME PagedTableAssumption ==
    /\ Keys \subseteq Nat \ {0} /\ Super \subseteq Keys /\ Hits \subseteq Keys
    /\ Sizes \subseteq Nat \ {0} /\ Batches \subseteq SUBSET Keys
    /\ Start \in [Keys -> Groups \cup {NoGroup, Absent}]
    /\ Budgets \in [Tables -> SUBSET (Nat \X Nat)] /\ MaxFlight \in Nat

\* The table is finite, the pager offers a largest size, every page has a budget
ASSUME KeysFinite == IsFiniteSet(Keys)
ASSUME SizesBounded == \E s \in Sizes : \A z \in Sizes : s >= z
ASSUME BudgetsGiven == \A t \in Tables : Budgets[t] # {}

VARIABLES
    table,      \* the page of this behaviour: pages share no state
    store,      \* the rows of the backend
    live,       \* the groups of the backend
    query,      \* page, page size, search and filter, as React state
    input,      \* the text in the search box (pages that debounce it)
    due,        \* the debounce timer is running
    shown,      \* the rows, the total and the spinner
    groups,     \* the groups that the page offers
    selected,   \* the ticked rows
    busy,       \* the loading flags that are set
    deleting,   \* deletingDomain, deletingCidr, deletingWorker ...
    modal,      \* an open Modal.confirm with the closure of its onOk
    loads,      \* list requests in flight, in the order they were sent
    ops,        \* other requests in flight
    clicks, faults,   \* budgets of the environment
    overlap,    \* history: a change, an open dialog or a turned page met a request
    overtaken,  \* history: a list answer was applied before an earlier one
    stranded,   \* history: a list request was answered with 404
    edited,     \* history: a row was patched in a filtered list
    via         \* history: the kinds of removals that have been reported

backend == <<store, live>>
asked == <<query, input, due>>
dialogs == <<busy, deleting, modal>>
budgets == <<clicks, faults>>
past == <<overtaken, stranded, edited, via>>
vars == <<table, backend, asked, shown, groups, selected, dialogs, loads, ops,
          budgets, overlap, past>>

Routes == {"domain", "cidr"}
Values == Groups \cup {NoGroup, Absent}
Query == [page : Int, size : Sizes, search : BOOLEAN,
          filter : Groups \cup {NoGroup, All}]

\* A page of rows; an absent row and a failed request look like nothing else
Answers == [rows : [Keys -> Values], total : Nat]
ASSUME AbsentApart == Absent \notin Groups \cup {NoGroup}
ASSUME StatesApart ==
    Failed # NotFound /\ Failed \notin Answers /\ NotFound \notin Answers

RowKeys == {k \in Keys : shown.rows[k] # Absent}
Existing == {k \in Keys : store[k] # Absent}

-----------------------------------------------------------------------------
(* The backend's answer to a list request *)

Matching(q) ==
    {k \in Existing : /\ q.search => k \in Hits
                      /\ q.filter # All => store[k] = q.filter}

\* Django's paginator: at least one page
LastPage(n, size) == IF n = 0 THEN 1 ELSE (n + size - 1) \div size

\* 404 outside the pages there are
Answer(q) ==
    LET M == Matching(q)
        place(k) == Cardinality({j \in M : j <= k})
    IN  IF q.page \notin 1 .. LastPage(Cardinality(M), q.size)
        THEN NotFound
        ELSE [rows |-> [k \in Keys |->
                          IF k \in M /\ (place(k) - 1) \div q.size = q.page - 1
                          THEN store[k] ELSE Absent],
              total |-> Cardinality(M)]

-----------------------------------------------------------------------------
(* Pieces of handlers *)

Load(q, frees) == [what |-> "rows", q |-> q, ans |-> Pending, frees |-> frees]
LoadGroups(q, frees) ==
    [what |-> "groups", q |-> q, ans |-> Pending, frees |-> frees]

\* Calls of the page's loaders by a handler that leaves the rows as in s
FetchOver(s, ls) ==
    /\ loads' = loads \o ls
    /\ shown' = [s EXCEPT !.loading = @ \/ \E i \in DOMAIN ls : ls[i].what = "rows"]

Fetch(ls) == FetchOver(shown, ls)

\* set...Page and the like: a changed query runs the effect that loads it;
\* the handler's own calls of the loader come before the effect
MoveTo(q, ls) ==
    /\ query' = q
    /\ Fetch(ls \o IF q # query THEN <<Load(q, {})>> ELSE <<>>)

\* The flags that a finally block, or the end of onOk, resets
Release(frees) ==
    /\ busy' = busy \ frees
    /\ deleting' = IF "deleting" \in frees THEN None ELSE deleting
    /\ modal' = IF "modal" \in frees THEN None ELSE modal

\* await load...() as the last thing a handler does before it resets frees
Reload(q, frees) == Fetch(<<Load(q, frees)>>) /\ UNCHANGED <<query, dialogs>>

\* The page is moved to last when it lies behind it, and reloaded otherwise;
\* frees are the flags that are reset at the end of the handler
Correct(op, last, frees) ==
    IF op.q.page > last
    THEN MoveTo([query EXCEPT !.page = last], <<>>) /\ Release(frees)
    ELSE Reload(op.q, frees)

\* One request for each key; todo = {0} for a request about no key in particular
Op(kind, keys, todo, g) ==
    [kind |-> kind, keys |-> keys, todo |-> todo, ok |-> {}, bad |-> {},
     group |-> g, q |-> query, n |-> Cardinality(RowKeys), total |-> shown.total]

Send(op) == ops' = Append(ops, op)

\* All requests of ops[i] are answered (await, or Promise.allSettled)
Answered(i, kind) == ops[i].kind = kind /\ ops[i].todo = {}

\* A request was sent, and the rest of the page is as it was
Sent == UNCHANGED <<backend, asked, shown, groups, selected, loads, past>>

\* A handler has taken ops[i]; removals are remembered
Close(i) ==
    /\ ops' = RemoveAt(ops, i)
    /\ via' = IF ops[i].ok # {} THEN via \cup {ops[i].kind} ELSE via
    /\ UNCHANGED <<backend, input, due, groups, budgets, overtaken, stranded>>

\* Rows patched in place after an accepted PATCH
Patched(keys, g) ==
    [shown EXCEPT !.rows =
        [k \in Keys |-> IF k \in keys /\ @[k] # Absent THEN g ELSE @[k]]]

Within(c, f) == \E b \in Budgets[table] : c <= b[1] /\ f <= b[2]

\* The admin starts something; what answers or takes back an earlier click is free
Click ==
    /\ Within(clicks + 1, faults) /\ Len(loads) + Len(ops) < MaxFlight
    /\ clicks' = clicks + 1 /\ UNCHANGED faults

\* No dialog covers the page
Free == modal = None /\ (table \notin Routes => deleting = None)

\* ... and no spinner covers the table
InTable == /\ Free /\ ~shown.loading
           /\ table \in {"worker", "proxy"} => "bulk" \notin busy

\* A request fails, or somebody else writes
Spare == Within(clicks, faults + 1)

-----------------------------------------------------------------------------
(* The backend, and the other people who use it *)

AnswerLoad(i) ==
    /\ loads[i].ans = Pending
    /\ loads' = [loads EXCEPT ![i].ans =
                    IF loads[i].what = "rows" THEN Answer(loads[i].q) ELSE live]
    /\ UNCHANGED <<backend, asked, shown, groups, selected, dialogs, ops,
                   budgets, past>>

FailLoad(i) ==
    /\ loads[i].ans = Pending /\ Spare
    /\ loads' = [loads EXCEPT ![i].ans = Failed]
    /\ faults' = faults + 1
    /\ UNCHANGED <<backend, asked, shown, groups, selected, dialogs, ops,
                   clicks, past>>

\* PATCH of a domain does not look whether the domain is there; clear_cidr
\* calls a service that does not exist
Accepts(op, k) ==
    CASE op.kind \in {"patch", "regroup"} ->
            /\ op.group \in live \cup {NoGroup}
            /\ table = "domain" \/ store[k] # Absent
      [] op.kind \in {"delete", "purge"} -> store[k] # Absent
      [] op.kind = "add" -> op.group \in live \cup {NoGroup}
      [] op.kind = "dropgroup" -> op.group \in live
      [] op.kind = "clear" -> FALSE

Effect(op, k) ==
    CASE op.kind \in {"patch", "regroup"} -> [store EXCEPT ![k] = op.group]
      [] op.kind \in {"delete", "purge"} -> [store EXCEPT ![k] = Absent]
      [] op.kind = "add" -> [x \in Keys |-> IF x \in op.keys THEN op.group ELSE store[x]]
      [] op.kind = "dropgroup" ->
            [x \in Keys |-> IF store[x] = op.group THEN NoGroup ELSE store[x]]

Handle(op, k) ==
    /\ store' = Effect(op, k)
    /\ live' = IF op.kind = "dropgroup" THEN live \ {op.group} ELSE live

Serve(i, k) ==
    /\ k \in ops[i].todo
    /\ IF Accepts(ops[i], k)
       THEN /\ Handle(ops[i], k)
            /\ ops' = [ops EXCEPT ![i].todo = @ \ {k}, ![i].ok = @ \cup {k}]
       ELSE /\ ops' = [ops EXCEPT ![i].todo = @ \ {k}, ![i].bad = @ \cup {k}]
            /\ UNCHANGED backend
    /\ UNCHANGED <<asked, shown, groups, selected, dialogs, loads, budgets, past>>

\* The request, or only its answer, is lost, or the backend fails
Lose(i, k) ==
    /\ k \in ops[i].todo /\ Spare
    /\ \/ Accepts(ops[i], k) /\ Handle(ops[i], k)
       \/ UNCHANGED backend
    /\ ops' = [ops EXCEPT ![i].todo = @ \ {k}, ![i].bad = @ \cup {k}]
    /\ faults' = faults + 1
    /\ UNCHANGED <<asked, shown, groups, selected, dialogs, loads, clicks, past>>

\* Another admin, another tab, or the broker adds or deletes a row
Another(k, v) ==
    /\ Spare /\ store[k] # v /\ Absent \in {v, store[k]}
    /\ store' = [store EXCEPT ![k] = v]
    /\ faults' = faults + 1
    /\ UNCHANGED <<live, asked, shown, groups, selected, dialogs, loads, ops,
                   clicks, past>>

-----------------------------------------------------------------------------
(* Steps that all pages have *)

\* The loader goes on when its answer is in
LoadDone(i) ==
    LET l == loads[i] IN
    /\ l.what = "rows" /\ l.ans # Pending
    /\ loads' = RemoveAt(loads, i)
    /\ shown' = IF l.ans \in {Failed, NotFound}
                THEN [shown EXCEPT !.loading = FALSE]
                ELSE [rows |-> l.ans.rows, total |-> l.ans.total, loading |-> FALSE]
    /\ Release(l.frees)
    /\ overtaken' = (overtaken \/ \E j \in 1 .. i - 1 : loads[j].what = "rows")
    /\ stranded' = (stranded \/ l.ans = NotFound)
    /\ UNCHANGED <<backend, asked, groups, selected, ops, budgets, edited, via>>

\* loadGroups, with what its caller does next
GroupsDone(i, next) ==
    LET l == loads[i] IN
    /\ l.what = "groups" /\ l.ans # Pending
    /\ groups' = IF l.ans = Failed THEN groups ELSE l.ans
    /\ loads' = RemoveAt(loads, i) \o next
    /\ shown' = [shown EXCEPT !.loading = @ \/ next # <<>>]
    /\ UNCHANGED <<backend, asked, selected, dialogs, ops, budgets, past>>

\* The search box of a page that debounces; the effect restarts the timer
Type(text, keep) ==
    /\ Free /\ Click /\ text # input
    /\ input' = text /\ due' = TRUE
    /\ selected' = IF keep THEN selected ELSE {}
    /\ UNCHANGED <<backend, query, shown, groups, dialogs, loads, ops, past>>

Debounced ==
    /\ due /\ due' = FALSE
    /\ MoveTo([query EXCEPT !.search = input, !.page = 1], <<>>)
    /\ UNCHANGED <<backend, input, groups, selected, dialogs, ops, budgets, past>>

Filter(f) ==
    /\ Free /\ Click /\ f # query.filter
    /\ MoveTo([query EXCEPT !.filter = f, !.page = 1], <<>>)
    /\ selected' = {}
    /\ UNCHANGED <<backend, input, due, groups, dialogs, ops, past>>

\* A page between 1 and the last one that the total gives, or another size
Turn(p, size, keep) ==
    /\ InTable /\ Click
    /\ p \in 1 .. LastPage(shown.total, query.size)
    /\ p # query.page \/ size # query.size
    /\ MoveTo(IF size # query.size
              THEN [query EXCEPT !.size = size, !.page = 1]
              ELSE [query EXCEPT !.page = p], <<>>)
    /\ selected' = IF keep THEN selected ELSE {}
    /\ UNCHANGED <<backend, input, due, groups, dialogs, ops, past>>

\* A checkbox; without preserveSelectedRowKeys other pages' keys are dropped
Tick(k, keep) ==
    /\ InTable /\ Click /\ k \in RowKeys
    /\ LET now == IF keep THEN selected ELSE selected \cap RowKeys
       IN  selected' = IF k \in now THEN now \ {k} ELSE now \cup {k}
    /\ UNCHANGED <<backend, asked, shown, groups, dialogs, loads, ops, past>>

Untick ==
    /\ Free /\ selected # {}
    /\ selected' = {}
    /\ UNCHANGED <<budgets, backend, asked, shown, groups, dialogs, loads, ops, past>>

\* A new t after a change of language makes the loaders new, and the effects run
Relabel(ls) ==
    /\ Free /\ Click
    /\ MoveTo(query, ls)
    /\ UNCHANGED <<backend, input, due, groups, selected, dialogs, ops, past>>

\* Modal.confirm keeps the closure of the render that opened it
Confirm(kind, keys) ==
    /\ Free /\ Click
    /\ modal' = [op |-> Op(kind, keys, IF kind = "clear" THEN {0} ELSE keys, None),
                 running |-> FALSE]
    /\ UNCHANGED <<backend, asked, shown, groups, selected, busy, deleting,
                   loads, ops, past>>

Dismiss ==
    /\ modal # None /\ ~modal.running
    /\ modal' = None
    /\ UNCHANGED <<budgets, backend, asked, shown, groups, selected, busy, deleting,
                   loads, ops, past>>

\* onOk: the dialog stays until its promise is settled
Accept(kind, flag) ==
    /\ modal # None /\ ~modal.running /\ modal.op.kind = kind
    /\ modal' = [modal EXCEPT !.running = TRUE]
    /\ busy' = busy \cup {flag}
    /\ Send(modal.op)
    /\ UNCHANGED <<budgets, backend, asked, shown, groups, selected, deleting, loads, past>>

-----------------------------------------------------------------------------
TableInit ==
    /\ table \in Tables
    /\ store = Start /\ live = Groups
    /\ query = [page |-> 1, size |-> CHOOSE s \in Sizes : \A z \in Sizes : s >= z,
                search |-> FALSE, filter |-> All]
    /\ input = FALSE /\ due = (table \in Routes \cup {"proxy"})
    /\ shown = [rows |-> [k \in Keys |-> Absent], total |-> 0, loading |-> TRUE]
    /\ groups = live /\ selected = {} /\ busy = {} /\ deleting = None /\ modal = None
    /\ loads = <<Load(query, {})>> /\ ops = <<>>
    /\ clicks = 0 /\ faults = 0
    /\ overlap = FALSE /\ overtaken = FALSE /\ stranded = FALSE /\ edited = FALSE
    /\ via = {}

BackendNext ==
    \/ \E i \in DOMAIN loads : AnswerLoad(i) \/ FailLoad(i)
    \/ \E i \in DOMAIN ops : \E k \in ops[i].todo : Serve(i, k) \/ Lose(i, k)
    \/ \E k \in Keys, v \in Values : Another(k, v)

\* loadGroups of a handler that will load the rows next
Chained(l) == l.what = "groups" /\ l.frees # {}

\* The history variable overlap, and the page, over any step
Watch ==
    /\ table' = table
    /\ overlap' = \/ overlap
                  \/ /\ Len(ops') + Len(loads') > 1
                     /\ ops' # <<>> \/ \E i \in DOMAIN loads' : Chained(loads'[i])
                  \/ modal' # None /\ ~modal'.running /\ loads' # <<>>
                  \/ query'.page > 1 /\ query' # query /\ loads # <<>>
===============================================================================
