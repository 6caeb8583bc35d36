-------------------------- MODULE AdminTablesProofs --------------------------
(***************************************************************************)
(* The list pages of the admin panel, proved for any number of rows,       *)
(* groups, page sizes, clicks and faults.                                  *)
(***************************************************************************)
EXTENDS AdminTables, FiniteSetTheorems, TLAPS

-----------------------------------------------------------------------------
(* Sequences of requests.                                                  *)

\* What RemoveAt returns.
LEMMA RemoveAtIs ==
    ASSUME NEW S, NEW s \in Seq(S), NEW i \in DOMAIN s
    PROVE  /\ RemoveAt(s, i) \in Seq(S) /\ Len(RemoveAt(s, i)) = Len(s) - 1
           /\ \A j \in 1 .. Len(s) - 1 :
                RemoveAt(s, i)[j] = IF j < i THEN s[j] ELSE s[j + 1]
<1> DEFINE l == SubSeq(s, 1, i - 1)
           r == SubSeq(s, i + 1, Len(s))
<1>1. i \in 1 .. Len(s) /\ Len(s) \in Nat
  OBVIOUS
<1>2. l \in Seq(S) /\ Len(l) = i - 1 /\ r \in Seq(S) /\ Len(r) = Len(s) - i
  BY <1>1
<1>3. /\ \A j \in 1 .. i - 1 : l[j] = s[j]
      /\ \A j \in 1 .. Len(s) - i : r[j] = s[j + i]
  BY <1>1
<1>4. RemoveAt(s, i) = l \o r
  BY DEF RemoveAt
<1> HIDE DEF l, r
<1>5. /\ l \o r \in Seq(S) /\ Len(l \o r) = Len(s) - 1
      /\ \A j \in 1 .. i - 1 : (l \o r)[j] = l[j]
      /\ \A j \in i .. Len(s) - 1 : (l \o r)[j] = r[j - (i - 1)]
  BY <1>1, <1>2
<1>6. ASSUME NEW j \in i .. Len(s) - 1 PROVE (l \o r)[j] = s[j + 1]
  <2>1. j - (i - 1) \in 1 .. Len(s) - i /\ (j - (i - 1)) + i = j + 1
    BY <1>1
  <2> QED
    BY <1>3, <1>5, <2>1
<1>7. \A j \in 1 .. Len(s) - 1 : (l \o r)[j] = IF j < i THEN s[j] ELSE s[j + 1]
  <2> TAKE j \in 1 .. Len(s) - 1
  <2>1. j \in 1 .. i - 1 \/ (j \in i .. Len(s) - 1 /\ ~(j < i))
    BY <1>1
  <2>2. CASE j \in 1 .. i - 1
    BY <1>1, <1>3, <1>5, <2>2
  <2> QED
    BY <1>6, <2>1, <2>2
<1> QED
  BY <1>4, <1>5, <1>7

\* RemoveAt takes out one element and no other.
LEMMA RemoveAtRange ==
    ASSUME NEW S, NEW s \in Seq(S), NEW i \in DOMAIN s
    PROVE  /\ Range(RemoveAt(s, i)) \subseteq Range(s)
           /\ \A x \in Range(s) : x # s[i] => x \in Range(RemoveAt(s, i))
<1> DEFINE r == RemoveAt(s, i)
<1>1. /\ DOMAIN r = 1 .. Len(s) - 1 /\ i \in 1 .. Len(s) /\ Len(s) \in Nat
      /\ \A j \in 1 .. Len(s) - 1 : r[j] = IF j < i THEN s[j] ELSE s[j + 1]
  BY RemoveAtIs
<1> HIDE DEF r
<1>2. \A j \in 1 .. Len(s) - 1 : j \in DOMAIN s /\ j + 1 \in DOMAIN s
  BY <1>1
<1>3. Range(r) \subseteq Range(s)
  BY <1>1, <1>2 DEF Range
<1>4. ASSUME NEW x \in Range(s), x # s[i] PROVE x \in Range(r)
  <2>1. PICK m \in 1 .. Len(s) : s[m] = x
    BY <1>1 DEF Range
  <2>2. CASE m < i
    BY <1>1, <2>1, <2>2 DEF Range
  <2>3. CASE m > i
    <3>1. m - 1 \in 1 .. Len(s) - 1 /\ ~(m - 1 < i) /\ (m - 1) + 1 = m
      BY <1>1, <2>1, <2>3
    <3>2. r[m - 1] = s[(m - 1) + 1]
      BY <1>1, <3>1
    <3> QED
      BY <1>1, <2>1, <3>1, <3>2 DEF Range
  <2> QED
    BY <1>1, <1>4, <2>1, <2>2, <2>3
<1> QED
  BY <1>3, <1>4 DEF r

\* What is appended joins the range.
LEMMA AppendRange ==
    ASSUME NEW S, NEW s \in Seq(S), NEW x \in S
    PROVE  Range(Append(s, x)) = Range(s) \cup {x}
<1> DEFINE r == Append(s, x)
<1>1. /\ DOMAIN r = 1 .. Len(s) + 1 /\ DOMAIN s = 1 .. Len(s) /\ Len(s) \in Nat
      /\ \A j \in 1 .. Len(s) : r[j] = s[j]
      /\ r[Len(s) + 1] = x
  OBVIOUS
<1> HIDE DEF r
<1> QED
  <2>1. Range(r) \subseteq Range(s) \cup {x}
    <3>1. ASSUME NEW j \in 1 .. Len(s) + 1 PROVE j = Len(s) + 1 \/ j \in 1 .. Len(s)
      BY <1>1
    <3> QED
      BY <1>1, <3>1 DEF Range
  <2>2. Range(s) \subseteq Range(r)
    BY <1>1 DEF Range
  <2>3. Len(s) + 1 \in DOMAIN r
    BY <1>1
  <2>4. x \in Range(r)
    BY <1>1, <2>3 DEF Range
  <2>5. Range(r) = Range(s) \cup {x}
    BY <2>1, <2>2, <2>4
  <2> QED
    BY <2>5 DEF r

\* A concatenation holds the elements of both.
LEMMA ConcatRange ==
    ASSUME NEW S, NEW s \in Seq(S), NEW t \in Seq(S)
    PROVE  /\ s \o t \in Seq(S) /\ Len(s \o t) = Len(s) + Len(t)
           /\ Range(s \o t) = Range(s) \cup Range(t)
<1> DEFINE r == s \o t
<1>1. /\ DOMAIN r = 1 .. Len(s) + Len(t) /\ DOMAIN s = 1 .. Len(s)
      /\ DOMAIN t = 1 .. Len(t) /\ Len(s) \in Nat /\ Len(t) \in Nat
      /\ r \in Seq(S) /\ Len(r) = Len(s) + Len(t)
      /\ \A j \in 1 .. Len(s) : r[j] = s[j]
      /\ \A j \in 1 .. Len(t) : r[Len(s) + j] = t[j]
  OBVIOUS
<1> HIDE DEF r
<1>2. Range(r) \subseteq Range(s) \cup Range(t)
  <2>1. ASSUME NEW j \in 1 .. Len(s) + Len(t) PROVE r[j] \in Range(s) \cup Range(t)
    <3>1. CASE j <= Len(s)
      BY <1>1, <3>1 DEF Range
    <3>2. CASE j > Len(s)
      <4>1. j - Len(s) \in 1 .. Len(t) /\ Len(s) + (j - Len(s)) = j
        BY <1>1, <3>2
      <4>2. r[j] = t[j - Len(s)]
        BY <1>1, <4>1
      <4> QED
        BY <1>1, <4>1, <4>2 DEF Range
    <3> QED
      BY <1>1, <3>1, <3>2
  <2> QED
    BY <1>1, <2>1 DEF Range
<1>3. Range(s) \subseteq Range(r)
  BY <1>1 DEF Range
<1>4. Range(t) \subseteq Range(r)
  <2>1. \A j \in 1 .. Len(t) : Len(s) + j \in DOMAIN r
    BY <1>1
  <2> QED
    BY <1>1, <2>1 DEF Range
<1>5. Range(r) = Range(s) \cup Range(t)
  BY <1>2, <1>3, <1>4
<1> QED
  BY <1>1, <1>5 DEF r

-----------------------------------------------------------------------------
(* Types.                                                                  *)

Shown == [rows : [Keys -> Values], total : Nat, loading : BOOLEAN]

LoadRecord ==
    [what : {"rows"}, q : Query, ans : {Pending, Failed, NotFound} \cup Answers,
     frees : Frees]
    \cup [what : {"groups"}, q : Query, ans : {Pending, Failed} \cup SUBSET Groups,
          frees : Frees]

\* What a handler may rely on when its requests are answered: they name a group
\* where the backend needs one, they are about the keys of the handler, a key
\* is answered once, and clear_cidr is never accepted.
SoundOp ==
    {o \in OpRecord :
        /\ o.kind \in {"patch", "regroup", "add"} => o.group \in Groups \cup {NoGroup}
        /\ o.kind \in {"patch", "delete", "regroup", "purge"} =>
              o.todo \subseteq o.keys /\ o.ok \subseteq o.keys /\ o.bad \subseteq o.keys
        /\ o.kind = "clear" => o.ok = {}
        /\ o.ok \cap o.bad = {} /\ o.todo \cap (o.ok \cup o.bad) = {}}

Types ==
    /\ table \in Tables /\ store \in [Keys -> Values] /\ live \subseteq Groups
    /\ query \in Query /\ input \in BOOLEAN /\ due \in BOOLEAN /\ shown \in Shown
    /\ groups \subseteq Groups /\ selected \subseteq Keys /\ busy \subseteq Flags
    /\ deleting \in Keys \cup Groups \cup {None}
    /\ table # "worker" => deleting \in Keys \cup {None}
    /\ modal = None \/ modal \in [op : SoundOp, running : BOOLEAN]
    /\ loads \in Seq(LoadRecord) /\ ops \in Seq(SoundOp)
    /\ clicks \in Nat /\ faults \in Nat /\ Within(clicks, faults)

-----------------------------------------------------------------------------
(* Who resets the loading flags.                                           *)

\* The flags and dialogs that the handler behind a request resets at its end.
Holds(o) ==
    CASE o.kind = "add" -> {"add"}
      [] o.kind = "clear" -> {"clear", "modal"}
      [] o.kind = "delete" -> IF table \in Routes THEN {"deleting"} ELSE {"del"}
      [] o.kind = "dropgroup" -> {"del"}
      [] o.kind = "regroup" -> {"bulk"}
      [] o.kind = "purge" -> {"bulk", "modal"}
      [] OTHER -> {}

Raised ==
    busy \cup (IF modal # None /\ modal.running THEN {"modal"} ELSE {})
         \cup (IF table \in Routes /\ deleting # None THEN {"deleting"} ELSE {})

\* Whatever is raised will be reset by a request in flight; a list of groups has
\* something to reset on the page of the workers only.
OwnerInv ==
    /\ \A f \in Raised : \/ \E o \in Range(ops) : f \in Holds(o)
                         \/ \E l \in Range(loads) : f \in l.frees
    /\ shown.loading => \E l \in Range(loads) : l.what = "rows"
    /\ \A l \in Range(loads) : Chained(l) => table = "worker"

-----------------------------------------------------------------------------
(* One request at a time.                                                  *)

\* A handler sees the page as it was rendered for its click.
SameRender(o) ==
    o.q = query /\ o.n = Cardinality(RowKeys) /\ o.total = shown.total

Asking == modal # None /\ ~modal.running

CalmInv ==
    ~overlap =>
        /\ ops # <<>> \/ (\E i \in DOMAIN loads : Chained(loads[i])) =>
               Len(ops) + Len(loads) <= 1
        /\ Asking => loads = <<>>
        /\ \A o \in Range(ops) : SameRender(o)
        /\ Asking => SameRender(modal.op)

-----------------------------------------------------------------------------
(* The rows on show.                                                       *)

Quiet == Calm /\ ~stranded /\ ~edited
View == [rows |-> shown.rows, total |-> shown.total]

\* Requests that will show rows.
Later(l) == l.what = "rows" \/ Chained(l)
Idle(s) == \A l \in Range(s) : ~Later(l)
LastLater(s, i) == Later(s[i]) /\ \A j \in DOMAIN s : j > i => ~Later(s[j])

\* The page is right until the request is served, and the row that it patches
\* is what the backend has afterwards.
ViewOp(o) ==
    /\ o.ok = {} => Answer(query) = View
    /\ o.kind = "patch" => \E k \in RowKeys : o.keys = {k}
    /\ o.kind = "patch" /\ query.filter = All =>
          Answer(query) = [rows |-> Patched(o.ok, o.group).rows, total |-> shown.total]

\* A page without requests is right, one with requests will be: the last of them
\* asks for what the search box, the filter and the pager say.
ViewInv ==
    Quiet =>
        /\ ops = <<>> /\ Idle(loads) => Answer(query) = View
        /\ \A i \in DOMAIN loads : LastLater(loads, i) => loads[i].q = query
        /\ \A l \in Range(loads) : l.what = "rows" => l.ans \in {Pending, Answer(l.q)}
        /\ \A o \in Range(ops) : ViewOp(o)

-----------------------------------------------------------------------------
(* The selected rows.                                                      *)

\* Rows that are deleted, while the page has not heard of it.
Gone == UNION {IF o.kind \in {"delete", "purge"} THEN o.ok ELSE {} : o \in Range(ops)}

\* What is selected exists, or its deletion is about to be reported.  A purge
\* names rows that exist, so that none of its requests fails.
SelInv ==
    Quiet /\ table \in {"worker", "proxy"} =>
        /\ selected \subseteq Existing \cup Gone
        /\ Asking => modal.op.todo \subseteq Existing \cup Gone /\ modal.op.bad = {}
        /\ ~shown.loading => RowKeys \subseteq Existing \cup Gone
        /\ \A o \in Range(ops) : o.kind = "purge" => o.bad = {} /\ o.todo \subseteq Existing

-----------------------------------------------------------------------------
(* The page that the pager is on.                                          *)

InRange(q) == q.page \in 1 .. LastPage(Cardinality(Matching(q)), q.size)

\* Nothing has happened that leaves the pager where it is.
Corrected == Calm /\ ~edited /\ via \cap Uncorrected = {}

\* The total that a removal subtracts from is not too large, and the page on
\* which a route is deleted holds the rows that its handler counted.
Counts(o) ==
    /\ o.kind \in {"delete", "purge"} =>
          Cardinality(Matching(query)) >= o.total - Cardinality(o.ok)
    /\ o.kind = "delete" /\ table \in Routes =>
          /\ \E k \in Keys : o.keys = {k}
          /\ o.total >= (o.q.page - 1) * o.q.size + (IF o.n = 1 THEN 1 ELSE 2)

\* A list is only asked for a page that there is.
PageInv ==
    Corrected =>
        /\ ~stranded
        /\ \A l \in Range(loads) : Later(l) => InRange(l.q)
        /\ ops = <<>> => InRange(query)
        /\ \A o \in Range(ops) : Counts(o)
        /\ table = "user" => query.page = 1


-----------------------------------------------------------------------------
(* The steps, by what they do to the requests and the dialogs.             *)

\* Reading: search, filter, pager, checkboxes, a change of language.
Browse ==
    \/ table # "user" /\ \E text, keep \in BOOLEAN : Type(text, keep)
    \/ table # "user" /\ Debounced
    \/ \E text \in BOOLEAN : setWorkerSearch(text)
    \/ table # "user" /\ \E f \in NullOr(groups) \cup {All} : Filter(f)
    \/ table # "user" /\ \E p \in 1 .. Cardinality(Keys), size \in Sizes, keep \in BOOLEAN :
                            Turn(p, size, keep)
    \/ table # "user" /\ \E k \in Keys, keep \in BOOLEAN : Tick(k, keep)
    \/ table # "user" /\ Untick
    \/ RoutesRelabel \/ proxiesRelabel

\* The dialogs that a page keeps in deleting are opened and closed.
Mark ==
    /\ table \notin Routes /\ deleting' \in Keys \cup Groups \cup {None}
    /\ table # "worker" => deleting' \in Keys \cup {None}
    /\ UNCHANGED <<busy, modal, ops, faults>> /\ Sent
    /\ Click \/ clicks' = clicks

\* A dialog of Modal.confirm is opened.
Ask ==
    \/ table = "cidr" /\ Confirm("clear", {})
    \/ table # "user" /\ Confirm("purge", selected)

Agree ==
    \/ table = "cidr" /\ Accept("clear", "clear")
    \/ table # "user" /\ Accept("purge", "bulk")

\* A request that changes something is sent.
Start1(kind, keys, todo, g) ==
    /\ Send(Op(kind, keys, todo, g)) /\ modal' = modal /\ Sent
    /\ (Click \/ clicks' = clicks) /\ faults' = faults

StartAdd(keys, g) ==
    /\ table \in Routes /\ Start1("add", keys, {0}, g)
    /\ busy' = busy \cup {"add"} /\ deleting' = deleting

StartPatch(k, g) ==
    /\ table \in Routes \cup {"worker"} /\ InTable /\ k \in RowKeys
    /\ Start1("patch", {k}, {k}, g)
    /\ busy' = busy /\ deleting' = deleting

StartRemoval(k) ==
    /\ table \in Routes /\ InTable /\ k \in RowKeys /\ Start1("delete", {k}, {k}, None)
    /\ deleting' = k /\ busy' = busy

StartRegroup(g) ==
    /\ table \in Routes \cup {"worker"} /\ Start1("regroup", selected, selected, g)
    /\ busy' = busy \cup {"bulk"} /\ deleting' = deleting

StartDropping(g) ==
    /\ table = "worker" /\ g \in Groups /\ Start1("dropgroup", {}, {0}, g)
    /\ busy' = busy \cup {"del"} /\ deleting' = deleting

StartDeletion(k) ==
    /\ table \notin Routes /\ Start1("delete", {k}, {k}, None)
    /\ busy' = busy \cup {"del"} /\ deleting' = deleting

Starts ==
    \/ \E keys \in Batches, g \in NullOr(groups) : StartAdd(keys, g)
    \/ \E k \in Keys, g \in NullOr(groups) : StartPatch(k, g)
    \/ \E k \in Keys : StartRemoval(k) \/ StartDeletion(k)
    \/ \E g \in NullOr(groups) : StartRegroup(g)
    \/ \E g \in Groups : StartDropping(g)

\* A handler goes on when its requests are answered.
RouteCloses(i) ==
    \/ domainsAdded(i) \/ cidrsAdded(i) \/ cidrsCleared(i)
    \/ table \in Routes /\ Removed(i)
    \/ table \in Routes /\ SelectedChanged(i)
    \/ table \in Routes /\ SelectedDeleted(i)

WorkerCloses(i) ==
    \/ groupRemoved(i) \/ workerRemoved(i) \/ groupUpdated(i) \/ workersPurged(i)

Closes(i) ==
    \/ RouteCloses(i) \/ WorkerCloses(i)
    \/ table \in Routes \cup {"worker"} /\ GroupChanged(i)
    \/ removed(i) \/ bulkRemoved(i) \/ userRemoved(i)

Lists(i) ==
    \/ LoadDone(i)
    \/ loadGroups(i) \/ loadWorkerGroups(i)

Step ==
    \/ BackendNext \/ Browse \/ Mark \/ Ask \/ Agree \/ Starts
    \/ table # "user" /\ Dismiss
    \/ \E i \in DOMAIN loads : Lists(i)
    \/ \E i \in DOMAIN ops : Closes(i)

\* Types are needed for the worker that is deleted only.
LEMMA NextIsStep ==
    ASSUME table # "worker" => deleting \in Keys \cup {None}, Next PROVE Step /\ Watch
<1> SUFFICES Step
  BY DEF Next
<1>1. CASE BackendNext
  BY <1>1 DEF Step
<1>2. CASE DomainsNext
  <2>1. CASE setDomainSearch \/ untickDomains
    BY <2>1 DEF setDomainSearch, untickDomains, Routes, Browse, Step
  <2>2. CASE deleteSelectedDomains \/ purgeDomains
    BY <2>2 DEF deleteSelectedDomains, purgeDomains, DeleteSelected, Ask, Agree, Step
  <2>3. ASSUME NEW i \in DOMAIN loads, loadDomains(i) PROVE Step
    BY <2>3 DEF loadDomains, Lists, Step
  <2>4. ASSUME NEW i \in DOMAIN ops,
               domainsAdded(i) \/ domainGroupChanged(i) \/ domainRemoved(i)
               \/ selectedDomainsChanged(i) \/ selectedDomainsDeleted(i)
        PROVE  Step
    BY <2>4 DEF domainGroupChanged, domainRemoved, selectedDomainsChanged,
       selectedDomainsDeleted, Closes, RouteCloses, Routes, Step
  <2>5. ASSUME NEW text \in BOOLEAN, typeDomainSearch(text) PROVE Step
    BY <2>5 DEF typeDomainSearch, Browse, Step
  <2>6. ASSUME NEW f \in Offered \cup {All}, setDomainGroupFilter(f) PROVE Step
    BY <2>6 DEF setDomainGroupFilter, Offered, NullOr, Browse, Step
  <2>7. ASSUME NEW p \in 1 .. Cardinality(Keys), NEW size \in Sizes, turnDomains(p, size)
        PROVE  Step
    BY <2>7 DEF turnDomains, Browse, Step
  <2>8. ASSUME NEW keys \in Batches, NEW g \in Offered, handleAddDomains(keys, g) PROVE Step
    BY <2>8 DEF handleAddDomains, Add, Offered, NullOr, StartAdd, Start1, Routes, Starts, Step,
       Click
  <2>9. ASSUME NEW k \in Keys, tickDomain(k) PROVE Step
    BY <2>9 DEF tickDomain, Browse, Step
  <2>10. ASSUME NEW k \in Keys, removeDomain(k) PROVE Step
    BY <2>10 DEF removeDomain, RemoveRoute, StartRemoval, Start1, Starts, Step, Click,
       Routes
  <2>11. ASSUME NEW k \in Keys, NEW g \in Offered, changeDomainGroup(k, g) PROVE Step
    BY <2>11 DEF changeDomainGroup, ChangeGroup, Offered, NullOr, StartPatch, Start1, Routes,
       Starts, Step, Click, dialogs
  <2>12. ASSUME NEW g \in Offered, changeSelectedDomainsGroup(g) PROVE Step
    BY <2>12 DEF changeSelectedDomainsGroup, ChangeSelected, Offered, NullOr, StartRegroup,
       Start1, Routes, Starts, Step, Click
  <2> QED
    BY <1>2, <2>1, <2>2, <2>3, <2>4, <2>5, <2>6, <2>7, <2>8, <2>9, <2>10, <2>11, <2>12
    DEF DomainsNext
<1>3. CASE CidrsNext
  <2>1. CASE setCidrSearch \/ untickCidrs
    BY <2>1 DEF setCidrSearch, untickCidrs, Routes, Browse, Step
  <2>2. CASE deleteSelectedCidrs \/ purgeCidrs
    BY <2>2 DEF deleteSelectedCidrs, purgeCidrs, DeleteSelected, Ask, Agree, Step
  <2>3. ASSUME NEW i \in DOMAIN loads, loadCidrs(i) PROVE Step
    BY <2>3 DEF loadCidrs, Lists, Step
  <2>4. ASSUME NEW i \in DOMAIN ops,
               cidrsAdded(i) \/ cidrGroupChanged(i) \/ cidrRemoved(i)
               \/ selectedCidrsChanged(i) \/ selectedCidrsDeleted(i)
        PROVE  Step
    BY <2>4 DEF cidrGroupChanged, cidrRemoved, selectedCidrsChanged,
       selectedCidrsDeleted, Closes, RouteCloses, Routes, Step
  <2>5. ASSUME NEW text \in BOOLEAN, typeCidrSearch(text) PROVE Step
    BY <2>5 DEF typeCidrSearch, Browse, Step
  <2>6. ASSUME NEW f \in Offered \cup {All}, setCidrGroupFilter(f) PROVE Step
    BY <2>6 DEF setCidrGroupFilter, Offered, NullOr, Browse, Step
  <2>7. ASSUME NEW p \in 1 .. Cardinality(Keys), NEW size \in Sizes, turnCidrs(p, size)
        PROVE  Step
    BY <2>7 DEF turnCidrs, Browse, Step
  <2>8. ASSUME NEW keys \in Batches, NEW g \in Offered, handleAddCidrs(keys, g) PROVE Step
    BY <2>8 DEF handleAddCidrs, Add, Offered, NullOr, StartAdd, Start1, Routes, Starts, Step,
       Click
  <2>9. ASSUME NEW k \in Keys, tickCidr(k) PROVE Step
    BY <2>9 DEF tickCidr, Browse, Step
  <2>10. ASSUME NEW k \in Keys, removeCidr(k) PROVE Step
    BY <2>10 DEF removeCidr, RemoveRoute, StartRemoval, Start1, Starts, Step, Click,
       Routes
  <2>11. ASSUME NEW k \in Keys, NEW g \in Offered, changeCidrGroup(k, g) PROVE Step
    BY <2>11 DEF changeCidrGroup, ChangeGroup, Offered, NullOr, StartPatch, Start1, Routes,
       Starts, Step, Click, dialogs
  <2>12. ASSUME NEW g \in Offered, changeSelectedCidrsGroup(g) PROVE Step
    BY <2>12 DEF changeSelectedCidrsGroup, ChangeSelected, Offered, NullOr, StartRegroup,
       Start1, Routes, Starts, Step, Click
  <2>13. CASE handleClearAllCidrs \/ clearAllCidrs
    BY <2>13 DEF handleClearAllCidrs, clearAllCidrs, Ask, Agree, Step
  <2>14. ASSUME NEW i \in DOMAIN ops, cidrsCleared(i) PROVE Step
    BY <2>14 DEF Closes, RouteCloses, Step
  <2> QED
    BY <1>3, <2>1, <2>2, <2>3, <2>4, <2>5, <2>6, <2>7, <2>8, <2>9, <2>10, <2>11, <2>12, <2>13, <2>14
    DEF CidrsNext
<1>4. CASE \/ RoutesRelabel \/ (table \in Routes /\ Dismiss)
           \/ \E i \in DOMAIN loads : loadGroups(i)
  BY <1>4 DEF Browse, Lists, Routes, Step
<1>5. CASE WorkersNext
  <2>1. CASE untickWorkers \/ cancelDeletion
    <3>1. CASE untickWorkers
      BY <3>1 DEF untickWorkers, IsWorkers, Browse, Step
    <3>2. CASE cancelDeletion
      BY <3>2 DEF cancelDeletion, IsWorkers, Routes, budgets, Mark, Step
    <3> QED
      BY <2>1, <3>1, <3>2
  <2>2. CASE removeGroupConfirmation \/ removeWorkerConfirmation
    BY <2>2 DEF removeGroupConfirmation, removeWorkerConfirmation, IsWorkers, Routes, budgets,
       StartDropping, StartDeletion, Start1, Starts, Step
  <2>3. CASE bulkDeleteWorkers \/ purgeWorkers \/ (IsWorkers /\ Dismiss)
    BY <2>3 DEF bulkDeleteWorkers, purgeWorkers, IsWorkers, Ask, Agree, Step
  <2>4. ASSUME NEW i \in DOMAIN loads, loadWorkers(i) \/ loadWorkerGroups(i) PROVE Step
    BY <2>4 DEF loadWorkers, Lists, Step
  <2>5. ASSUME NEW i \in DOMAIN ops,
               \/ groupRemoved(i) \/ workerRemoved(i) \/ workerUpdated(i)
               \/ groupUpdated(i) \/ workersPurged(i)
        PROVE  Step
    BY <2>5 DEF workerUpdated, GroupChanged, IsWorkers, Closes, WorkerCloses, Step
  <2>6. ASSUME NEW text \in BOOLEAN, setWorkerSearch(text) PROVE Step
    BY <2>6 DEF Browse, Step
  <2>7. ASSUME NEW f \in NullOr(groups) \cup {All}, setWorkerGroupFilter(f) PROVE Step
    BY <2>7 DEF setWorkerGroupFilter, IsWorkers, Browse, Step
  <2>8. ASSUME NEW p \in 1 .. Cardinality(Keys), NEW size \in Sizes, turnWorkers(p, size)
        PROVE  Step
    BY <2>8 DEF turnWorkers, IsWorkers, Browse, Step
  <2>9. ASSUME NEW k \in Keys, workerRowSelection(k) PROVE Step
    BY <2>9 DEF workerRowSelection, IsWorkers, Browse, Step
  <2>10. ASSUME NEW k \in Keys, setDeletingWorker(k) PROVE Step
    BY <2>10 DEF setDeletingWorker, IsWorkers, Routes, Click, Mark, Step
  <2>11. ASSUME NEW g \in Groups, setDeletingGroup(g) PROVE Step
    BY <2>11 DEF setDeletingGroup, IsWorkers, Routes, Click, Mark, Step
  <2>12. ASSUME NEW g \in NullOr(groups), bulkUpdateGroup(g) PROVE Step
    BY <2>12 DEF bulkUpdateGroup, IsWorkers, StartRegroup, Start1, Starts, Step, Click
  <2>13. ASSUME NEW g \in NullOr(groups), NEW k \in Keys, updateWorker(k, g) PROVE Step
    BY <2>13 DEF updateWorker, IsWorkers, StartPatch, Start1, Starts, Step, Click, dialogs
  <2> QED
    BY <1>5, <2>1, <2>2, <2>3, <2>4, <2>5, <2>6, <2>7, <2>8, <2>9, <2>10, <2>11, <2>12, <2>13
    DEF WorkersNext
<1>6. CASE ProxiesNext
  <2>1. CASE proxiesRelabel \/ setSearch \/ clearSelection
    BY <2>1 DEF setSearch, clearSelection, IsProxies, Browse, Step
  <2>2. CASE cancelProxy
    BY <2>2 DEF cancelProxy, IsProxies, Routes, budgets, Mark, Step
  <2>3. CASE remove
    BY <2>3 DEF remove, IsProxies, Routes, budgets, StartDeletion, Start1, Starts, Step
  <2>4. CASE confirmBulkRemove \/ bulkRemove \/ (IsProxies /\ Dismiss)
    BY <2>4 DEF confirmBulkRemove, bulkRemove, IsProxies, Ask, Agree, Step
  <2>5. ASSUME NEW i \in DOMAIN loads, loadProxies(i) PROVE Step
    BY <2>5 DEF loadProxies, Lists, Step
  <2>6. ASSUME NEW i \in DOMAIN ops, removed(i) \/ bulkRemoved(i) PROVE Step
    BY <2>6 DEF Closes, Step
  <2>7. ASSUME NEW text \in BOOLEAN, handleSearchChange(text) PROVE Step
    BY <2>7 DEF handleSearchChange, IsProxies, Browse, Step
  <2>8. ASSUME NEW p \in 1 .. Cardinality(Keys), NEW size \in Sizes, handlePageChange(p, size)
        PROVE  Step
    BY <2>8 DEF handlePageChange, IsProxies, Browse, Step
  <2>9. ASSUME NEW k \in Keys, tickProxy(k) PROVE Step
    BY <2>9 DEF tickProxy, IsProxies, Browse, Step
  <2>10. ASSUME NEW k \in Keys, setDeletingProxy(k) PROVE Step
    BY <2>10 DEF setDeletingProxy, IsProxies, Routes, Click, Mark, Step
  <2> QED
    BY <1>6, <2>1, <2>2, <2>3, <2>4, <2>5, <2>6, <2>7, <2>8, <2>9, <2>10 DEF ProxiesNext
<1>7. CASE UsersNext
  <2>1. CASE cancelUser
    BY <2>1 DEF cancelUser, IsUsers, Routes, budgets, Mark, Step
  <2>2. CASE removeUser
    BY <2>2 DEF removeUser, IsUsers, Routes, budgets, StartDeletion, Start1, Starts, Step
  <2>3. ASSUME NEW i \in DOMAIN loads, loadUsers(i) PROVE Step
    BY <2>3 DEF loadUsers, Lists, Step
  <2>4. ASSUME NEW i \in DOMAIN ops, userRemoved(i) PROVE Step
    BY <2>4 DEF Closes, Step
  <2>5. ASSUME NEW k \in Keys, setDeletingUser(k) PROVE Step
    BY <2>5 DEF setDeletingUser, IsUsers, Routes, Click, Mark, Step
  <2> QED
    BY <1>7, <2>1, <2>2, <2>3, <2>4, <2>5 DEF UsersNext
<1>8. CASE RoutesNext
  BY <1>2, <1>3, <1>4, <1>8 DEF RoutesNext
<1> QED
  BY <1>1, <1>5, <1>6, <1>7, <1>8 DEF Next

-----------------------------------------------------------------------------
(* What the pieces of the handlers do to the requests.                     *)

LEMMA LastPagePositive ==
    ASSUME NEW n \in Nat, NEW size \in Nat \ {0} PROVE LastPage(n, size) \in Nat \ {0}
<1>1. CASE n = 0
  BY <1>1 DEF LastPage
<1>2. CASE n # 0
  <2>1. n + size - 1 \in Nat /\ n + size - 1 >= size
    BY <1>2
  <2>2. (n + size - 1) \div size \in Nat /\ (n + size - 1) \div size >= 1
    BY <2>1
  <2> QED
    BY <1>2, <2>2 DEF LastPage
<1> QED
  BY <1>1, <1>2

\* Sets of keys are finite.
LEMMA KeySets ==
    ASSUME NEW K \in SUBSET (Keys \cup {0}) PROVE IsFiniteSet(K) /\ Cardinality(K) \in Nat
<1>1. IsFiniteSet(Keys \cup {0})
  BY KeysFinite, FS_AddElement
<1> QED
  BY <1>1, FS_Subset, FS_CardinalityType

\* The requests of the loaders are list requests.
LEMMA LoadTypes ==
    ASSUME NEW q \in Query, NEW frees \in Frees
    PROVE  /\ Load(q, frees) \in LoadRecord /\ <<Load(q, frees)>> \in Seq(LoadRecord)
           /\ LoadGroups(q, frees) \in LoadRecord /\ <<LoadGroups(q, frees)>> \in Seq(LoadRecord)
           /\ <<LoadGroups(q, frees), Load(q, frees)>> \in Seq(LoadRecord)
<1>1. Load(q, frees) \in LoadRecord /\ LoadGroups(q, frees) \in LoadRecord
  BY DEF Load, LoadGroups, LoadRecord
<1> QED
  BY <1>1

LEMMA FetchIs ==
    ASSUME NEW s \in Shown, NEW ls \in Seq(LoadRecord), loads \in Seq(LoadRecord),
           FetchOver(s, ls)
    PROVE  /\ loads' \in Seq(LoadRecord) /\ loads' = loads \o ls /\ shown' \in Shown
           /\ shown'.rows = s.rows /\ shown'.total = s.total
           /\ shown'.loading <=> (s.loading \/ \E l \in Range(ls) : l.what = "rows")
<1>1. loads' = loads \o ls
      /\ shown' = [s EXCEPT !.loading = @ \/ \E i \in DOMAIN ls : ls[i].what = "rows"]
  BY DEF FetchOver
<1>2. (\E i \in DOMAIN ls : ls[i].what = "rows") <=> \E l \in Range(ls) : l.what = "rows"
  BY DEF Range
<1>3. shown' \in Shown /\ shown'.rows = s.rows /\ shown'.total = s.total
      /\ (shown'.loading <=> (s.loading \/ \E i \in DOMAIN ls : ls[i].what = "rows"))
  BY <1>1 DEF Shown
<1>4. shown'.loading <=> (s.loading \/ \E l \in Range(ls) : l.what = "rows")
  BY ONLY <1>2, <1>3
<1>5. loads' \in Seq(LoadRecord) /\ loads' = loads \o ls
  BY <1>1
<1> QED
  BY <1>3, <1>4, <1>5

\* A changed query is loaded, after what the handler loads itself.
LEMMA MoveIs ==
    ASSUME Types, NEW q \in Query, NEW ls \in Seq(LoadRecord), MoveTo(q, ls)
    PROVE  /\ query' = q /\ loads' \in Seq(LoadRecord) /\ shown' \in Shown
           /\ shown'.rows = shown.rows /\ shown'.total = shown.total
           /\ q = query => loads' = loads \o ls
           /\ q # query => loads' = loads \o (ls \o <<Load(q, {})>>)
           /\ shown'.loading <=>
                (shown.loading \/ q # query \/ \E l \in Range(ls) : l.what = "rows")
<1> DEFINE more == IF q # query THEN <<Load(q, {})>> ELSE <<>>
<1>1. FetchOver(shown, ls \o more) /\ query' = q
  BY DEF MoveTo, Fetch
<1>2. <<Load(q, {})>> \in Seq(LoadRecord)
  BY LoadTypes DEF Frees
<1>3. more \in Seq(LoadRecord)
  BY <1>2
<1>4. ls \o more \in Seq(LoadRecord) /\ Range(ls \o more) = Range(ls) \cup Range(more)
  <2> HIDE DEF more
  <2> QED
    BY <1>3, ConcatRange
<1>5. shown \in Shown /\ loads \in Seq(LoadRecord)
  BY DEF Types
<1>6. Range(more) = IF q # query THEN {Load(q, {})} ELSE {}
  BY DEF Range
<1>7. Load(q, {}).what = "rows"
  BY DEF Load
<1>8. q = query => ls \o more = ls
  OBVIOUS
<1>9. (\E l \in Range(ls \o more) : l.what = "rows")
      <=> (q # query \/ \E l \in Range(ls) : l.what = "rows")
  BY <1>4, <1>6, <1>7
<1>10. q # query => ls \o more = ls \o <<Load(q, {})>>
  OBVIOUS
<1> HIDE DEF more
<1>11. /\ loads' \in Seq(LoadRecord) /\ loads' = loads \o (ls \o more) /\ shown' \in Shown
       /\ shown'.rows = shown.rows /\ shown'.total = shown.total
       /\ shown'.loading <=> (shown.loading \/ \E l \in Range(ls \o more) : l.what = "rows")
  BY <1>1, <1>4, <1>5, FetchIs
<1> QED
  BY <1>1, <1>8, <1>9, <1>10, <1>11

LEMMA ReleaseIs ==
    ASSUME Types, NEW frees \in Frees, Release(frees)
    PROVE  /\ busy' = busy \ frees /\ deleting' \in {deleting, None} /\ modal' \in {modal, None}
           /\ busy' \subseteq Flags /\ deleting' \in Keys \cup Groups \cup {None}
           /\ table # "worker" => deleting' \in Keys \cup {None}
           /\ modal' = None \/ modal' \in [op : SoundOp, running : BOOLEAN]
BY DEF Release, Types

\* The requests that a click sends.
LEMMA OpIs ==
    ASSUME Types, NEW kind, NEW keys, NEW todo, NEW g
    PROVE  LET o == Op(kind, keys, todo, g)
           IN  /\ o.kind = kind /\ o.keys = keys /\ o.todo = todo /\ o.ok = {} /\ o.bad = {}
               /\ o.group = g /\ o.q = query /\ o.n = Cardinality(RowKeys)
               /\ o.total = shown.total /\ o.n \in Nat /\ o.total \in Nat /\ o.q \in Query
<1>1. Cardinality(RowKeys) \in Nat
  BY KeySets DEF RowKeys
<1> QED
  BY <1>1 DEF Op, Types, Shown

-----------------------------------------------------------------------------
(* Types are kept, class by class.                                         *)

\* One key of a request is answered: it is accepted or not.
Split(o, k, ok, bad) ==
    \/ ok = o.ok \cup {k} /\ bad = o.bad /\ o.kind # "clear"
    \/ ok = o.ok /\ bad = o.bad \cup {k}

\* The requests in flight, over the answer for one key of one of them.
AnswersKey(i, k, ok, bad) ==
    /\ Split(ops[i], k, ok, bad)
    /\ ops' \in Seq(SoundOp) /\ DOMAIN ops' = DOMAIN ops /\ Len(ops') = Len(ops)
    /\ \A j \in DOMAIN ops : j # i => ops'[j] = ops[j]
    /\ ops'[i] \in SoundOp /\ ops'[i].kind = ops[i].kind /\ ops'[i].keys = ops[i].keys
    /\ ops'[i].group = ops[i].group /\ ops'[i].todo = ops[i].todo \ {k}
    /\ ops'[i].ok = ok /\ ops'[i].bad = bad
    /\ ops'[i].q = ops[i].q /\ ops'[i].n = ops[i].n /\ ops'[i].total = ops[i].total

LEMMA AnsweredAt ==
    ASSUME ops \in Seq(SoundOp), NEW i \in DOMAIN ops, NEW k \in ops[i].todo,
           NEW ok, NEW bad, Split(ops[i], k, ok, bad),
           ops' = [ops EXCEPT ![i] = [ops[i] EXCEPT !.todo = @ \ {k}, !.ok = ok, !.bad = bad]]
    PROVE  AnswersKey(i, k, ok, bad)
<1>1. PICK o \in SoundOp : o = ops[i]
  OBVIOUS
<1>2. PICK p : p = [o EXCEPT !.todo = @ \ {k}, !.ok = ok, !.bad = bad]
  OBVIOUS
<1>3. /\ p \in SoundOp /\ p.kind = o.kind /\ p.keys = o.keys
      /\ p.group = o.group /\ p.todo = o.todo \ {k} /\ p.ok = ok /\ p.bad = bad
      /\ p.q = o.q /\ p.n = o.n /\ p.total = o.total
  <2>0. k \in o.todo /\ Split(o, k, ok, bad)
    BY <1>1
  <2>1. o \in OpRecord
    BY DEF SoundOp
  <2>2. /\ p.kind = o.kind /\ p.keys = o.keys /\ p.group = o.group
        /\ p.todo = o.todo \ {k} /\ p.ok = ok /\ p.bad = bad
        /\ p.q = o.q /\ p.n = o.n /\ p.total = o.total
    BY <2>1, <1>2 DEF OpRecord
  <2>3. k \in Keys \cup {0}
    BY <2>0, <2>1 DEF OpRecord
  <2>4. p \in OpRecord
    <3>1. /\ o.todo \ {k} \in SUBSET (Keys \cup {0})
          /\ ok \in SUBSET (Keys \cup {0}) /\ bad \in SUBSET (Keys \cup {0})
      BY <2>0, <2>1, <2>3 DEF OpRecord, Split
    <3> QED
      BY <1>2, <2>1, <3>1 DEF OpRecord
  <2>5. /\ p.kind \in {"patch", "regroup", "add"} => p.group \in Groups \cup {NoGroup}
        /\ p.kind = "clear" => p.ok = {}
    BY <2>0, <2>2 DEF SoundOp, Split
  <2>6. p.kind \in {"patch", "delete", "regroup", "purge"} =>
            p.todo \subseteq p.keys /\ p.ok \subseteq p.keys /\ p.bad \subseteq p.keys
    BY <2>0, <2>2 DEF SoundOp, Split
  <2>7. p.ok \cap p.bad = {} /\ p.todo \cap (p.ok \cup p.bad) = {}
    BY <2>0, <2>2 DEF SoundOp, Split
  <2> QED
    BY <2>2, <2>4, <2>5, <2>6, <2>7 DEF SoundOp
<1>4. ops' = [ops EXCEPT ![i] = p]
  BY <1>1, <1>2
<1>5. /\ ops' \in Seq(SoundOp) /\ DOMAIN ops' = DOMAIN ops /\ Len(ops') = Len(ops)
      /\ \A j \in DOMAIN ops : j # i => ops'[j] = ops[j]
      /\ ops'[i] = p
  BY <1>3, <1>4
<1> QED
  BY <1>1, <1>3, <1>5 DEF AnswersKey

\* What the backend stores is a table of rows.
LEMMA HandleTypes ==
    ASSUME Types, NEW o \in SoundOp, NEW k \in o.todo, Accepts(o, k), Handle(o, k)
    PROVE  store' \in [Keys -> Values] /\ live' \subseteq Groups /\ o.kind # "clear"
<1>1. store \in [Keys -> Values] /\ live \subseteq Groups /\ o \in OpRecord
  BY DEF Types, SoundOp
<1>2. o.kind \in {"patch", "delete", "add", "clear", "regroup", "purge", "dropgroup"}
  BY <1>1 DEF OpRecord
<1>3. o.kind # "clear"
  BY DEF Accepts
<1>4. live' \subseteq Groups
  BY <1>1 DEF Handle
<1>5. CASE o.kind \in {"patch", "regroup"}
  <2>1. o.group \in Values /\ store' = [store EXCEPT ![k] = o.group]
    BY <1>1, <1>5 DEF Handle, Effect, Accepts, Values
  <2> QED
    BY <1>1, <1>3, <1>4, <2>1
<1>6. CASE o.kind \in {"delete", "purge"}
  <2>1. Absent \in Values /\ store' = [store EXCEPT ![k] = Absent]
    BY <1>6 DEF Handle, Effect, Values
  <2> QED
    BY <1>1, <1>3, <1>4, <2>1
<1>7. CASE o.kind = "add"
  <2>1. o.group \in Values
        /\ store' = [x \in Keys |-> IF x \in o.keys THEN o.group ELSE store[x]]
    BY <1>1, <1>7 DEF Handle, Effect, Accepts, Values
  <2> QED
    BY <1>1, <1>3, <1>4, <2>1
<1>8. CASE o.kind = "dropgroup"
  <2>1. NoGroup \in Values
        /\ store' = [x \in Keys |-> IF store[x] = o.group THEN NoGroup ELSE store[x]]
    BY <1>8 DEF Handle, Effect, Values
  <2> QED
    BY <1>1, <1>3, <1>4, <2>1
<1> QED
  BY <1>2, <1>3, <1>5, <1>6, <1>7, <1>8

\* Serve and Lose answer for one key.
LEMMA ServeIs ==
    ASSUME Types, NEW i \in DOMAIN ops, NEW k \in ops[i].todo, Serve(i, k)
    PROVE  \/ /\ Accepts(ops[i], k) /\ Handle(ops[i], k)
              /\ AnswersKey(i, k, ops[i].ok \cup {k}, ops[i].bad)
           \/ /\ ~Accepts(ops[i], k) /\ UNCHANGED backend
              /\ AnswersKey(i, k, ops[i].ok, ops[i].bad \cup {k})
<1>1. ops[i] \in OpRecord /\ ops \in Seq(SoundOp)
  BY DEF Types, SoundOp
<1>2. CASE Accepts(ops[i], k)
  <2>1. ops[i].kind # "clear" /\ Handle(ops[i], k)
    BY <1>2 DEF Accepts, Serve
  <2>2. ops' = [ops EXCEPT ![i] = [ops[i] EXCEPT !.todo = @ \ {k},
                                     !.ok = ops[i].ok \cup {k}, !.bad = ops[i].bad]]
    BY <1>1, <1>2 DEF Serve, OpRecord
  <2>3. AnswersKey(i, k, ops[i].ok \cup {k}, ops[i].bad)
    BY <1>1, <2>1, <2>2, AnsweredAt DEF Split
  <2> QED
    BY <1>2, <2>1, <2>3
<1>3. CASE ~Accepts(ops[i], k)
  <2>1. UNCHANGED backend
    BY <1>3 DEF Serve
  <2>2. ops' = [ops EXCEPT ![i] = [ops[i] EXCEPT !.todo = @ \ {k},
                                     !.ok = ops[i].ok, !.bad = ops[i].bad \cup {k}]]
    BY <1>1, <1>3 DEF Serve, OpRecord
  <2>3. AnswersKey(i, k, ops[i].ok, ops[i].bad \cup {k})
    BY <1>1, <2>2, AnsweredAt DEF Split
  <2> QED
    BY <1>3, <2>1, <2>3
<1> QED
  BY <1>2, <1>3

LEMMA LoseIs ==
    ASSUME Types, NEW i \in DOMAIN ops, NEW k \in ops[i].todo, Lose(i, k)
    PROVE  /\ AnswersKey(i, k, ops[i].ok, ops[i].bad \cup {k})
           /\ (Accepts(ops[i], k) /\ Handle(ops[i], k)) \/ UNCHANGED backend
<1>1. ops[i] \in OpRecord /\ ops \in Seq(SoundOp)
  BY DEF Types, SoundOp
<1>2. ops' = [ops EXCEPT ![i] = [ops[i] EXCEPT !.todo = @ \ {k},
                                   !.ok = ops[i].ok, !.bad = ops[i].bad \cup {k}]]
  BY <1>1 DEF Lose, OpRecord
<1>3. AnswersKey(i, k, ops[i].ok, ops[i].bad \cup {k})
  BY <1>1, <1>2, AnsweredAt DEF Split
<1> QED
  BY <1>3 DEF Lose

\* The answer to a list request.
LEMMA AnswerTypes ==
    ASSUME Types, NEW q \in Query PROVE Answer(q) \in {NotFound} \cup Answers
<1>1. Matching(q) \in SUBSET Keys /\ Cardinality(Matching(q)) \in Nat
  BY KeySets DEF Matching, Existing
<1>2. \A k \in Keys : store[k] \in Values /\ Absent \in Values
  BY DEF Types, Values
<1> QED
  BY <1>1, <1>2 DEF Answer, Answers

LEMMA BackendTypes ==
    ASSUME Types, BackendNext, table' = table PROVE Types'
<1>0. /\ loads \in Seq(LoadRecord) /\ ops \in Seq(SoundOp) /\ store \in [Keys -> Values]
      /\ clicks \in Nat /\ faults \in Nat /\ Within(clicks, faults)
  BY DEF Types
<1>1. ASSUME NEW i \in DOMAIN loads, NEW a,
             loads[i].what = "rows" => a \in {Failed, NotFound} \cup Answers,
             loads[i].what = "groups" => a \in {Failed} \cup SUBSET Groups,
             loads' = [loads EXCEPT ![i].ans = a]
      PROVE  loads' \in Seq(LoadRecord)
  <2>1. loads[i] \in LoadRecord
    BY <1>0
  <2>2. [loads[i] EXCEPT !.ans = a] \in LoadRecord
    BY <1>1, <2>1 DEF LoadRecord
  <2>3. loads' = [loads EXCEPT ![i] = [loads[i] EXCEPT !.ans = a]]
    BY <1>1
  <2> QED
    BY <1>0, <2>2, <2>3
<1>2. ASSUME NEW i \in DOMAIN loads, AnswerLoad(i) PROVE Types'
  <2>1. loads[i] \in LoadRecord /\ loads[i].q \in Query
    BY <1>0 DEF LoadRecord
  <2>2. Answer(loads[i].q) \in {NotFound} \cup Answers /\ live \subseteq Groups
    BY <2>1, AnswerTypes DEF Types
  <2>3. loads' \in Seq(LoadRecord)
    <3> DEFINE a == IF loads[i].what = "rows" THEN Answer(loads[i].q) ELSE live
    <3>1. loads' = [loads EXCEPT ![i].ans = a]
      BY <1>2 DEF AnswerLoad
    <3>2. loads[i].what = "rows" => a \in {Failed, NotFound} \cup Answers
      BY <2>2
    <3>3. loads[i].what = "groups" => a \in {Failed} \cup SUBSET Groups
      BY <2>2
    <3> QED
      BY <1>1, <3>1, <3>2, <3>3
  <2> QED
    BY <1>2, <2>3 DEF AnswerLoad, Types, Within, backend, asked, dialogs, budgets, past
<1>3. ASSUME NEW i \in DOMAIN loads, FailLoad(i) PROVE Types'
  <2>1. loads' \in Seq(LoadRecord)
    BY <1>1, <1>3 DEF FailLoad
  <2>2. clicks' \in Nat /\ faults' \in Nat /\ Within(clicks, faults)'
    BY <1>0, <1>3 DEF FailLoad, Spare, Within
  <2> QED
    BY <1>3, <2>1, <2>2 DEF FailLoad, Types, backend, asked, dialogs, past
<1>4. ASSUME NEW i \in DOMAIN ops, NEW k \in ops[i].todo, Serve(i, k) PROVE Types'
  <2>1. ops[i] \in SoundOp
    BY <1>0
  <2>2. ops' \in Seq(SoundOp) /\ store' \in [Keys -> Values] /\ live' \subseteq Groups
    BY <1>4, <2>1, ServeIs, HandleTypes DEF AnswersKey, backend, Types
  <2> QED
    BY <1>4, <2>2 DEF Serve, Types, Within, asked, dialogs, budgets, past
<1>5. ASSUME NEW i \in DOMAIN ops, NEW k \in ops[i].todo, Lose(i, k) PROVE Types'
  <2>1. ops[i] \in SoundOp
    BY <1>0
  <2>2. ops' \in Seq(SoundOp) /\ store' \in [Keys -> Values] /\ live' \subseteq Groups
    BY <1>5, <2>1, LoseIs, HandleTypes DEF AnswersKey, backend, Types
  <2>3. clicks' \in Nat /\ faults' \in Nat /\ Within(clicks, faults)'
    BY <1>0, <1>5 DEF Lose, Spare, Within
  <2> QED
    BY <1>5, <2>2, <2>3 DEF Lose, Types, asked, dialogs, past
<1>6. ASSUME NEW k \in Keys, NEW v \in Values, Another(k, v) PROVE Types'
  <2>1. store' \in [Keys -> Values]
    BY <1>0, <1>6 DEF Another
  <2>2. clicks' \in Nat /\ faults' \in Nat /\ Within(clicks, faults)'
    BY <1>0, <1>6 DEF Another, Spare, Within
  <2> QED
    BY <1>6, <2>1, <2>2 DEF Another, Types, asked, dialogs, past
<1> QED
  BY <1>2, <1>3, <1>4, <1>5, <1>6 DEF BackendNext

\* What a step of Browse does to the query, the selection and the requests.
BrowseIs ==
    /\ UNCHANGED <<backend, groups, dialogs, ops, faults, past>>
    /\ shown'.rows = shown.rows /\ shown'.total = shown.total
    /\ shown'.loading <=> (shown.loading \/ loads' # loads)
    /\ query' \in Query
    /\ \/ query' = query /\ loads' = loads
       \/ query' # query /\ loads' = loads \o <<Load(query', {})>>
       \/ query' = query /\ loads' = loads \o <<Load(query, {})>>
       \/ query' = query /\ loads' = loads \o <<LoadGroups(query, {}), Load(query, {})>>
    /\ query' = query \/ query'.page = 1
       \/ /\ ~shown.loading /\ query'.page \in 1 .. LastPage(shown.total, query.size)
          /\ query'.size = query.size /\ query'.search = query.search
          /\ query'.filter = query.filter
    /\ table = "user" => query' = query
    /\ selected' \subseteq selected
       \/ (~shown.loading /\ selected' \subseteq selected \cup RowKeys)

LEMMA BrowseDoes ==
    ASSUME Types, Browse, table' = table PROVE Types' /\ BrowseIs
<1>0. /\ query \in Query /\ shown \in Shown /\ selected \subseteq Keys
      /\ loads \in Seq(LoadRecord) /\ clicks \in Nat /\ faults \in Nat
      /\ Within(clicks, faults) /\ <<>> \in Seq(LoadRecord) /\ Range(<<>>) = {}
      /\ input \in BOOLEAN /\ due \in BOOLEAN /\ loads \o <<>> = loads
  BY DEF Types, Range
<1>a. Click => clicks' \in Nat /\ faults' \in Nat /\ Within(clicks, faults)'
  BY <1>0 DEF Click, Within
<1>m. ASSUME NEW q \in Query, MoveTo(q, <<>>)
      PROVE  /\ query' = q /\ loads' \in Seq(LoadRecord) /\ shown' \in Shown
             /\ shown'.rows = shown.rows /\ shown'.total = shown.total
             /\ shown'.loading <=> (shown.loading \/ loads' # loads)
             /\ \/ query' = query /\ loads' = loads
                \/ query' # query /\ loads' = loads \o <<Load(query', {})>>
  <2>1. /\ query' = q /\ loads' \in Seq(LoadRecord) /\ shown' \in Shown
        /\ shown'.rows = shown.rows /\ shown'.total = shown.total
        /\ q = query => loads' = loads \o <<>>
        /\ q # query => loads' = loads \o (<<>> \o <<Load(q, {})>>)
        /\ shown'.loading <=> (shown.loading \/ q # query \/ \E l \in Range(<<>>) : l.what = "rows")
    BY <1>0, <1>m, MoveIs
  <2>2. <<>> \o <<Load(q, {})>> = <<Load(q, {})>>
    OBVIOUS
  <2>3. loads \o <<Load(q, {})>> # loads
    BY <1>0, LoadTypes DEF Frees
  <2> QED
    BY <1>0, <2>1, <2>2, <2>3
<1>1. ASSUME NEW text \in BOOLEAN, NEW keep \in BOOLEAN, table # "user", Type(text, keep)
      PROVE  Types' /\ BrowseIs
  <2>1. selected' \subseteq selected /\ input' \in BOOLEAN /\ due' \in BOOLEAN
    BY <1>1 DEF Type
  <2>2. Types'
    BY <1>0, <1>1, <1>a, <2>1 DEF Type, Types, backend, dialogs
  <2> QED
    BY <1>0, <1>1, <2>1, <2>2 DEF Type, BrowseIs, Click, Shown
<1>2. CASE table # "user" /\ Debounced
  <2> DEFINE q == [query EXCEPT !.search = input, !.page = 1]
  <2>1. q \in Query /\ q.page = 1
    <3> DEFINE r == [query EXCEPT !.search = input]
    <3>1. q = [r EXCEPT !.page = 1]
      OBVIOUS
    <3>2. r \in Query
      BY <1>0 DEF Query
    <3> HIDE DEF q, r
    <3> QED
      BY <3>1, <3>2 DEF Query
  <2>2. MoveTo(q, <<>>)
    BY <1>2 DEF Debounced
  <2> HIDE DEF q
  <2>3. /\ query' = q /\ loads' \in Seq(LoadRecord) /\ shown' \in Shown
        /\ shown'.rows = shown.rows /\ shown'.total = shown.total
        /\ shown'.loading <=> (shown.loading \/ loads' # loads)
        /\ \/ query' = query /\ loads' = loads
           \/ query' # query /\ loads' = loads \o <<Load(query', {})>>
    BY <1>m, <2>1, <2>2
  <2>4. Types'
    BY <1>0, <1>2, <2>1, <2>3 DEF Debounced, Types, Within, backend, dialogs, budgets
  <2> QED
    BY <1>2, <2>1, <2>3, <2>4 DEF Debounced, BrowseIs, budgets
<1>3. ASSUME NEW text \in BOOLEAN, setWorkerSearch(text) PROVE Types' /\ BrowseIs
  <2> DEFINE q == [query EXCEPT !.search = text, !.page = 1]
  <2>1. q \in Query /\ q.page = 1
    <3> DEFINE r == [query EXCEPT !.search = text]
    <3>1. q = [r EXCEPT !.page = 1]
      OBVIOUS
    <3>2. r \in Query
      BY <1>0 DEF Query
    <3> HIDE DEF q, r
    <3> QED
      BY <3>1, <3>2 DEF Query
  <2>2. MoveTo(q, <<>>) /\ table # "user"
    BY <1>3 DEF setWorkerSearch, IsWorkers
  <2> HIDE DEF q
  <2>3. /\ query' = q /\ loads' \in Seq(LoadRecord) /\ shown' \in Shown
        /\ shown'.rows = shown.rows /\ shown'.total = shown.total
        /\ shown'.loading <=> (shown.loading \/ loads' # loads)
        /\ \/ query' = query /\ loads' = loads
           \/ query' # query /\ loads' = loads \o <<Load(query', {})>>
    BY <1>m, <2>1, <2>2
  <2>4. Types'
    BY <1>0, <1>3, <1>a, <2>1, <2>3 DEF setWorkerSearch, Types, backend, dialogs
  <2> QED
    BY <1>3, <2>1, <2>2, <2>3, <2>4 DEF setWorkerSearch, BrowseIs, Click
<1>4. ASSUME NEW f \in NullOr(groups) \cup {All}, table # "user", Filter(f)
      PROVE  Types' /\ BrowseIs
  <2> DEFINE q == [query EXCEPT !.filter = f, !.page = 1]
  <2>1. q \in Query /\ q.page = 1
    <3>1. f \in Groups \cup {NoGroup, All}
      BY DEF NullOr, Types
    <3> DEFINE r == [query EXCEPT !.filter = f]
    <3>2. q = [r EXCEPT !.page = 1]
      OBVIOUS
    <3>3. r \in Query
      BY <1>0, <3>1 DEF Query
    <3> HIDE DEF q, r
    <3> QED
      BY <3>2, <3>3 DEF Query
  <2>2. MoveTo(q, <<>>)
    BY <1>4 DEF Filter
  <2> HIDE DEF q
  <2>3. /\ query' = q /\ loads' \in Seq(LoadRecord) /\ shown' \in Shown
        /\ shown'.rows = shown.rows /\ shown'.total = shown.total
        /\ shown'.loading <=> (shown.loading \/ loads' # loads)
        /\ \/ query' = query /\ loads' = loads
           \/ query' # query /\ loads' = loads \o <<Load(query', {})>>
    BY <1>m, <2>1, <2>2
  <2>4. Types'
    BY <1>0, <1>4, <1>a, <2>1, <2>3 DEF Filter, Types, backend, dialogs
  <2> QED
    BY <1>4, <2>1, <2>3, <2>4 DEF Filter, BrowseIs, Click
<1>5. ASSUME NEW p \in 1 .. Cardinality(Keys), NEW size \in Sizes, NEW keep \in BOOLEAN,
             table # "user", Turn(p, size, keep)
      PROVE  Types' /\ BrowseIs
  <2> DEFINE q == IF size # query.size THEN [query EXCEPT !.size = size, !.page = 1]
                  ELSE [query EXCEPT !.page = p]
  <2>1. /\ q \in Query
        /\ q.page = 1
           \/ /\ q.page \in 1 .. LastPage(shown.total, query.size)
              /\ q.size = query.size /\ q.search = query.search /\ q.filter = query.filter
    <3>1. Cardinality(Keys) \in Nat /\ p \in Int
      BY KeysFinite, FS_CardinalityType
    <3>2. CASE size # query.size
      <4> DEFINE r == [query EXCEPT !.size = size]
      <4>1. q = [r EXCEPT !.page = 1]
        BY <3>2
      <4>2. r \in Query
        BY <1>0 DEF Query
      <4> HIDE DEF q, r
      <4> QED
        BY <4>1, <4>2 DEF Query
    <3>3. CASE size = query.size
      BY <1>0, <1>5, <3>1, <3>3 DEF Query, Turn
    <3> QED
      BY <3>2, <3>3
  <2>2. MoveTo(q, <<>>) /\ ~shown.loading
    BY <1>5 DEF Turn, InTable
  <2> HIDE DEF q
  <2>3. /\ query' = q /\ loads' \in Seq(LoadRecord) /\ shown' \in Shown
        /\ shown'.rows = shown.rows /\ shown'.total = shown.total
        /\ shown'.loading <=> (shown.loading \/ loads' # loads)
        /\ \/ query' = query /\ loads' = loads
           \/ query' # query /\ loads' = loads \o <<Load(query', {})>>
    BY <1>m, <2>1, <2>2
  <2>4. selected' \subseteq selected
    BY <1>5 DEF Turn
  <2>5. Types'
    BY <1>0, <1>5, <1>a, <2>1, <2>3, <2>4 DEF Turn, Types, backend, dialogs
  <2>6. UNCHANGED <<backend, groups, dialogs, ops, faults, past>>
    BY <1>5 DEF Turn, Click
  <2> QED
    BY <1>5, <2>1, <2>2, <2>3, <2>4, <2>5, <2>6 DEF BrowseIs
<1>6. ASSUME NEW k \in Keys, NEW keep \in BOOLEAN, Tick(k, keep) PROVE Types' /\ BrowseIs
  <2>1. ~shown.loading /\ selected' \subseteq selected \cup RowKeys
    BY <1>6 DEF Tick, InTable
  <2>2. selected' \subseteq Keys
    BY <1>0, <2>1 DEF RowKeys
  <2>3. Types'
    BY <1>0, <1>6, <1>a, <2>2 DEF Tick, Types, backend, asked, dialogs
  <2> QED
    BY <1>0, <1>6, <2>1, <2>3 DEF Tick, BrowseIs, Click, Shown, asked
<1>7. CASE Untick
  <2>1. Types'
    BY <1>0, <1>7 DEF Untick, Types, Within, backend, asked, dialogs, budgets
  <2> QED
    BY <1>0, <1>7, <2>1 DEF Untick, BrowseIs, Shown, asked, budgets
<1>r. ASSUME NEW ls \in {<<Load(query, {})>>, <<LoadGroups(query, {}), Load(query, {})>>},
             Relabel(ls), table # "user"
      PROVE  Types' /\ BrowseIs
  <2>1. ls \in Seq(LoadRecord) /\ loads \o ls # loads /\ \E l \in Range(ls) : l.what = "rows"
    <3>1. Load(query, {}).what = "rows"
      BY DEF Load
    <3>2. Load(query, {}) \in Range(<<Load(query, {})>>)
          /\ Load(query, {}) \in Range(<<LoadGroups(query, {}), Load(query, {})>>)
      BY DEF Range
    <3>3. ls \in Seq(LoadRecord)
      BY <1>0, LoadTypes DEF Frees
    <3>4. Len(ls) \in {1, 2}
      OBVIOUS
    <3>5. Len(loads \o ls) = Len(loads) + Len(ls) /\ Len(loads) \in Nat
      BY <1>0, <3>3
    <3>6. loads \o ls # loads
      <4> SUFFICES ASSUME loads \o ls = loads PROVE FALSE
        OBVIOUS
      <4>1. Len(loads) = Len(loads) + Len(ls)
        BY <3>5
      <4> QED
        BY <3>4, <3>5, <4>1
    <3> QED
      BY <3>1, <3>2, <3>3, <3>6
  <2>2. /\ query' = query /\ loads' \in Seq(LoadRecord) /\ shown' \in Shown
        /\ shown'.rows = shown.rows /\ shown'.total = shown.total
        /\ loads' = loads \o ls /\ shown'.loading
    BY <1>0, <1>r, <2>1, MoveIs DEF Relabel
  <2>3. Types'
    BY <1>0, <1>r, <1>a, <2>2 DEF Relabel, Types, backend, dialogs
  <2>4. UNCHANGED <<backend, groups, dialogs, ops, faults, past, selected>>
    BY <1>r DEF Relabel, Click
  <2> QED
    BY <1>0, <1>r, <2>1, <2>2, <2>3, <2>4 DEF BrowseIs
<1>8. CASE RoutesRelabel
  BY <1>8, <1>r DEF RoutesRelabel, Routes
<1>9. CASE proxiesRelabel
  BY <1>9, <1>r DEF proxiesRelabel, IsProxies
<1> QED
  BY <1>1, <1>2, <1>3, <1>4, <1>5, <1>6, <1>7, <1>8, <1>9 DEF Browse

\* A list request is handled: it leaves, and a caller may load the rows next.
LEMMA ListTypes ==
    ASSUME Types, NEW i \in DOMAIN loads, Lists(i), table' = table PROVE Types'
<1>0. /\ shown \in Shown /\ loads \in Seq(LoadRecord) /\ loads[i] \in LoadRecord
      /\ RemoveAt(loads, i) \in Seq(LoadRecord) /\ <<>> \in Seq(LoadRecord)
      /\ loads[i].q \in Query /\ loads[i].frees \in Frees
  <2>1. loads \in Seq(LoadRecord) /\ shown \in Shown
    BY DEF Types
  <2>2. loads[i] \in LoadRecord /\ RemoveAt(loads, i) \in Seq(LoadRecord)
    BY <2>1, RemoveAtIs
  <2> QED
    BY <2>1, <2>2 DEF LoadRecord
<1>1. CASE LoadDone(i)
  <2>1. Release(loads[i].frees)
    BY <1>1 DEF LoadDone
  <2>2. loads' \in Seq(LoadRecord)
    BY <1>0, <1>1 DEF LoadDone
  <2>3. shown' \in Shown
    <3>1. CASE loads[i].ans \in {Failed, NotFound}
      BY <1>0, <1>1, <3>1 DEF LoadDone, Shown
    <3>2. CASE loads[i].ans \notin {Failed, NotFound}
      <4>1. loads[i].what = "rows" /\ loads[i].ans # Pending
        BY <1>1 DEF LoadDone
      <4>2. loads[i].ans \in Answers
        BY <1>0, <3>2, <4>1 DEF LoadRecord
      <4>3. shown' = [rows |-> loads[i].ans.rows, total |-> loads[i].ans.total,
                      loading |-> FALSE]
        BY <1>1, <3>2 DEF LoadDone
      <4> QED
        BY <4>2, <4>3 DEF Answers, Shown
    <3> QED
      BY <3>1, <3>2
  <2>4. /\ busy' \subseteq Flags /\ deleting' \in Keys \cup Groups \cup {None}
        /\ table # "worker" => deleting' \in Keys \cup {None}
        /\ modal' = None \/ modal' \in [op : SoundOp, running : BOOLEAN]
    BY <1>0, <2>1, ReleaseIs
  <2>5. UNCHANGED <<backend, asked, groups, selected, ops, budgets>>
    BY <1>1 DEF LoadDone
  <2> QED
    BY <2>2, <2>3, <2>4, <2>5 DEF Types, Within, backend, asked, budgets
<1>2. ASSUME NEW next \in Seq(LoadRecord), GroupsDone(i, next) PROVE Types'
  <2>1. loads' \in Seq(LoadRecord)
    BY <1>0, <1>2, ConcatRange DEF GroupsDone
  <2>2. shown' \in Shown
    BY <1>0, <1>2 DEF GroupsDone, Shown
  <2>3. groups' \subseteq Groups
    <3>1. loads[i].what = "groups" /\ loads[i].ans # Pending
      BY <1>2 DEF GroupsDone
    <3>2. loads[i].ans # Failed => loads[i].ans \subseteq Groups
      BY <1>0, <3>1 DEF LoadRecord
    <3> QED
      BY <1>2, <3>2 DEF GroupsDone, Types
  <2>4. UNCHANGED <<backend, asked, selected, dialogs, ops, budgets>>
    BY <1>2 DEF GroupsDone
  <2> QED
    BY <2>1, <2>2, <2>3, <2>4 DEF Types, Within, backend, asked, dialogs, budgets
<1>3. CASE loadGroups(i)
  BY <1>0, <1>2, <1>3 DEF loadGroups
<1>4. CASE loadWorkerGroups(i)
  <2>1. <<Load(loads[i].q, loads[i].frees)>> \in Seq(LoadRecord)
    BY <1>0, LoadTypes
  <2>2. (IF loads[i].frees # {} THEN <<Load(loads[i].q, loads[i].frees)>> ELSE <<>>)
           \in Seq(LoadRecord)
    BY <1>0, <2>1
  <2> QED
    BY <1>2, <1>4, <2>2 DEF loadWorkerGroups
<1> QED
  BY <1>1, <1>3, <1>4 DEF Lists

\* A new request is sound, and so is the one that a dialog keeps.
LEMMA OpSound ==
    ASSUME Types, NEW kind, NEW keys \in SUBSET Keys, NEW todo, NEW g,
           \/ kind = "add" /\ todo = {0} /\ g \in Groups \cup {NoGroup}
           \/ kind \in {"patch", "regroup"} /\ todo = keys /\ g \in Groups \cup {NoGroup}
           \/ kind \in {"delete", "purge"} /\ todo = keys /\ g = None
           \/ kind = "clear" /\ todo = {0} /\ g = None
           \/ kind = "dropgroup" /\ todo = {0} /\ g \in Groups
    PROVE  Op(kind, keys, todo, g) \in SoundOp
<1>1. Cardinality(RowKeys) \in Nat /\ shown.total \in Nat /\ query \in Query
  BY KeySets DEF RowKeys, Types, Shown
<1>2. Op(kind, keys, todo, g) \in OpRecord
  BY <1>1 DEF Op, OpRecord
<1>3. PICK o : o = Op(kind, keys, todo, g)
  OBVIOUS
<1>4. /\ o.kind = kind /\ o.keys = keys /\ o.todo = todo /\ o.ok = {} /\ o.bad = {}
      /\ o.group = g
  BY <1>3 DEF Op
<1>5. o \in OpRecord
  BY <1>2, <1>3
<1>6. o \in SoundOp
  BY <1>4, <1>5 DEF SoundOp
<1> QED
  BY <1>3, <1>6

LEMMA DialogTypes ==
    ASSUME Types, Mark \/ Ask \/ Agree \/ Dismiss, table' = table PROVE Types'
<1>0. /\ clicks \in Nat /\ faults \in Nat /\ Within(clicks, faults)
      /\ selected \in SUBSET Keys /\ ops \in Seq(SoundOp)
      /\ modal = None \/ modal \in [op : SoundOp, running : BOOLEAN]
  BY DEF Types
<1>a. Click \/ UNCHANGED budgets => clicks' \in Nat /\ faults' \in Nat /\ Within(clicks, faults)'
  BY <1>0 DEF Click, Within, budgets
<1>1. CASE Mark
  <2>1. clicks' \in Nat /\ faults' \in Nat /\ Within(clicks, faults)'
    BY <1>1, <1>a DEF Mark, budgets
  <2> QED
    BY <1>1, <2>1 DEF Mark, Sent, Types, backend, asked, past
<1>2. CASE Ask
  <2>1. ASSUME NEW kind, NEW keys, Confirm(kind, keys),
               \/ kind = "clear" /\ keys = {}
               \/ kind = "purge" /\ keys = selected
        PROVE  Types'
    <3>1. modal' = [op |-> Op(kind, keys, IF kind = "clear" THEN {0} ELSE keys, None),
                    running |-> FALSE]
      BY <2>1 DEF Confirm
    <3>2. Op(kind, keys, IF kind = "clear" THEN {0} ELSE keys, None) \in SoundOp
      BY <1>0, <2>1, OpSound
    <3>3. modal' \in [op : SoundOp, running : BOOLEAN]
      BY <3>1, <3>2
    <3> QED
      BY <1>a, <2>1, <3>3 DEF Confirm, Types, backend, asked, past
  <2> QED
    BY <1>2, <2>1 DEF Ask
<1>3. CASE Agree
  <2>1. ASSUME NEW kind, NEW flag \in Flags, Accept(kind, flag) PROVE Types'
    <3>1. modal \in [op : SoundOp, running : BOOLEAN]
      BY <1>0, <2>1 DEF Accept
    <3>2. modal' \in [op : SoundOp, running : BOOLEAN] /\ ops' \in Seq(SoundOp)
      <4>1. modal.op \in SoundOp /\ ops' = Append(ops, modal.op)
        BY <2>1, <3>1 DEF Accept, Send
      <4>2. modal' = [modal EXCEPT !.running = TRUE]
        BY <2>1 DEF Accept
      <4>3. modal' \in [op : SoundOp, running : BOOLEAN]
        BY <3>1, <4>2
      <4>4. ops' \in Seq(SoundOp)
        BY <1>0, <4>1
      <4> QED
        BY <4>3, <4>4
    <3>3. busy' \subseteq Flags
      BY <2>1 DEF Accept, Types
    <3> QED
      BY <1>a, <2>1, <3>2, <3>3 DEF Accept, Types, backend, asked, past
  <2> QED
    BY <1>3, <2>1 DEF Agree, Flags
<1>4. CASE Dismiss
  BY <1>a, <1>4 DEF Dismiss, Types, backend, asked, past
<1> QED
  BY <1>1, <1>2, <1>3, <1>4

LEMMA StartTypes ==
    ASSUME Types, Starts, table' = table PROVE Types'
<1>0. /\ clicks \in Nat /\ faults \in Nat /\ Within(clicks, faults)
      /\ selected \in SUBSET Keys /\ ops \in Seq(SoundOp) /\ busy \subseteq Flags
      /\ NullOr(groups) \subseteq Groups \cup {NoGroup}
  BY DEF Types, NullOr
<1>1. ASSUME NEW kind, NEW keys \in SUBSET Keys, NEW todo, NEW g, Start1(kind, keys, todo, g),
             Op(kind, keys, todo, g) \in SoundOp,
             busy' \subseteq Flags, deleting' = deleting \/ deleting' \in Keys
      PROVE  Types'
  <2>1. ops' \in Seq(SoundOp)
    BY <1>0, <1>1 DEF Start1, Send
  <2>2. clicks' \in Nat /\ faults' \in Nat /\ Within(clicks, faults)'
    BY <1>0, <1>1 DEF Start1, Click, Within
  <2> QED
    BY <1>1, <2>1, <2>2 DEF Start1, Sent, Types, backend, asked, past
<1>2. ASSUME NEW keys \in Batches, NEW g \in NullOr(groups), StartAdd(keys, g) PROVE Types'
  <2>1. keys \in SUBSET Keys /\ busy' \subseteq Flags
    BY <1>0, <1>2, PagedTableAssumption DEF StartAdd, Flags
  <2> QED
    BY <1>0, <1>1, <1>2, <2>1, OpSound DEF StartAdd
<1>3. ASSUME NEW k \in Keys, NEW g \in NullOr(groups), StartPatch(k, g) PROVE Types'
  BY <1>0, <1>1, <1>3, OpSound DEF StartPatch
<1>4. ASSUME NEW k \in Keys, StartRemoval(k) PROVE Types'
  BY <1>0, <1>1, <1>4, OpSound DEF StartRemoval
<1>5. ASSUME NEW k \in Keys, StartDeletion(k) PROVE Types'
  <2>1. busy' \subseteq Flags
    BY <1>0, <1>5 DEF StartDeletion, Flags
  <2> QED
    BY <1>0, <1>1, <1>5, <2>1, OpSound DEF StartDeletion
<1>6. ASSUME NEW g \in NullOr(groups), StartRegroup(g) PROVE Types'
  <2>1. busy' \subseteq Flags
    BY <1>0, <1>6 DEF StartRegroup, Flags
  <2> QED
    BY <1>0, <1>1, <1>6, <2>1, OpSound DEF StartRegroup
<1>7. ASSUME NEW g \in Groups, StartDropping(g) PROVE Types'
  <2>1. busy' \subseteq Flags /\ {} \in SUBSET Keys
    BY <1>0, <1>7 DEF StartDropping, Flags
  <2> QED
    BY <1>0, <1>1, <1>7, <2>1, OpSound DEF StartDropping
<1> QED
  BY <1>2, <1>3, <1>4, <1>5, <1>6, <1>7 DEF Starts

\* Where a handler leaves the page when it ends: the query, its own requests,
\* the flags it resets.
MovesOrLoads(q, ls) ==
    /\ query' = q /\ q \in Query
    /\ loads' \in Seq(LoadRecord) /\ loads' = loads \o ls /\ ls \in Seq(LoadRecord)
    /\ shown' \in Shown /\ shown'.rows = shown.rows /\ shown'.total = shown.total
    /\ shown'.loading <=> (shown.loading \/ ls # <<>>)
    /\ \/ q = query /\ ls = <<>>
       \/ q # query /\ ls = <<Load(q, {})>>

LEMMA MoveOnly ==
    ASSUME Types, NEW q \in Query, MoveTo(q, <<>>)
    PROVE  MovesOrLoads(q, IF q = query THEN <<>> ELSE <<Load(q, {})>>)
<1>1. /\ <<>> \in Seq(LoadRecord) /\ Range(<<>>) = {} /\ loads \in Seq(LoadRecord)
      /\ loads \o <<>> = loads
  BY DEF Types, Range
<1>2. <<>> \o <<Load(q, {})>> = <<Load(q, {})>> /\ <<Load(q, {})>> \in Seq(LoadRecord)
      /\ <<Load(q, {})>> # <<>>
  BY LoadTypes DEF Frees
<1>3. /\ query' = q /\ loads' \in Seq(LoadRecord) /\ shown' \in Shown
      /\ shown'.rows = shown.rows /\ shown'.total = shown.total
      /\ q = query => loads' = loads \o <<>>
      /\ q # query => loads' = loads \o (<<>> \o <<Load(q, {})>>)
      /\ shown'.loading <=> (shown.loading \/ q # query \/ \E l \in Range(<<>>) : l.what = "rows")
  BY <1>1, MoveIs
<1> QED
  BY <1>1, <1>2, <1>3 DEF MovesOrLoads

\* One list of rows is loaded and nothing moves.
LoadsOne(s, l) ==
    /\ loads' \in Seq(LoadRecord) /\ loads' = loads \o <<l>> /\ l \in LoadRecord
    /\ shown' \in Shown /\ shown'.rows = s.rows /\ shown'.total = s.total
    /\ shown'.loading <=> (s.loading \/ l.what = "rows")

LEMMA FetchOne ==
    ASSUME Types, NEW s \in Shown, NEW l \in LoadRecord, FetchOver(s, <<l>>)
    PROVE  LoadsOne(s, l)
<1>1. loads \in Seq(LoadRecord) /\ <<l>> \in Seq(LoadRecord) /\ Range(<<l>>) = {l}
  BY DEF Types, Range
<1>2. /\ loads' \in Seq(LoadRecord) /\ loads' = loads \o <<l>> /\ shown' \in Shown
      /\ shown'.rows = s.rows /\ shown'.total = s.total
      /\ shown'.loading <=> (s.loading \/ \E x \in Range(<<l>>) : x.what = "rows")
  BY <1>1, FetchIs
<1> QED
  BY <1>1, <1>2 DEF LoadsOne

LEMMA ReloadIs ==
    ASSUME Types, NEW q \in Query, NEW frees \in Frees, Reload(q, frees)
    PROVE  LoadsOne(shown, Load(q, frees)) /\ UNCHANGED <<query, dialogs>>
BY LoadTypes, FetchOne DEF Reload, Fetch, Types

\* A page number that a handler computes.
LEMMA PageTo ==
    ASSUME Types, NEW p \in Int
    PROVE  LET q == [query EXCEPT !.page = p]
           IN  /\ q \in Query /\ q.page = p /\ q.size = query.size
               /\ q.search = query.search /\ q.filter = query.filter
               /\ q = query <=> p = query.page
<1>1. query \in Query
  BY DEF Types
<1> QED
  BY <1>1 DEF Query

\* The page is corrected: it moves to last, or the rows are loaded again.
LEMMA CorrectIs ==
    ASSUME Types, NEW o \in SoundOp, NEW last \in Nat, NEW frees \in Frees,
           Correct(o, last, frees)
    PROVE  \/ /\ o.q.page > last /\ Release(frees)
              /\ LET q == [query EXCEPT !.page = last]
                 IN  MovesOrLoads(q, IF q = query THEN <<>> ELSE <<Load(q, {})>>)
           \/ /\ o.q.page <= last /\ LoadsOne(shown, Load(o.q, frees))
              /\ UNCHANGED <<query, dialogs>>
<1>1. o.q \in Query /\ o.q.page \in Int
  BY DEF SoundOp, OpRecord, Query
<1>2. CASE o.q.page > last
  <2>1. [query EXCEPT !.page = last] \in Query
    BY PageTo
  <2> QED
    BY <1>2, <2>1, MoveOnly DEF Correct
<1>3. CASE o.q.page <= last
  BY <1>1, <1>3, ReloadIs DEF Correct
<1> QED
  BY <1>1, <1>2, <1>3

\* The last page for what is left of the total.
LEMMA LastFor ==
    ASSUME NEW o \in SoundOp
    PROVE  LET left == o.total - Cardinality(o.ok)
           IN  /\ LastPage(IF left < 0 THEN 0 ELSE left, o.q.size) \in Nat \ {0}
               /\ left \in Int /\ o.q.size \in Nat \ {0}
<1>1. o.total \in Nat /\ Cardinality(o.ok) \in Nat /\ o.q.size \in Nat \ {0}
  BY KeySets, PagedTableAssumption DEF SoundOp, OpRecord, Query
<1> DEFINE left == o.total - Cardinality(o.ok)
           m == IF left < 0 THEN 0 ELSE left
<1>2. left \in Int /\ m \in Nat
  BY <1>1
<1> HIDE DEF m
<1>3. LastPage(m, o.q.size) \in Nat \ {0}
  BY <1>1, <1>2, LastPagePositive
<1> QED
  BY <1>1, <1>2, <1>3 DEF m

\* How a handler may end: it quits, patches the rows, turns the page, loads the
\* rows again, or, with the domains, loads page 1 and what it turned to.
Quits(o) == o.ok = {} /\ UNCHANGED <<query, shown, loads>>

Patches(o) ==
    o.kind = "patch" /\ shown' = Patched(o.ok, o.group) /\ UNCHANGED <<query, loads>>

Turns(o) ==
    \E p \in Int :
        /\ o.q = query => p # query.page
        /\ LET q == [query EXCEPT !.page = p]
           IN  MovesOrLoads(q, IF q = query THEN <<>> ELSE <<Load(q, {})>>)

Reloads(o) ==
    \E l \in LoadRecord :
        /\ query' = query /\ l.q = o.q /\ l.ans = Pending
        /\ l.what = "rows" \/ (Chained(l) /\ table = "worker" /\ o.kind = "dropgroup")
        /\ \/ LoadsOne(shown, l)
           \/ o.kind = "regroup" /\ LoadsOne(Patched(o.ok, o.group), l)

Twice(o) ==
    /\ o.q # query /\ query' = [query EXCEPT !.page = 1] /\ query' \in Query
    /\ loads' = loads \o (<<Load(o.q, {"add"})>> \o <<Load(query', {})>>)
    /\ loads' \in Seq(LoadRecord)
    /\ shown' \in Shown /\ shown'.rows = shown.rows /\ shown'.total = shown.total

\* What it had raised is down, or will be taken down by the list it waits for.
FlagsEnd(o) ==
    \A f \in Raised' :
        f \in Raised /\ (f \in Holds(o) => \E l \in Range(loads') : f \in l.frees)

EndsOf(o) ==
    /\ o.todo = {}
    /\ Quits(o) \/ Patches(o) \/ Turns(o) \/ Reloads(o) \/ Twice(o)
    /\ FlagsEnd(o)
    /\ busy' \subseteq busy /\ deleting' \in {deleting, None} /\ modal' \in {modal, None}
    /\ selected' \subseteq Keys
    /\ IF o.kind = "patch" THEN edited' = (edited \/ (o.ok # {} /\ query.filter # All))
                            ELSE edited' = edited

EndsAs(i) == ops[i] \in SoundOp /\ Close(i) /\ EndsOf(ops[i])

\* The flags a handler resets itself.
LEMMA ReleaseEnds ==
    ASSUME Types, table' = table, NEW o \in SoundOp, NEW frees \in Frees, Holds(o) \subseteq frees,
           Release(frees)
    PROVE  /\ FlagsEnd(o) /\ busy' \subseteq busy
           /\ deleting' \in {deleting, None} /\ modal' \in {modal, None}
<1>1. /\ busy' = busy \ frees /\ deleting' \in {deleting, None} /\ modal' \in {modal, None}
      /\ "deleting" \in frees => deleting' = None
      /\ "modal" \in frees => modal' = None
  BY ReleaseIs DEF Release
<1>2. Raised' \subseteq Raised \ frees
  BY <1>1 DEF Raised, Types, Flags
<1> QED
  BY <1>1, <1>2 DEF FlagsEnd

\* The flags that are left to the list it waits for.
LEMMA HandedOver ==
    ASSUME Types, table' = table, NEW o \in SoundOp, NEW l \in LoadRecord,
           loads' = loads \o <<l>>,
           busy' \subseteq busy, deleting' \in {deleting, None}, modal' \in {modal, None},
           \A f \in Raised' : f \in Holds(o) => f \in l.frees
    PROVE  FlagsEnd(o)
<1>1. Range(loads') = Range(loads) \cup {l}
  <2> DEFINE t == <<l>>
  <2>1. loads \in Seq(LoadRecord) /\ t \in Seq(LoadRecord) /\ Range(t) = {l}
        /\ loads' = loads \o t
    BY DEF Types, Range
  <2> HIDE DEF t
  <2> QED
    BY <2>1, ConcatRange
<1>2. Raised' \subseteq Raised
  BY DEF Raised
<1> QED
  BY <1>1, <1>2 DEF FlagsEnd

\* Every handler ends in one of these ways.
LEMMA CloseEnds ==
    ASSUME Types, NEW i \in DOMAIN ops, Closes(i), table' = table
    PROVE  EndsAs(i)
<1> DEFINE o == ops[i]
<1>0. /\ o \in SoundOp /\ ops \in Seq(SoundOp) /\ o.q \in Query /\ query \in Query
      /\ selected \subseteq Keys /\ shown \in Shown /\ loads \in Seq(LoadRecord)
      /\ o.ok \subseteq Keys \cup {0} /\ o.bad \subseteq Keys \cup {0} /\ o.keys \subseteq Keys
  BY DEF Types, SoundOp, OpRecord
<1>f. /\ {"add"} \in Frees /\ {"clear", "modal"} \in Frees /\ {"del"} \in Frees
      /\ {"deleting"} \in Frees /\ {"bulk"} \in Frees /\ {"bulk", "modal"} \in Frees
      /\ {"modal"} \in Frees /\ {"del", "deleting"} \in Frees /\ {} \in Frees
  BY DEF Frees, Flags
<1>h. /\ o.kind = "add" => Holds(o) = {"add"}
      /\ o.kind = "clear" => Holds(o) = {"clear", "modal"}
      /\ o.kind = "delete" => Holds(o) = IF table \in Routes THEN {"deleting"} ELSE {"del"}
      /\ o.kind = "dropgroup" => Holds(o) = {"del"}
      /\ o.kind = "regroup" => Holds(o) = {"bulk"}
      /\ o.kind = "purge" => Holds(o) = {"bulk", "modal"}
      /\ o.kind = "patch" => Holds(o) = {}
  BY DEF Holds
<1>l. ASSUME NEW frees \in Frees
      PROVE  /\ Load(o.q, frees) \in LoadRecord /\ Load(o.q, frees).q = o.q
             /\ Load(o.q, frees).ans = Pending
             /\ Load(o.q, frees).frees = frees /\ Load(o.q, frees).what = "rows"
  BY <1>0, LoadTypes DEF Load
<1>r. ASSUME NEW frees \in Frees, Reload(o.q, frees), Holds(o) \subseteq frees
      PROVE  /\ Reloads(o) /\ FlagsEnd(o) /\ UNCHANGED <<query, dialogs>>
  <2>1. LoadsOne(shown, Load(o.q, frees)) /\ UNCHANGED <<query, dialogs>>
    BY <1>0, <1>r, ReloadIs
  <2>2. Reloads(o)
    BY <1>l, <2>1 DEF Reloads
  <2>3. FlagsEnd(o)
    BY <1>0, <1>r, <1>l, <2>1, HandedOver DEF LoadsOne, dialogs
  <2> QED
    BY <2>1, <2>2, <2>3
<1>m. ASSUME NEW p \in Int, MoveTo([query EXCEPT !.page = p], <<>>), o.q = query => p # query.page
      PROVE  Turns(o)
  <2>1. [query EXCEPT !.page = p] \in Query
    BY PageTo
  <2> QED
    BY <1>m, <2>1, MoveOnly DEF Turns
<1>e. ASSUME NEW frees \in Frees, Holds(o) \subseteq frees, Release(frees)
      PROVE  /\ FlagsEnd(o) /\ busy' \subseteq busy
             /\ deleting' \in {deleting, None} /\ modal' \in {modal, None}
  BY <1>0, <1>e, ReleaseEnds
<1>w. ASSUME Fetch(<<Load(o.q, {"del"})>>), Release({"deleting"}), query' = query,
             Holds(o) = {"del"}
      PROVE  /\ Reloads(o) /\ FlagsEnd(o) /\ busy' \subseteq busy
             /\ deleting' \in {deleting, None} /\ modal' \in {modal, None}
  <2>1. LoadsOne(shown, Load(o.q, {"del"}))
    BY <1>0, <1>f, <1>l, <1>w, FetchOne DEF Fetch
  <2>2. Reloads(o)
    BY <1>l, <1>f, <1>w, <2>1 DEF Reloads
  <2>3. busy' \subseteq busy /\ deleting' \in {deleting, None} /\ modal' \in {modal, None}
    BY <1>w DEF Release
  <2>4. FlagsEnd(o)
    BY <1>0, <1>f, <1>l, <1>w, <2>1, <2>3, HandedOver DEF LoadsOne
  <2> QED
    BY <2>2, <2>3, <2>4
<1>c. o.q.page \in Int /\ query.page \in Int
  BY <1>0 DEF Query
<1> HIDE DEF o
<1>s. SUFFICES Close(i) /\ EndsOf(o)
  BY <1>0 DEF o, EndsAs
<1> SUFFICES /\ o.todo = {} /\ Close(i)
             /\ Quits(o) \/ Patches(o) \/ Turns(o) \/ Reloads(o) \/ Twice(o)
             /\ FlagsEnd(o)
             /\ busy' \subseteq busy /\ deleting' \in {deleting, None}
             /\ modal' \in {modal, None} /\ selected' \subseteq Keys
             /\ IF o.kind = "patch"
                THEN edited' = (edited \/ (o.ok # {} /\ query.filter # All))
                ELSE edited' = edited
  BY DEF EndsOf
<1>1. CASE domainsAdded(i)
  <2>1. /\ o.kind = "add" /\ o.todo = {} /\ Close(i) /\ UNCHANGED <<selected, edited>>
    BY <1>1 DEF domainsAdded, Answered, o
  <2>2. CASE o.ok = {}
    <3>1. Release({"add"}) /\ Quits(o)
      BY <1>1, <2>2 DEF domainsAdded, Quits, o
    <3> QED
      BY <1>0, <1>e, <1>f, <1>h, <2>1, <3>1
  <2>3. CASE o.ok # {} /\ o.q.page # 1
    <3>1. MoveTo([query EXCEPT !.page = 1], <<>>) /\ Release({"add"})
      BY <1>1, <2>3 DEF domainsAdded, o
    <3>2. Turns(o)
      <4>1. 1 \in Int /\ (o.q = query => 1 # query.page)
        BY <2>3
      <4> QED
        BY <1>m, <3>1, <4>1
    <3> QED
      BY <1>0, <1>e, <1>f, <1>h, <2>1, <3>1, <3>2
  <2>4. CASE o.ok # {} /\ o.q.page = 1
    <3> DEFINE q == [query EXCEPT !.page = 1]
               l == Load(o.q, {"add"})
               ls == <<l>>
    <3>1. MoveTo(q, ls) /\ Release({})
      BY <1>1, <2>4 DEF domainsAdded, o
    <3>2. q \in Query /\ (q = query <=> 1 = query.page)
      BY PageTo
    <3>3. /\ l \in LoadRecord /\ l.q = o.q /\ l.ans = Pending
          /\ l.what = "rows" /\ l.frees = {"add"}
      BY <1>l, <1>f
    <3> HIDE DEF l, q
    <3>4. ls \in Seq(LoadRecord) /\ Range(ls) = {l} /\ ls # <<>>
      BY <3>3 DEF Range
    <3> HIDE DEF ls
    <3>5. /\ query' = q /\ loads' \in Seq(LoadRecord) /\ shown' \in Shown
          /\ shown'.rows = shown.rows /\ shown'.total = shown.total
          /\ q = query => loads' = loads \o ls
          /\ q # query => loads' = loads \o (ls \o <<Load(q, {})>>)
          /\ shown'.loading <=>
                (shown.loading \/ q # query \/ \E x \in Range(ls) : x.what = "rows")
      BY <3>1, <3>2, <3>4, MoveIs
    <3>6. busy' = busy /\ deleting' = deleting /\ modal' = modal
      BY <3>1 DEF Release, Types
    <3>7. Range(loads) \subseteq Range(loads') /\ l \in Range(loads')
      <4>1. CASE q = query
        <5>1. Range(loads \o ls) = Range(loads) \cup Range(ls)
          BY <1>0, <3>4, ConcatRange
        <5> QED
          BY <3>4, <3>5, <4>1, <5>1
      <4>2. CASE q # query
        <5> DEFINE m == <<Load(q, {})>>
        <5>1. m \in Seq(LoadRecord) /\ loads' = loads \o (ls \o m)
          BY <1>f, <3>2, <3>5, <4>2, LoadTypes
        <5> HIDE DEF m
        <5>2. ls \o m \in Seq(LoadRecord) /\ Range(ls \o m) = Range(ls) \cup Range(m)
          BY <3>4, <5>1, ConcatRange
        <5>3. PICK lm \in Seq(LoadRecord) : lm = ls \o m
          BY <5>2
        <5>4. Range(loads \o lm) = Range(loads) \cup Range(lm)
          BY <1>0, ConcatRange
        <5> QED
          BY <3>4, <5>1, <5>2, <5>3, <5>4
      <4> QED
        BY <4>1, <4>2
    <3>8. FlagsEnd(o)
      BY <1>h, <2>1, <3>3, <3>6, <3>7 DEF FlagsEnd, Raised
    <3>9. Reloads(o) \/ Twice(o)
      <4>1. CASE q = query
        <5>1. LoadsOne(shown, l)
          BY <3>3, <3>4, <3>5, <4>1 DEF LoadsOne, ls
        <5> QED
          BY <3>3, <3>5, <4>1, <5>1 DEF Reloads
      <4>2. CASE q # query
        <5>1. query.page # 1 /\ o.q # query
          BY <2>4, <3>2, <4>2
        <5>2. loads' = loads \o (<<Load(o.q, {"add"})>> \o <<Load(query', {})>>)
          BY <3>5, <4>2 DEF l, ls
        <5> QED
          BY <3>2, <3>5, <4>2, <5>1, <5>2 DEF Twice, q
      <4> QED
        BY <4>1, <4>2
    <3> QED
      BY <1>0, <2>1, <3>6, <3>8, <3>9
  <2> QED
    BY <2>2, <2>3, <2>4
<1>2. CASE cidrsAdded(i)
  <2>1. /\ o.kind = "add" /\ o.todo = {} /\ Close(i) /\ UNCHANGED <<selected, edited>>
    BY <1>2 DEF cidrsAdded, Answered, o
  <2>2. CASE o.ok = {}
    <3>1. Release({"add"}) /\ Quits(o)
      BY <1>2, <2>2 DEF cidrsAdded, Quits, o
    <3> QED
      BY <1>0, <1>e, <1>f, <1>h, <2>1, <3>1
  <2>3. CASE o.ok # {} /\ o.q.page # 1
    <3>1. MoveTo([query EXCEPT !.page = 1], <<>>) /\ Release({"add"})
      BY <1>2, <2>3 DEF cidrsAdded, FirstPage, o
    <3>2. Turns(o)
      <4>1. 1 \in Int /\ (o.q = query => 1 # query.page)
        BY <2>3
      <4> QED
        BY <1>m, <3>1, <4>1
    <3> QED
      BY <1>0, <1>e, <1>f, <1>h, <2>1, <3>1, <3>2
  <2>4. CASE o.ok # {} /\ o.q.page = 1
    <3>1. Reload(o.q, {"add"})
      BY <1>2, <2>4 DEF cidrsAdded, FirstPage, o
    <3> QED
      BY <1>0, <1>r, <1>f, <1>h, <2>1, <3>1 DEF dialogs
  <2> QED
    BY <2>2, <2>3, <2>4
<1>3. CASE cidrsCleared(i)
  <2>1. /\ o.kind = "clear" /\ o.todo = {} /\ Close(i) /\ edited' = edited
    BY <1>3 DEF cidrsCleared, Answered, o
  <2>2. o.ok = {}
    BY <1>0, <2>1 DEF SoundOp
  <2>3. Release({"clear", "modal"}) /\ Quits(o) /\ selected' = selected
    BY <1>3, <2>2 DEF cidrsCleared, Quits, o
  <2> QED
    BY <1>0, <1>e, <1>f, <1>h, <2>1, <2>3
<1>4. CASE table \in Routes /\ Removed(i)
  <2>1. /\ o.kind = "delete" /\ o.todo = {} /\ Close(i) /\ UNCHANGED <<selected, edited>>
        /\ Holds(o) = {"deleting"}
    BY <1>4, <1>h DEF Removed, Answered, o
  <2>2. CASE o.ok = {}
    <3>1. Release({"deleting"}) /\ Quits(o)
      BY <1>4, <2>2 DEF Removed, Quits, o
    <3> QED
      BY <1>0, <1>e, <1>f, <2>1, <3>1
  <2>3. CASE o.ok # {} /\ o.n = 1 /\ o.q.page > 1
    <3>1. MoveTo([query EXCEPT !.page = @ - 1], <<>>) /\ Release({"deleting"})
      BY <1>4, <2>3 DEF Removed, o
    <3>2. query.page - 1 \in Int /\ query.page - 1 # query.page
      BY <1>c
    <3>3. Turns(o)
      BY <1>m, <3>1, <3>2
    <3> QED
      BY <1>0, <1>e, <1>f, <2>1, <3>1, <3>3
  <2>4. CASE o.ok # {} /\ ~(o.n = 1 /\ o.q.page > 1)
    <3>1. Reload(o.q, {"deleting"})
      BY <1>4, <2>4 DEF Removed, o
    <3> QED
      BY <1>0, <1>r, <1>f, <2>1, <3>1 DEF dialogs
  <2> QED
    BY <2>2, <2>3, <2>4
<1>5. CASE table \in Routes /\ SelectedChanged(i)
  <2>1. /\ o.kind = "regroup" /\ o.todo = {} /\ Close(i) /\ UNCHANGED <<query, edited>>
        /\ Release({"bulk"}) /\ selected' = {} /\ Fetch(<<Load(o.q, {})>>)
    BY <1>5 DEF SelectedChanged, Answered, o
  <2>2. LoadsOne(shown, Load(o.q, {}))
    BY <1>0, <1>f, <1>l, <2>1, FetchOne DEF Fetch
  <2>3. Reloads(o)
    BY <1>l, <1>f, <2>1, <2>2 DEF Reloads
  <2> QED
    BY <1>e, <1>f, <1>h, <2>1, <2>3
<1>6. CASE table \in Routes /\ SelectedDeleted(i)
  <2>1. /\ o.kind = "purge" /\ o.todo = {} /\ Close(i) /\ UNCHANGED <<query, edited>>
        /\ Release({"bulk"}) /\ selected' = o.bad /\ Fetch(<<Load(o.q, {"modal"})>>)
    BY <1>6 DEF SelectedDeleted, Answered, o
  <2>2. LoadsOne(shown, Load(o.q, {"modal"}))
    BY <1>0, <1>f, <1>l, <2>1, FetchOne DEF Fetch
  <2>3. Reloads(o)
    BY <1>l, <1>f, <2>1, <2>2 DEF Reloads
  <2>4. busy' = busy \ {"bulk"} /\ deleting' = deleting /\ modal' = modal
    BY <2>1 DEF Release
  <2>5. \A f \in Raised' : f \in Holds(o) => f \in {"modal"}
    BY <1>h, <2>1, <2>4 DEF Raised
  <2>6. FlagsEnd(o)
    BY <1>0, <1>f, <1>l, <2>2, <2>4, <2>5, HandedOver DEF LoadsOne
  <2>7. o.bad \subseteq Keys
    BY <1>0, <2>1 DEF SoundOp
  <2> QED
    BY <2>1, <2>3, <2>4, <2>6, <2>7
<1>7. CASE groupRemoved(i)
  <2> DEFINE l == LoadGroups(o.q, {"del"})
  <2>1. /\ o.kind = "dropgroup" /\ o.todo = {} /\ Close(i)
        /\ UNCHANGED <<query, selected, edited>>
    BY <1>7 DEF groupRemoved, Answered, o
  <2>2. CASE o.ok = {}
    <3>1. Release({"del"}) /\ Quits(o)
      BY <1>7, <2>1, <2>2 DEF groupRemoved, Quits, o
    <3> QED
      BY <1>0, <1>e, <1>f, <1>h, <2>1, <3>1
  <2>3. CASE o.ok # {}
    <3>1. /\ Fetch(<<LoadGroups(o.q, {"del"})>>) /\ UNCHANGED <<busy, modal>>
          /\ deleting' \in {deleting, None}
      BY <1>7, <2>3 DEF groupRemoved, o
    <3>2. /\ l \in LoadRecord /\ l.q = o.q /\ l.ans = Pending /\ l.frees = {"del"}
          /\ Chained(l) /\ table = "worker"
      BY <1>0, <1>f, <1>7, LoadTypes DEF LoadGroups, Chained, groupRemoved, IsWorkers
    <3> HIDE DEF l
    <3>3. LoadsOne(shown, l)
      BY <1>0, <3>1, <3>2, FetchOne DEF Fetch, l
    <3>4. Reloads(o)
      BY <2>1, <3>2, <3>3 DEF Reloads
    <3>5. FlagsEnd(o)
      BY <1>0, <1>h, <2>1, <3>1, <3>2, <3>3, HandedOver DEF LoadsOne
    <3> QED
      BY <1>0, <2>1, <3>1, <3>4, <3>5
  <2> QED
    BY <2>2, <2>3
<1>8. CASE workerRemoved(i)
  <2>1. /\ o.kind = "delete" /\ o.todo = {} /\ Close(i) /\ UNCHANGED <<query, edited>>
        /\ Holds(o) = {"del"} /\ selected' \subseteq Keys
    <3>1. /\ o.kind = "delete" /\ o.todo = {} /\ Close(i) /\ UNCHANGED <<query, edited>>
          /\ table \notin Routes /\ selected' = selected \ o.ok
      BY <1>8 DEF workerRemoved, Answered, IsWorkers, Routes, o
    <3> QED
      BY <1>0, <1>h, <3>1
  <2>2. CASE o.ok = {}
    <3>1. Release({"del"}) /\ Quits(o)
      BY <1>8, <2>1, <2>2 DEF workerRemoved, Quits, o
    <3> QED
      BY <1>0, <1>e, <1>f, <2>1, <3>1
  <2>3. CASE o.ok # {}
    <3>1. /\ Fetch(<<Load(o.q, {"del"})>>) /\ UNCHANGED <<busy, modal>>
          /\ deleting' \in {deleting, None}
      BY <1>8, <2>3 DEF workerRemoved, o
    <3>2. LoadsOne(shown, Load(o.q, {"del"}))
      BY <1>0, <1>f, <1>l, <3>1, FetchOne DEF Fetch
    <3>3. Reloads(o)
      BY <1>l, <1>f, <2>1, <3>2 DEF Reloads
    <3>4. FlagsEnd(o)
      BY <1>0, <1>f, <1>l, <2>1, <3>1, <3>2, HandedOver DEF LoadsOne
    <3> QED
      BY <2>1, <3>1, <3>3, <3>4
  <2> QED
    BY <2>2, <2>3
<1>9. CASE groupUpdated(i)
  <2> DEFINE p == Patched(o.ok, o.group)
  <2>1. /\ o.kind = "regroup" /\ o.todo = {} /\ Close(i)
        /\ UNCHANGED <<query, dialogs, edited>> /\ selected' = selected \ o.ok
        /\ FetchOver(p, <<Load(o.q, {"bulk"})>>)
    BY <1>9 DEF groupUpdated, Answered, o
  <2>2. p \in Shown
    <3>1. o.group \in Values
      BY <1>0, <2>1 DEF SoundOp, Values
    <3> QED
      BY <1>0, <3>1 DEF Patched, Shown
  <2> HIDE DEF p
  <2>3. LoadsOne(p, Load(o.q, {"bulk"}))
    BY <1>f, <1>l, <2>1, <2>2, FetchOne
  <2>4. Reloads(o)
    BY <1>l, <1>f, <2>1, <2>3 DEF Reloads, p
  <2>5. FlagsEnd(o)
    BY <1>0, <1>f, <1>l, <1>h, <2>1, <2>3, HandedOver DEF LoadsOne, dialogs
  <2> QED
    BY <1>0, <2>1, <2>4, <2>5 DEF dialogs
<1>10. CASE workersPurged(i)
  <2> DEFINE left == o.total - Cardinality(o.ok)
             last == LastPage(IF left < 0 THEN 0 ELSE left, o.q.size)
  <2>1. /\ o.kind = "purge" /\ o.todo = {} /\ Close(i) /\ edited' = edited
        /\ selected' = selected \ o.ok /\ Correct(o, last, {"bulk", "modal"})
    BY <1>10 DEF workersPurged, Answered, o
  <2>2. last \in Nat
    BY <1>0, LastFor
  <2> HIDE DEF last
  <2>3. selected' \subseteq Keys
    BY <1>0, <2>1 DEF SoundOp
  <2>4. Holds(o) = {"bulk", "modal"}
    BY <1>h, <2>1
  <2>5. CASE o.q.page > last
    <3>1. MoveTo([query EXCEPT !.page = last], <<>>) /\ Release({"bulk", "modal"})
      BY <2>1, <2>5 DEF Correct
    <3>2. last \in Int /\ (o.q = query => last # query.page)
      BY <1>c, <2>2, <2>5
    <3>3. Turns(o)
      BY <1>m, <3>1, <3>2
    <3> QED
      BY <1>e, <1>f, <2>1, <2>3, <2>4, <3>1, <3>3
  <2>6. CASE ~(o.q.page > last)
    <3>1. Reload(o.q, {"bulk", "modal"})
      BY <2>1, <2>6 DEF Correct
    <3> QED
      BY <1>r, <1>f, <2>1, <2>3, <2>4, <3>1 DEF dialogs
  <2> QED
    BY <2>5, <2>6
<1>11. CASE table \in Routes \cup {"worker"} /\ GroupChanged(i)
  <2>1. /\ o.kind = "patch" /\ o.todo = {} /\ Close(i) /\ UNCHANGED <<selected, dialogs>>
        /\ edited' = (edited \/ (o.ok # {} /\ query.filter # All)) /\ Patches(o)
    BY <1>11 DEF GroupChanged, Answered, Patches, o
  <2>2. FlagsEnd(o)
    BY <1>11, <1>h, <2>1 DEF FlagsEnd, Raised, dialogs
  <2> QED
    BY <1>0, <2>1, <2>2 DEF dialogs
<1>12. CASE removed(i)
  <2> DEFINE left == o.total - Cardinality(o.ok)
             last == LastPage(IF left < 0 THEN 0 ELSE left, o.q.size)
  <2>1. /\ o.kind = "delete" /\ o.todo = {} /\ Close(i) /\ edited' = edited
        /\ Holds(o) = {"del"} /\ selected' \subseteq Keys
    <3>1. /\ o.kind = "delete" /\ o.todo = {} /\ Close(i) /\ edited' = edited
          /\ table \notin Routes /\ (selected' = selected \/ selected' = {})
      BY <1>12 DEF removed, Answered, IsProxies, Routes, o
    <3> QED
      BY <1>0, <1>h, <3>1
  <2>2. last \in Nat
    BY <1>0, LastFor
  <2>3. CASE o.ok = {}
    <3>1. Release({"del"}) /\ Quits(o)
      BY <1>12, <2>3 DEF removed, Quits, o
    <3> QED
      BY <1>0, <1>e, <1>f, <2>1, <3>1
  <2>4. CASE o.ok # {} /\ o.q.page > last
    <3>1. MoveTo([query EXCEPT !.page = last], <<>>) /\ Release({"del", "deleting"})
      BY <1>12, <2>4 DEF removed, MaxPage, o
    <3> HIDE DEF last
    <3>2. last \in Int /\ (o.q = query => last # query.page)
      BY <1>c, <2>2, <2>4
    <3>3. Turns(o)
      BY <1>m, <3>1, <3>2
    <3> QED
      BY <1>e, <1>f, <2>1, <3>1, <3>3
  <2>5. CASE o.ok # {} /\ ~(o.q.page > last)
    <3>1. Fetch(<<Load(o.q, {"del"})>>) /\ Release({"deleting"}) /\ query' = query
      BY <1>12, <2>5 DEF removed, MaxPage, o
    <3> QED
      BY <1>w, <2>1, <3>1
  <2> QED
    BY <2>3, <2>4, <2>5
<1>13. CASE bulkRemoved(i)
  <2> DEFINE left == o.total - Cardinality(o.ok)
             last == LastPage(IF left < 0 THEN 0 ELSE left, o.q.size)
  <2>1. /\ o.kind = "purge" /\ o.todo = {} /\ Close(i) /\ edited' = edited
        /\ selected' = o.bad /\ Correct(o, last, {"bulk", "modal"})
    BY <1>13 DEF bulkRemoved, MaxPage, Answered, o
  <2>2. last \in Nat
    BY <1>0, LastFor
  <2> HIDE DEF last
  <2>3. selected' \subseteq Keys
    BY <1>0, <2>1 DEF SoundOp
  <2>4. Holds(o) = {"bulk", "modal"}
    BY <1>h, <2>1
  <2>5. CASE o.q.page > last
    <3>1. MoveTo([query EXCEPT !.page = last], <<>>) /\ Release({"bulk", "modal"})
      BY <2>1, <2>5 DEF Correct
    <3>2. last \in Int /\ (o.q = query => last # query.page)
      BY <1>c, <2>2, <2>5
    <3>3. Turns(o)
      BY <1>m, <3>1, <3>2
    <3> QED
      BY <1>e, <1>f, <2>1, <2>3, <2>4, <3>1, <3>3
  <2>6. CASE ~(o.q.page > last)
    <3>1. Reload(o.q, {"bulk", "modal"})
      BY <2>1, <2>6 DEF Correct
    <3> QED
      BY <1>r, <1>f, <2>1, <2>3, <2>4, <3>1 DEF dialogs
  <2> QED
    BY <2>5, <2>6
<1>14. CASE userRemoved(i)
  <2>1. /\ o.kind = "delete" /\ o.todo = {} /\ Close(i) /\ UNCHANGED <<query, selected, edited>>
        /\ Holds(o) = {"del"}
    BY <1>14, <1>h DEF userRemoved, Answered, IsUsers, Routes, o
  <2>2. CASE o.ok = {}
    <3>1. Release({"del"}) /\ Quits(o)
      BY <1>14, <2>1, <2>2 DEF userRemoved, Quits, o
    <3> QED
      BY <1>0, <1>e, <1>f, <2>1, <3>1
  <2>3. CASE o.ok # {}
    <3>1. Fetch(<<Load(o.q, {"del"})>>) /\ Release({"deleting"})
      BY <1>14, <2>3 DEF userRemoved, o
    <3> QED
      BY <1>0, <1>w, <2>1, <3>1
  <2> QED
    BY <2>2, <2>3
<1> QED
  BY <1>1, <1>2, <1>3, <1>4, <1>5, <1>6, <1>7, <1>8, <1>9, <1>10, <1>11, <1>12, <1>13, <1>14
  DEF Closes, RouteCloses, WorkerCloses

LEMMA CloseTypes ==
    ASSUME Types, NEW i \in DOMAIN ops, EndsAs(i), table' = table PROVE Types'
<1> DEFINE o == ops[i]
<1>0. ops \in Seq(SoundOp) /\ shown \in Shown /\ loads \in Seq(LoadRecord) /\ query \in Query
  BY DEF Types
<1>1. o \in SoundOp /\ Close(i) /\ EndsOf(o)
  BY DEF EndsAs
<1> HIDE DEF o
<1>2. ops' \in Seq(SoundOp)
  BY <1>0, <1>1, RemoveAtIs DEF Close
<1>3. query' \in Query /\ loads' \in Seq(LoadRecord) /\ shown' \in Shown
  <2>1. CASE Quits(o)
    BY <1>0, <2>1 DEF Quits
  <2>2. CASE Patches(o)
    <3>1. o.group \in Values
      BY <1>1, <2>2 DEF Patches, SoundOp, Values
    <3> QED
      BY <1>0, <2>2, <3>1 DEF Patches, Patched, Shown
  <2>3. CASE Turns(o)
    BY <2>3 DEF Turns, MovesOrLoads
  <2>4. CASE Reloads(o)
    BY <1>0, <2>4 DEF Reloads, LoadsOne
  <2>5. CASE Twice(o)
    BY <2>5 DEF Twice
  <2> QED
    BY <1>1, <2>1, <2>2, <2>3, <2>4, <2>5 DEF EndsOf
<1>4. /\ busy' \subseteq Flags /\ deleting' \in Keys \cup Groups \cup {None}
      /\ table # "worker" => deleting' \in Keys \cup {None}
      /\ modal' = None \/ modal' \in [op : SoundOp, running : BOOLEAN]
      /\ selected' \subseteq Keys
  BY <1>1 DEF EndsOf, Types
<1>5. UNCHANGED <<backend, input, due, groups, budgets>>
  BY <1>1 DEF Close
<1> QED
  BY <1>2, <1>3, <1>4, <1>5 DEF Types, Within, backend, budgets

\* Types is inductive by itself.
LEMMA TypesInit == Init => Types
<1> SUFFICES ASSUME Init PROVE Types
  OBVIOUS
<1>1. TableInit /\ table \in Tables
  BY DEF Init, RoutesInit, WorkersInit, ProxiesInit, UsersInit, TableInit
<1>2. query \in Query
  <2> DEFINE big(s) == \A z \in Sizes : s >= z
             size == CHOOSE s \in Sizes : big(s)
  <2>1. size \in Sizes
    BY SizesBounded
  <2>2. query = [page |-> 1, size |-> size, search |-> FALSE, filter |-> All]
    BY <1>1 DEF TableInit
  <2> HIDE DEF size
  <2> QED
    BY <2>1, <2>2 DEF Query
<1>3. loads \in Seq(LoadRecord) /\ ops \in Seq(SoundOp)
  <2>1. loads = <<Load(query, {})>> /\ ops = <<>>
    BY <1>1 DEF TableInit
  <2> QED
    BY <1>2, <2>1, LoadTypes DEF Frees
<1>4. clicks \in Nat /\ faults \in Nat /\ Within(clicks, faults)
  <2>1. PICK b \in Budgets[table] : TRUE
    BY <1>1, BudgetsGiven
  <2>2. b \in Nat \X Nat
    BY <1>1, <2>1, PagedTableAssumption
  <2> QED
    BY <1>1, <2>1, <2>2 DEF TableInit, Within
<1>5. shown \in Shown
  BY <1>1 DEF TableInit, Shown, Values
<1>6. store \in [Keys -> Values] /\ live \subseteq Groups /\ groups \subseteq Groups
  BY <1>1, PagedTableAssumption DEF TableInit, Values
<1>7. input \in BOOLEAN /\ due \in BOOLEAN
  <2>1. \A x, S : (x \in S) \in BOOLEAN
    OBVIOUS
  <2>2. input = FALSE /\ due = (table \in Routes \cup {"proxy"})
    BY <1>1 DEF TableInit
  <2>3. (table \in Routes \cup {"proxy"}) \in BOOLEAN
    BY <2>1
  <2> QED
    BY <2>2, <2>3
<1>8. /\ selected \subseteq Keys /\ busy \subseteq Flags
      /\ deleting \in Keys \cup {None} /\ modal = None
  BY <1>1 DEF TableInit
<1> QED
  BY <1>1, <1>2, <1>3, <1>4, <1>5, <1>6, <1>7, <1>8 DEF Types

LEMMA TypesStep == Types /\ [Next]_vars => Types'
<1> SUFFICES ASSUME Types, [Next]_vars PROVE Types'
  OBVIOUS
<1>1. CASE UNCHANGED vars
  BY <1>1 DEF vars, backend, asked, dialogs, budgets, past, Types, Within
<1>2. CASE Next
  <2>1. Step /\ table' = table
    BY <1>2, NextIsStep DEF Types, Watch
  <2>2. ASSUME NEW i \in DOMAIN ops, Closes(i) PROVE Types'
    BY <2>1, <2>2, CloseEnds, CloseTypes
  <2> QED
    BY <2>1, <2>2, BackendTypes, BrowseDoes, DialogTypes, StartTypes, ListTypes DEF Step
<1> QED
  BY <1>1, <1>2

-----------------------------------------------------------------------------
(* NothingLeftBusy: whatever is raised has an owner.                       *)

\* The part of OwnerInv that is about f.
Owned(f) ==
    \/ \E o \in Range(ops) : f \in Holds(o)
    \/ \E l \in Range(loads) : f \in l.frees

LEMMA OwnerInit == Init => OwnerInv
<1> SUFFICES ASSUME Init PROVE OwnerInv
  OBVIOUS
<1>1. TableInit
  BY DEF Init, RoutesInit, WorkersInit, ProxiesInit, UsersInit
<1>2. Raised = {}
  BY <1>1 DEF TableInit, Raised
<1>3. loads = <<Load(query, {})>> /\ Load(query, {}).what = "rows"
  BY <1>1 DEF TableInit, Load
<1>4. \E l \in Range(loads) : l.what = "rows"
  BY <1>3 DEF Range
<1>5. \A l \in Range(loads) : ~Chained(l)
  BY <1>3 DEF Range, Chained
<1> QED
  BY <1>2, <1>4, <1>5 DEF OwnerInv

\* Requests that stay in flight keep their flags.
LEMMA OwnedStays ==
    ASSUME table' = table, NEW f, Owned(f),
           \A o \in Range(ops) : \E p \in Range(ops') : p.kind = o.kind,
           \A l \in Range(loads) : \E m \in Range(loads') : l.frees \subseteq m.frees
    PROVE  Owned(f)'
<1>1. ASSUME NEW o \in Range(ops), f \in Holds(o) PROVE Owned(f)'
  <2>1. PICK p \in Range(ops') : p.kind = o.kind
    OBVIOUS
  <2>2. f \in Holds(p)'
    BY <1>1, <2>1 DEF Holds
  <2> QED
    BY <2>1, <2>2 DEF Owned
<1>2. ASSUME NEW l \in Range(loads), f \in l.frees PROVE Owned(f)'
  BY <1>2 DEF Owned
<1> QED
  BY <1>1, <1>2 DEF Owned

LEMMA OwnerBackend ==
    ASSUME Types, OwnerInv, BackendNext, table' = table PROVE OwnerInv'
<1>0. loads \in Seq(LoadRecord) /\ ops \in Seq(SoundOp)
  BY DEF Types
<1>1. UNCHANGED <<busy, deleting, modal, shown>>
  BY DEF BackendNext, AnswerLoad, FailLoad, Serve, Lose, Another, dialogs
<1> DEFINE KeptOps == \A o \in Range(ops) : \E p \in Range(ops') : p.kind = o.kind
           Same(l, m) == l.frees = m.frees /\ l.what = m.what
           KeptLoads == /\ \A l \in Range(loads) : \E m \in Range(loads') : Same(l, m)
                        /\ \A m \in Range(loads') : \E l \in Range(loads) : Same(l, m)
<1>2. KeptOps /\ KeptLoads
  <2>1. ASSUME NEW i \in DOMAIN loads, NEW a, loads' = [loads EXCEPT ![i].ans = a], ops' = ops
        PROVE  KeptOps /\ KeptLoads
    <3>1. loads[i] \in LoadRecord
      BY <1>0
    <3>2. /\ DOMAIN loads' = DOMAIN loads
          /\ \A j \in DOMAIN loads :
                loads[j].frees = loads'[j].frees /\ loads[j].what = loads'[j].what
      BY <1>0, <2>1, <3>1 DEF LoadRecord
    <3>3. KeptLoads
      BY <3>2 DEF Range
    <3>4. KeptOps
      BY <2>1
    <3> QED
      BY <3>3, <3>4
  <2>2. ASSUME NEW i \in DOMAIN loads, AnswerLoad(i) \/ FailLoad(i) PROVE KeptOps /\ KeptLoads
    BY <2>1, <2>2 DEF AnswerLoad, FailLoad
  <2>3. ASSUME NEW i \in DOMAIN ops, NEW k \in ops[i].todo, Serve(i, k) \/ Lose(i, k)
        PROVE  KeptOps /\ KeptLoads
    <3>1. loads' = loads
      BY <2>3 DEF Serve, Lose
    <3>2. DOMAIN ops' = DOMAIN ops /\ \A j \in DOMAIN ops : ops'[j].kind = ops[j].kind
      BY <2>3, ServeIs, LoseIs DEF AnswersKey
    <3> QED
      BY <3>1, <3>2 DEF Range
  <2>4. ASSUME NEW k \in Keys, NEW v \in Values, Another(k, v) PROVE KeptOps /\ KeptLoads
    BY <2>4 DEF Another
  <2> QED
    BY <2>2, <2>3, <2>4 DEF BackendNext
<1>3. Raised' = Raised
  BY <1>1 DEF Raised
<1>4. ASSUME NEW f \in Raised PROVE Owned(f)'
  <2>1. Owned(f)
    BY DEF OwnerInv, Owned
  <2> QED
    BY <1>2, <2>1, OwnedStays
<1>5. shown'.loading => \E l \in Range(loads') : l.what = "rows"
  BY <1>1, <1>2 DEF OwnerInv
<1>6. \A m \in Range(loads') : \E l \in Range(loads) : l.frees = m.frees /\ l.what = m.what
  BY <1>2
<1>7. \A l \in Range(loads') : Chained(l) => table' = "worker"
  BY <1>6 DEF OwnerInv, Chained
<1> QED
  BY <1>3, <1>4, <1>5, <1>7 DEF OwnerInv, Owned

\* Requests that are added do not take the others away.
LEMMA GrownRange ==
    ASSUME loads \in Seq(LoadRecord), NEW ls \in Seq(LoadRecord), loads' = loads \o ls
    PROVE  Range(loads') = Range(loads) \cup Range(ls) /\ Len(loads') = Len(loads) + Len(ls)
BY ConcatRange

LEMMA OneRange ==
    ASSUME NEW S, NEW x \in S
    PROVE  <<x>> \in Seq(S) /\ Range(<<x>>) = {x} /\ Len(<<x>>) = 1
<1>1. DOMAIN <<x>> = {1} /\ <<x>>[1] = x /\ <<x>> \in Seq(S) /\ Len(<<x>>) = 1
  OBVIOUS
<1> QED
  BY <1>1 DEF Range

LEMMA PairRange ==
    ASSUME NEW S, NEW x \in S, NEW y \in S
    PROVE  <<x, y>> \in Seq(S) /\ Range(<<x, y>>) = {x, y}
<1> DEFINE s == <<x, y>>
<1>1. DOMAIN s = {1, 2} /\ s[1] = x /\ s[2] = y /\ s \in Seq(S)
  OBVIOUS
<1> HIDE DEF s
<1>2. Range(s) = {x, y}
  BY <1>1 DEF Range
<1> QED
  BY <1>1, <1>2 DEF s

LEMMA BrowseGrows ==
    ASSUME Types, BrowseIs, loads' # loads
    PROVE  /\ Range(loads) \subseteq Range(loads')
           /\ \E l \in Range(loads') : l.what = "rows"
           /\ \A l \in Range(loads') : l \in Range(loads) \/ ~Chained(l)
<1>1. loads \in Seq(LoadRecord) /\ query \in Query /\ query' \in Query /\ {} \in Frees
  BY DEF BrowseIs, Types, Frees
<1>2. ASSUME NEW q \in Query
      PROVE  /\ Load(q, {}) \in LoadRecord /\ LoadGroups(q, {}) \in LoadRecord
             /\ Load(q, {}).what = "rows" /\ ~Chained(Load(q, {}))
             /\ ~Chained(LoadGroups(q, {}))
  BY <1>1, LoadTypes DEF Load, LoadGroups, Chained
<1>3. ASSUME NEW ls \in Seq(LoadRecord), loads' = loads \o ls, \E l \in Range(ls) : l.what = "rows",
             \A l \in Range(ls) : ~Chained(l)
      PROVE  /\ Range(loads) \subseteq Range(loads')
             /\ \E l \in Range(loads') : l.what = "rows"
             /\ \A l \in Range(loads') : l \in Range(loads) \/ ~Chained(l)
  BY <1>1, <1>3, GrownRange
<1>4. ASSUME NEW l \in LoadRecord, l.what = "rows", ~Chained(l), loads' = loads \o <<l>>
      PROVE  /\ Range(loads) \subseteq Range(loads')
             /\ \E m \in Range(loads') : m.what = "rows"
             /\ \A m \in Range(loads') : m \in Range(loads) \/ ~Chained(m)
  <2>1. PICK ls \in Seq(LoadRecord) : ls = <<l>> /\ Range(ls) = {l}
    BY OneRange
  <2> QED
    BY <1>3, <1>4, <2>1
<1>5. ASSUME NEW l \in LoadRecord, NEW g \in LoadRecord, l.what = "rows", ~Chained(l), ~Chained(g),
             loads' = loads \o <<g, l>>
      PROVE  /\ Range(loads) \subseteq Range(loads')
             /\ \E m \in Range(loads') : m.what = "rows"
             /\ \A m \in Range(loads') : m \in Range(loads) \/ ~Chained(m)
  <2>1. PICK ls \in Seq(LoadRecord) : ls = <<g, l>> /\ Range(ls) = {g, l}
    BY PairRange
  <2> QED
    BY <1>3, <1>5, <2>1
<1> QED
  BY <1>1, <1>2, <1>4, <1>5 DEF BrowseIs

LEMMA OwnerBrowse ==
    ASSUME Types, OwnerInv, BrowseIs, table' = table PROVE OwnerInv'
<1>1. Raised' = Raised /\ ops' = ops
  BY DEF BrowseIs, Raised, dialogs
<1>2. /\ Range(loads) \subseteq Range(loads')
      /\ \A l \in Range(loads') : l \in Range(loads) \/ ~Chained(l)
  BY BrowseGrows
<1>3. ASSUME NEW f \in Raised PROVE Owned(f)'
  <2>1. Owned(f)
    BY DEF OwnerInv, Owned
  <2> QED
    BY <1>1, <1>2, <2>1, OwnedStays
<1>4. shown'.loading => \E l \in Range(loads') : l.what = "rows"
  <2>1. CASE loads' = loads
    BY <2>1 DEF BrowseIs, OwnerInv
  <2>2. CASE loads' # loads
    BY <2>2, BrowseGrows
  <2> QED
    BY <2>1, <2>2
<1>5. \A l \in Range(loads') : Chained(l) => table' = "worker"
  BY <1>2 DEF OwnerInv
<1> QED
  BY <1>1, <1>3, <1>4, <1>5 DEF OwnerInv, Owned

\* A list that is in resets the flags of its caller, or hands them to the next.
LEMMA OwnerLists ==
    ASSUME Types, OwnerInv, NEW i \in DOMAIN loads, Lists(i), table' = table PROVE OwnerInv'
<1>a. loads \in Seq(LoadRecord) /\ shown \in Shown
  BY DEF Types
<1>b. loads[i] \in LoadRecord /\ loads[i] \in Range(loads)
  BY <1>a DEF Range
<1>0. /\ RemoveAt(loads, i) \in Seq(LoadRecord)
      /\ \A l \in Range(loads) : l # loads[i] => l \in Range(RemoveAt(loads, i))
      /\ Range(RemoveAt(loads, i)) \subseteq Range(loads)
  BY <1>a, RemoveAtIs, RemoveAtRange
<1>1. CASE LoadDone(i)
  <2>1. /\ loads' = RemoveAt(loads, i) /\ ops' = ops /\ Release(loads[i].frees)
        /\ loads[i].what = "rows"
    BY <1>1 DEF LoadDone
  <2>2. Raised' \subseteq Raised \ loads[i].frees
    BY <2>1 DEF Release, Raised, Types, Flags
  <2>3. ASSUME NEW f \in Raised' PROVE Owned(f)'
    <3>1. Owned(f) /\ f \notin loads[i].frees
      BY <2>2 DEF OwnerInv, Owned
    <3>2. CASE \E o \in Range(ops) : f \in Holds(o)
      BY <2>1, <3>2 DEF Owned, Holds
    <3>3. CASE \E l \in Range(loads) : f \in l.frees
      BY <1>0, <1>a, <1>b, <2>1, <3>1, <3>3 DEF Owned
    <3> QED
      BY <3>1, <3>2, <3>3 DEF Owned
  <2>4. ~shown'.loading
    BY <1>0, <1>a, <1>b, <1>1 DEF LoadDone, Shown
  <2>5. \A l \in Range(loads') : Chained(l) => table' = "worker"
    BY <1>0, <1>a, <1>b, <2>1 DEF OwnerInv
  <2> QED
    BY <2>3, <2>4, <2>5 DEF OwnerInv, Owned
<1>2. ASSUME NEW next \in Seq(LoadRecord), GroupsDone(i, next),
             loads[i].frees # {} => \E l \in Range(next) : l.frees = loads[i].frees,
             next # <<>> => \E l \in Range(next) : l.what = "rows",
             \A l \in Range(next) : ~Chained(l)
      PROVE  OwnerInv'
  <2>1. /\ loads' = RemoveAt(loads, i) \o next /\ ops' = ops /\ UNCHANGED dialogs
        /\ loads[i].what = "groups"
        /\ shown' = [shown EXCEPT !.loading = @ \/ next # <<>>]
    BY <1>2 DEF GroupsDone
  <2>2. Range(loads') = Range(RemoveAt(loads, i)) \cup Range(next)
    BY <1>0, <1>a, <1>b, <2>1, ConcatRange
  <2>3. Raised' = Raised
    BY <2>1 DEF Raised, dialogs
  <2>4. ASSUME NEW f \in Raised' PROVE Owned(f)'
    <3>1. Owned(f)
      BY <2>3 DEF OwnerInv, Owned
    <3>2. CASE \E o \in Range(ops) : f \in Holds(o)
      BY <2>1, <3>2 DEF Owned, Holds
    <3>3. ASSUME NEW l \in Range(loads), f \in l.frees PROVE Owned(f)'
      <4>1. CASE l = loads[i]
        BY <1>2, <2>2, <3>3, <4>1 DEF Owned
      <4>2. CASE l # loads[i]
        BY <1>0, <1>a, <1>b, <2>2, <3>3, <4>2 DEF Owned
      <4> QED
        BY <4>1, <4>2
    <3> QED
      BY <3>1, <3>2, <3>3 DEF Owned
  <2>5. shown'.loading => shown.loading \/ next # <<>>
    BY <1>0, <1>a, <1>b, <2>1 DEF Shown
  <2>6. shown.loading => \E l \in Range(RemoveAt(loads, i)) : l.what = "rows"
    BY <1>0, <1>a, <1>b, <2>1 DEF OwnerInv
  <2>7. \A l \in Range(loads') : Chained(l) => table' = "worker"
    BY <1>0, <1>a, <1>b, <1>2, <2>2 DEF OwnerInv
  <2> QED
    BY <1>2, <2>2, <2>4, <2>5, <2>6, <2>7 DEF OwnerInv, Owned
<1>e. ASSUME loads[i].frees = {}, GroupsDone(i, <<>>) PROVE OwnerInv'
  <2>1. <<>> \in Seq(LoadRecord) /\ Range(<<>>) = {}
    BY DEF Range
  <2>2. PICK next \in Seq(LoadRecord) : next = <<>> /\ Range(next) = {}
    BY <2>1
  <2> QED
    BY <1>2, <1>e, <2>2
<1>3. CASE loadGroups(i)
  <2>1. table # "worker" /\ GroupsDone(i, <<>>)
    BY <1>3 DEF loadGroups, Routes
  <2>2. loads[i].what = "groups" /\ ~Chained(loads[i])
    BY <1>0, <1>a, <1>b, <2>1 DEF GroupsDone, OwnerInv
  <2> QED
    BY <1>e, <2>1, <2>2 DEF Chained
<1>4. CASE loadWorkerGroups(i)
  <2> DEFINE l == Load(loads[i].q, loads[i].frees)
  <2>1. l \in LoadRecord /\ l.frees = loads[i].frees /\ l.what = "rows"
    BY <1>0, <1>a, <1>b, LoadTypes DEF LoadRecord, Load
  <2>2. CASE loads[i].frees = {}
    BY <1>4, <1>e, <2>2 DEF loadWorkerGroups
  <2>3. CASE loads[i].frees # {}
    <3>1. GroupsDone(i, <<l>>)
      BY <1>4, <2>3 DEF loadWorkerGroups
    <3> HIDE DEF l
    <3>2. PICK next \in Seq(LoadRecord) : next = <<l>> /\ Range(next) = {l}
      BY <2>1, OneRange
    <3> QED
      BY <1>2, <2>1, <3>1, <3>2 DEF Chained
  <2> QED
    BY <2>2, <2>3
<1> QED
  BY <1>1, <1>3, <1>4 DEF Lists

\* A request that is sent owns what its handler raised.
LEMMA OwnerSends ==
    ASSUME Types, Types', OwnerInv, table' = table, NEW o \in SoundOp, Send(o),
           UNCHANGED <<loads, shown>>, Raised' \subseteq Raised \cup Holds(o)
    PROVE  OwnerInv'
<1>1. Range(ops') = Range(ops) \cup {o}
  BY AppendRange DEF Send, Types
<1>2. ASSUME NEW f \in Raised' PROVE Owned(f)'
  <2>1. CASE f \in Holds(o)
    BY <1>1, <2>1 DEF Owned, Holds
  <2>2. CASE f \in Raised
    <3>1. Owned(f)
      BY <2>2 DEF OwnerInv, Owned
    <3> QED
      BY <1>1, <3>1, OwnedStays
  <2> QED
    BY <1>2, <2>1, <2>2
<1> QED
  BY <1>2 DEF OwnerInv, Owned

\* Dialogs, and the requests that they send.
LEMMA OwnerDialogs ==
    ASSUME Types, Types', OwnerInv, Mark \/ Ask \/ Agree \/ Dismiss, table' = table
    PROVE  OwnerInv'
<1>1. CASE Agree
  <2>1. PICK kind, flag : /\ Accept(kind, flag)
                          /\ \/ kind = "clear" /\ flag = "clear"
                             \/ kind = "purge" /\ flag = "bulk"
    BY <1>1 DEF Agree
  <2>2. /\ modal.op \in SoundOp /\ Send(modal.op) /\ busy' = busy \cup {flag}
        /\ UNCHANGED <<loads, shown, deleting>> /\ modal.op.kind = kind
    BY <2>1 DEF Accept, Types
  <2>3. Holds(modal.op) = {flag, "modal"}
    BY <2>1, <2>2 DEF Holds
  <2>4. Raised' \subseteq Raised \cup {flag, "modal"}
    BY <2>2 DEF Raised
  <2> QED
    BY <2>2, <2>3, <2>4, OwnerSends
<1>2. ASSUME UNCHANGED <<loads, ops, shown>>, Raised' \subseteq Raised PROVE OwnerInv'
  <2>1. ASSUME NEW f \in Raised' PROVE Owned(f)'
    <3>1. Owned(f)
      BY <1>2 DEF OwnerInv, Owned
    <3> QED
      BY <1>2, <3>1, OwnedStays
  <2> QED
    BY <1>2, <2>1 DEF OwnerInv, Owned
<1>3. CASE Mark
  BY <1>2, <1>3 DEF Mark, Sent, Raised
<1>4. CASE Ask
  <2>1. PICK kind, keys : Confirm(kind, keys)
    BY <1>4 DEF Ask
  <2>2. modal'.running = FALSE /\ UNCHANGED <<busy, deleting, loads, ops, shown>>
    BY <2>1 DEF Confirm
  <2> QED
    BY <1>2, <2>2 DEF Raised
<1>5. CASE Dismiss
  BY <1>2, <1>5 DEF Dismiss, Raised
<1> QED
  BY <1>1, <1>3, <1>4, <1>5

LEMMA OwnerStarts ==
    ASSUME Types, Types', OwnerInv, Starts, table' = table PROVE OwnerInv'
<1>1. ASSUME NEW kind, NEW keys \in SUBSET Keys, NEW todo, NEW g, Start1(kind, keys, todo, g),
             Op(kind, keys, todo, g) \in SoundOp,
             Raised' \subseteq Raised \cup Holds(Op(kind, keys, todo, g))
      PROVE  OwnerInv'
  BY <1>1, OwnerSends DEF Start1, Sent
<1>2. ASSUME NEW kind, NEW keys, NEW todo, NEW g
      PROVE  /\ Op(kind, keys, todo, g).kind = kind
             /\ kind = "add" => Holds(Op(kind, keys, todo, g)) = {"add"}
             /\ kind = "delete" => Holds(Op(kind, keys, todo, g)) =
                                   IF table \in Routes THEN {"deleting"} ELSE {"del"}
             /\ kind = "dropgroup" => Holds(Op(kind, keys, todo, g)) = {"del"}
             /\ kind = "regroup" => Holds(Op(kind, keys, todo, g)) = {"bulk"}
  <2>1. Op(kind, keys, todo, g).kind = kind
    BY DEF Op
  <2> QED
    BY <2>1 DEF Holds
<1>3. NullOr(groups) \subseteq Groups \cup {NoGroup} /\ selected \in SUBSET Keys
  BY DEF NullOr, Types
<1>4. ASSUME NEW keys \in Batches, NEW g \in NullOr(groups), StartAdd(keys, g) PROVE OwnerInv'
  <2>1. keys \in SUBSET Keys
    BY PagedTableAssumption
  <2>2. Op("add", keys, {0}, g) \in SoundOp
    BY <1>3, <2>1, OpSound
  <2>3. Raised' \subseteq Raised \cup {"add"}
    BY <1>4 DEF StartAdd, Start1, Raised
  <2> QED
    BY <1>1, <1>2, <1>4, <2>1, <2>2, <2>3 DEF StartAdd
<1>5. ASSUME NEW k \in Keys, NEW g \in NullOr(groups), StartPatch(k, g) PROVE OwnerInv'
  <2>1. Op("patch", {k}, {k}, g) \in SoundOp
    BY <1>3, OpSound
  <2>2. Raised' = Raised
    BY <1>5 DEF StartPatch, Start1, Raised
  <2> QED
    BY <1>1, <1>5, <2>1, <2>2 DEF StartPatch
<1>6. ASSUME NEW k \in Keys, StartRemoval(k) PROVE OwnerInv'
  <2>1. Op("delete", {k}, {k}, None) \in SoundOp
    BY OpSound
  <2>2. Raised' \subseteq Raised \cup {"deleting"} /\ table \in Routes
    BY <1>6 DEF StartRemoval, Start1, Raised
  <2> QED
    BY <1>1, <1>2, <1>6, <2>1, <2>2 DEF StartRemoval
<1>7. ASSUME NEW k \in Keys, StartDeletion(k) PROVE OwnerInv'
  <2>1. Op("delete", {k}, {k}, None) \in SoundOp
    BY OpSound
  <2>2. Raised' \subseteq Raised \cup {"del"} /\ table \notin Routes
    BY <1>7 DEF StartDeletion, Start1, Raised
  <2> QED
    BY <1>1, <1>2, <1>7, <2>1, <2>2 DEF StartDeletion
<1>8. ASSUME NEW g \in NullOr(groups), StartRegroup(g) PROVE OwnerInv'
  <2>1. Op("regroup", selected, selected, g) \in SoundOp
    BY <1>3, OpSound
  <2>2. Raised' \subseteq Raised \cup {"bulk"}
    BY <1>8 DEF StartRegroup, Start1, Raised
  <2> QED
    BY <1>1, <1>2, <1>3, <1>8, <2>1, <2>2 DEF StartRegroup
<1>9. ASSUME NEW g \in Groups, StartDropping(g) PROVE OwnerInv'
  <2>1. Op("dropgroup", {}, {0}, g) \in SoundOp
    BY OpSound
  <2>2. Raised' \subseteq Raised \cup {"del"}
    BY <1>9 DEF StartDropping, Start1, Raised
  <2> QED
    BY <1>1, <1>2, <1>9, <2>1, <2>2 DEF StartDropping
<1> QED
  BY <1>4, <1>5, <1>6, <1>7, <1>8, <1>9 DEF Starts

\* The lists that a handler asks for at its end.
LEMMA OneMore ==
    ASSUME loads \in Seq(LoadRecord), NEW l \in LoadRecord, loads' = loads \o <<l>>
    PROVE  Range(loads') = Range(loads) \cup {l} /\ Len(loads') = Len(loads) + 1
<1>1. ASSUME NEW ls \in Seq(LoadRecord), loads' = loads \o ls, Range(ls) = {l}, Len(ls) = 1
      PROVE  Range(loads') = Range(loads) \cup {l} /\ Len(loads') = Len(loads) + 1
  BY <1>1, GrownRange
<1>2. <<l>> \in Seq(LoadRecord) /\ Range(<<l>>) = {l} /\ Len(<<l>>) = 1
  BY OneRange
<1> QED
  BY <1>1, <1>2

LEMMA TurnsIs ==
    ASSUME Types, NEW o \in SoundOp, Turns(o)
    PROVE  /\ \E p \in Int : query' = [query EXCEPT !.page = p] /\ (o.q = query => p # query.page)
           /\ query' \in Query /\ loads' \in Seq(LoadRecord)
           /\ shown' \in Shown /\ shown'.rows = shown.rows /\ shown'.total = shown.total
           /\ \/ query' = query /\ loads' = loads /\ (shown'.loading <=> shown.loading)
              \/ query' # query /\ loads' = loads \o <<Load(query', {})>> /\ shown'.loading
<1>1. PICK p \in Int : \E q \in Query :
         /\ q = [query EXCEPT !.page = p] /\ (o.q = query => p # query.page)
         /\ MovesOrLoads(q, IF q = query THEN <<>> ELSE <<Load(q, {})>>)
  BY PageTo DEF Turns
<1>5. PICK q \in Query :
         /\ q = [query EXCEPT !.page = p] /\ (o.q = query => p # query.page)
         /\ MovesOrLoads(q, IF q = query THEN <<>> ELSE <<Load(q, {})>>)
  BY <1>1
<1>2. query' = q /\ q \in Query /\ loads' \in Seq(LoadRecord)
      /\ shown' \in Shown /\ shown'.rows = shown.rows /\ shown'.total = shown.total
  BY <1>5 DEF MovesOrLoads
<1>3. CASE q = query
  <2>1. loads' = loads \o <<>> /\ (shown'.loading <=> (shown.loading \/ <<>> # <<>>))
    BY <1>5, <1>3 DEF MovesOrLoads
  <2>2. loads \in Seq(LoadRecord)
    BY DEF Types
  <2>3. loads \o <<>> = loads
    BY <2>2
  <2> QED
    BY <1>5, <1>2, <1>3, <2>1, <2>3
<1>4. CASE q # query
  <2>1. /\ loads' = loads \o <<Load(q, {})>>
        /\ shown'.loading <=> (shown.loading \/ <<Load(q, {})>> # <<>>)
    BY <1>5, <1>4 DEF MovesOrLoads
  <2>2. <<Load(q, {})>> # <<>>
    OBVIOUS
  <2> QED
    BY <1>5, <1>2, <1>4, <2>1, <2>2
<1> QED
  BY <1>3, <1>4

LEMMA TwiceIs ==
    ASSUME Types, NEW o \in SoundOp, Twice(o)
    PROVE  /\ Range(loads') = Range(loads) \cup {Load(o.q, {"add"}), Load(query', {})}
           /\ Len(loads') = Len(loads) + 2
           /\ Load(o.q, {"add"}) \in LoadRecord /\ Load(query', {}) \in LoadRecord
<1>1. /\ o.q \in Query /\ query' \in Query /\ {} \in Frees /\ {"add"} \in Frees
      /\ loads \in Seq(LoadRecord)
  BY DEF Twice, SoundOp, OpRecord, Frees, Flags, Types
<1>2. Load(o.q, {"add"}) \in LoadRecord /\ Load(query', {}) \in LoadRecord
  BY <1>1, LoadTypes
<1>3. PICK l \in LoadRecord, m \in LoadRecord : l = Load(o.q, {"add"}) /\ m = Load(query', {})
  BY <1>2
<1>4. ASSUME NEW ls \in Seq(LoadRecord), NEW ms \in Seq(LoadRecord), loads' = loads \o (ls \o ms),
             Range(ls) = {l}, Range(ms) = {m}, Len(ls) = 1, Len(ms) = 1
      PROVE  Range(loads') = Range(loads) \cup {l, m} /\ Len(loads') = Len(loads) + 2
  <2>1. /\ ls \o ms \in Seq(LoadRecord) /\ Range(ls \o ms) = Range(ls) \cup Range(ms)
        /\ Len(ls \o ms) = Len(ls) + Len(ms)
    BY ConcatRange
  <2>2. PICK t \in Seq(LoadRecord) : t = ls \o ms
    BY <2>1
  <2>3. Range(loads') = Range(loads) \cup Range(t) /\ Len(loads') = Len(loads) + Len(t)
    BY <1>1, <1>4, <2>2, GrownRange
  <2> QED
    BY <1>1, <1>4, <2>1, <2>2, <2>3
<1>5. /\ <<l>> \in Seq(LoadRecord) /\ Range(<<l>>) = {l} /\ Len(<<l>>) = 1
      /\ <<m>> \in Seq(LoadRecord) /\ Range(<<m>>) = {m} /\ Len(<<m>>) = 1
  BY OneRange
<1>6. loads' = loads \o (<<l>> \o <<m>>)
  BY <1>3 DEF Twice
<1>7. Range(loads') = Range(loads) \cup {l, m} /\ Len(loads') = Len(loads) + 2
  BY <1>4, <1>5, <1>6
<1> QED
  BY <1>2, <1>3, <1>7

\* A handler that ends has reset what it held, or its list will.
LEMMA OwnerCloses ==
    ASSUME Types, OwnerInv, NEW i \in DOMAIN ops, EndsAs(i), table' = table
    PROVE  OwnerInv'
<1> DEFINE o == ops[i]
<1>1. o \in SoundOp /\ Close(i) /\ EndsOf(o) /\ ops \in Seq(SoundOp) /\ loads \in Seq(LoadRecord)
      /\ query \in Query /\ {} \in Frees /\ {"add"} \in Frees
  BY DEF EndsAs, Types, Frees, Flags
<1>2. /\ \A p \in Range(ops) : p # o => p \in Range(ops')
      /\ FlagsEnd(o)
  BY <1>1, RemoveAtRange DEF Close, EndsOf
<1> HIDE DEF o
<1>3. /\ Range(loads) \subseteq Range(loads')
      /\ shown'.loading => shown.loading \/ \E l \in Range(loads') : l.what = "rows"
      /\ \A l \in Range(loads') : l \in Range(loads) \/ (Chained(l) => table = "worker")
  <2>1. CASE Quits(o)
    BY <2>1 DEF Quits
  <2>2. CASE Patches(o)
    BY <2>2 DEF Patches, Patched, Types, Shown
  <2>3. CASE Turns(o)
    <3>1. /\ query' \in Query
          /\ shown'.loading => shown.loading \/ loads' # loads
          /\ \/ loads' = loads
             \/ loads' = loads \o <<Load(query', {})>>
      BY <1>1, <2>3, TurnsIs DEF Types
    <3>2. PICK q \in Query : q = query'
      BY <3>1
    <3>3. Load(q, {}) \in LoadRecord /\ Load(q, {}).what = "rows"
      BY <1>1, LoadTypes DEF Load
    <3>4. loads' = loads \o <<Load(q, {})>> => Range(loads') = Range(loads) \cup {Load(q, {})}
      BY <1>1, <3>3, OneMore
    <3> QED
      BY <3>1, <3>2, <3>3, <3>4 DEF Chained
  <2>4. CASE Reloads(o)
    <3>1. PICK l \in LoadRecord, s \in {shown, Patched(o.ok, o.group)} :
             LoadsOne(s, l) /\ (l.what = "rows" \/ (Chained(l) /\ table = "worker"))
      BY <2>4 DEF Reloads
    <3> QED
      <4>1. Range(loads') = Range(loads) \cup {l}
        BY <1>1, <3>1, OneMore DEF LoadsOne
      <4>2. s.loading = shown.loading
        BY DEF Patched, Types, Shown
      <4> QED
        BY <3>1, <4>1, <4>2 DEF LoadsOne, Chained
  <2>5. CASE Twice(o)
    <3>1. Load(o.q, {"add"}).what = "rows" /\ Load(query', {}).what = "rows"
      BY DEF Load
    <3> QED
      BY <1>1, <2>5, <3>1, TwiceIs DEF Chained
  <2> QED
    BY <1>1, <2>1, <2>2, <2>3, <2>4, <2>5 DEF EndsOf
<1>4. ASSUME NEW f \in Raised' PROVE Owned(f)'
  <2>1. CASE f \in Holds(o)
    BY <1>2, <2>1 DEF FlagsEnd, Owned
  <2>2. CASE f \notin Holds(o)
    <3>1. Owned(f)
      BY <1>2 DEF FlagsEnd, OwnerInv, Owned
    <3>2. ASSUME NEW p \in Range(ops), f \in Holds(p) PROVE Owned(f)'
      BY <1>2, <2>2, <3>2 DEF Owned, Holds
    <3> QED
      BY <1>3, <3>1, <3>2 DEF Owned
  <2> QED
    BY <2>1, <2>2
<1> QED
  BY <1>3, <1>4 DEF OwnerInv, Owned

LEMMA OwnerStep == Types /\ Types' /\ OwnerInv /\ [Next]_vars => OwnerInv'
<1> SUFFICES ASSUME Types, Types', OwnerInv, [Next]_vars PROVE OwnerInv'
  OBVIOUS
<1>1. CASE UNCHANGED vars
  BY <1>1 DEF vars, dialogs, OwnerInv, Raised, Holds, Chained
<1>2. CASE Next
  <2>1. Step /\ table' = table
    BY <1>2, NextIsStep DEF Types, Watch
  <2>2. CASE BackendNext
    BY <2>1, <2>2, OwnerBackend
  <2>3. CASE Browse
    BY <2>1, <2>3, BrowseDoes, OwnerBrowse
  <2>4. CASE Mark \/ Ask \/ Agree \/ Dismiss
    BY <2>1, <2>4, OwnerDialogs
  <2>5. CASE Starts
    BY <2>1, <2>5, OwnerStarts
  <2>6. ASSUME NEW i \in DOMAIN loads, Lists(i) PROVE OwnerInv'
    BY <2>1, <2>6, OwnerLists
  <2>7. ASSUME NEW i \in DOMAIN ops, Closes(i) PROVE OwnerInv'
    BY <2>1, <2>7, CloseEnds, OwnerCloses
  <2> QED
    BY <2>1, <2>2, <2>3, <2>4, <2>5, <2>6, <2>7 DEF Step
<1> QED
  BY <1>1, <1>2

\* Once every request has been answered, or has failed, no button is left
\* loading, no spinner and no dialog covers the page: whoever raises a flag has a
\* request in flight that takes it down, on every way out of its handler.
THEOREM NothingLeftBusySafe == Spec => []NothingLeftBusy
<1>1. Init => Types /\ OwnerInv
  BY TypesInit, OwnerInit
<1>2. Types /\ OwnerInv /\ [Next]_vars => Types' /\ OwnerInv'
  BY TypesStep, OwnerStep
<1>3. Types /\ OwnerInv => NothingLeftBusy
  <2> SUFFICES ASSUME Types, OwnerInv, Settled PROVE NothingLeftBusy
    BY DEF NothingLeftBusy
  <2>1. Range(ops) = {} /\ Range(loads) = {}
    BY DEF Settled, Range
  <2>2. Raised = {} /\ ~shown.loading
    BY <2>1 DEF OwnerInv
  <2> QED
    BY <2>2 DEF Raised, NothingLeftBusy
<1> QED
  BY <1>1, <1>2, <1>3, PTL DEF Spec

-----------------------------------------------------------------------------
(* FailedStaySelected.                                                     *)

\* What the end of a handler leaves selected.
LEMMA CloseKeepsFailed ==
    ASSUME Types, NEW i \in DOMAIN ops, Closes(i),
           ops[i].kind = "purge" \/ (ops[i].kind = "regroup" /\ table = "worker")
    PROVE  ops[i].bad \cap selected \subseteq selected'
<1> DEFINE o == ops[i]
<1>0. o.ok \cap o.bad = {}
  BY DEF Types, SoundOp
<1>1. CASE table \in Routes /\ SelectedDeleted(i)
  BY <1>1 DEF SelectedDeleted
<1>2. CASE groupUpdated(i) \/ workersPurged(i)
  BY <1>0, <1>2 DEF groupUpdated, workersPurged
<1>3. CASE bulkRemoved(i)
  BY <1>3 DEF bulkRemoved
<1>4. CASE table \in Routes /\ SelectedChanged(i)
  BY <1>4 DEF SelectedChanged, Answered, Routes
<1>5. CASE \/ domainsAdded(i) \/ cidrsAdded(i) \/ cidrsCleared(i)
           \/ Removed(i) \/ groupRemoved(i) \/ workerRemoved(i)
           \/ GroupChanged(i) \/ removed(i) \/ userRemoved(i)
  BY <1>5 DEF domainsAdded, cidrsAdded, cidrsCleared, Removed, groupRemoved, workerRemoved,
     GroupChanged, removed, userRemoved, Answered
<1> QED
  BY <1>1, <1>2, <1>3, <1>4, <1>5 DEF Closes, RouteCloses, WorkerCloses

\* Only the end of a handler takes a request out of ops.
LEMMA OnlyClosesShrink ==
    ASSUME Types, Step, Len(ops') < Len(ops), table' = table
    PROVE  \E i \in DOMAIN ops : Closes(i)
<1>1. ops \in Seq(SoundOp) /\ Len(ops) \in Nat
  BY DEF Types
<1>2. \A o : Send(o) => Len(ops') = Len(ops) + 1
  BY <1>1 DEF Send
<1>3. ~BackendNext
  <2>1. ASSUME NEW i \in DOMAIN loads, AnswerLoad(i) \/ FailLoad(i) PROVE FALSE
    BY <1>1, <2>1 DEF AnswerLoad, FailLoad
  <2>2. ASSUME NEW i \in DOMAIN ops, NEW k \in ops[i].todo, Serve(i, k) \/ Lose(i, k)
        PROVE  FALSE
    <3>1. Len(ops') = Len(ops)
      BY <1>1, <2>2, ServeIs, LoseIs DEF AnswersKey
    <3> QED
      BY <1>1, <3>1
  <2>3. ASSUME NEW k \in Keys, NEW v \in Values, Another(k, v) PROVE FALSE
    BY <1>1, <2>3 DEF Another
  <2> QED
    BY <2>1, <2>2, <2>3 DEF BackendNext
<1>4. ~Browse
  <2>1. Browse => ops' = ops
    BY BrowseDoes DEF BrowseIs
  <2> QED
    BY <1>1, <2>1
<1>5. ~(Mark \/ Ask \/ Agree \/ Dismiss)
  <2>1. Mark \/ Ask \/ Dismiss => ops' = ops
    BY DEF Mark, Ask, Dismiss, Confirm
  <2>2. Agree => Len(ops') = Len(ops) + 1
    BY <1>2 DEF Agree, Accept
  <2> QED
    BY <1>1, <2>1, <2>2
<1>6. ~Starts
  <2>1. Starts => Len(ops') = Len(ops) + 1
    BY <1>2 DEF Starts, StartAdd, StartPatch, StartRemoval, StartDeletion, StartRegroup,
       StartDropping, Start1
  <2> QED
    BY <1>1, <2>1
<1>7. \A i \in DOMAIN loads : ~Lists(i)
  <2>1. \A i \in DOMAIN loads : Lists(i) => ops' = ops
    BY DEF Lists, LoadDone, loadGroups, loadWorkerGroups, GroupsDone
  <2> QED
    BY <1>1, <2>1
<1> QED
  BY <1>3, <1>4, <1>5, <1>6, <1>7 DEF Step

LEMMA FailedStaySelectedStep ==
    ASSUME Types, Next, NEW j \in DOMAIN ops, Len(ops') < Len(ops), ops[j] \notin Range(ops'),
           ops[j].kind = "purge" \/ (ops[j].kind = "regroup" /\ table = "worker")
    PROVE  ops[j].bad \cap selected \subseteq selected'
<1>1. Step /\ table' = table /\ ops \in Seq(SoundOp)
  BY NextIsStep DEF Types, Watch
<1>2. PICK i \in DOMAIN ops : Closes(i)
  BY <1>1, OnlyClosesShrink
<1>3. ops' = RemoveAt(ops, i)
  BY <1>1, <1>2, CloseEnds DEF EndsAs, Close
<1>4. ops[j] = ops[i]
  <2>1. ops[j] \in Range(ops)
    BY DEF Range
  <2> QED
    BY <1>1, <1>3, <2>1, RemoveAtRange
<1> QED
  BY <1>2, <1>4, CloseKeepsFailed

\* A bulk change that ends takes no row out of the selection whose request
\* failed, so that the administrator can try again with what is still ticked.
THEOREM FailedStaySelectedSafe == Spec => FailedStaySelected
<1> DEFINE Kept == \A i \in DOMAIN ops :
                     /\ Len(ops') < Len(ops) /\ ops[i] \notin Range(ops')
                     /\ ops[i].kind = "purge" \/ (ops[i].kind = "regroup" /\ table = "worker")
                     => ops[i].bad \cap selected \subseteq selected'
<1>1. Init => Types
  BY TypesInit
<1>2. Types /\ [Next]_vars => Types'
  BY TypesStep
<1>3. Types /\ [Next]_vars => [Kept]_vars
  BY FailedStaySelectedStep
<1>4. Spec => [][Kept]_vars
  BY <1>1, <1>2, <1>3, PTL DEF Spec
<1> QED
  BY <1>4 DEF FailedStaySelected

-----------------------------------------------------------------------------
(* One request at a time, as long as nothing overlaps.                     *)

\* The half of CalmInv that is not what overlap records.
Renders ==
    ~overlap => /\ \A o \in Range(ops) : SameRender(o)
                /\ Asking => SameRender(modal.op)

\* ... and the half that is.
Alone ==
    ~overlap =>
        /\ ops # <<>> \/ (\E i \in DOMAIN loads : Chained(loads[i])) =>
               Len(ops) + Len(loads) <= 1
        /\ Asking => loads = <<>>

LEMMA CalmParts == CalmInv <=> Alone /\ Renders
BY DEF CalmInv, Alone, Renders

LEMMA WatchCalm ==
    ASSUME Types', Watch PROVE Alone' /\ (overlap => overlap')
<1>1. loads' \in Seq(LoadRecord) /\ ops' \in Seq(SoundOp)
  BY DEF Types
<1>2. Len(ops') + Len(loads') \in Nat
  BY <1>1
<1>3. overlap => overlap'
  BY DEF Watch
<1>4. SUFFICES ASSUME ~overlap' PROVE Alone'
  BY <1>3 DEF Alone
<1>5. ops' # <<>> \/ (\E i \in DOMAIN loads' : Chained(loads'[i])) => ~(Len(ops') + Len(loads') > 1)
  BY <1>4 DEF Watch
<1>6. Asking' => loads' = <<>>
  BY <1>4 DEF Watch, Asking
<1>7. Chained(loads[1])' <=> Chained(loads'[1])
  BY DEF Chained
<1> QED
  BY <1>2, <1>5, <1>6 DEF Alone, Chained

LEMMA CalmInit == Init => CalmInv
<1> SUFFICES ASSUME Init PROVE CalmInv
  OBVIOUS
<1>1. TableInit
  BY DEF Init, RoutesInit, WorkersInit, ProxiesInit, UsersInit
<1>2. loads = <<Load(query, {})>> /\ ops = <<>> /\ modal = None
  BY <1>1 DEF TableInit
<1>3. Range(ops) = {} /\ Len(ops) = 0 /\ ~Asking
  BY <1>2 DEF Range, Asking
<1>4. \A i \in DOMAIN loads : ~Chained(loads[i])
  BY <1>2 DEF Load, Chained
<1> QED
  BY <1>2, <1>3, <1>4 DEF CalmInv

\* With a request in flight that changes something there is nothing else.
LEMMA SoleRequest ==
    ASSUME Types, CalmInv, ~overlap, NEW i \in DOMAIN ops
    PROVE  /\ i = 1 /\ Len(ops) = 1 /\ loads = <<>> /\ Range(ops) = {ops[i]}
           /\ SameRender(ops[i]) /\ RemoveAt(ops, i) = <<>>
<1>1. /\ ops \in Seq(SoundOp) /\ loads \in Seq(LoadRecord)
      /\ Len(ops) \in Nat /\ Len(loads) \in Nat /\ i \in 1 .. Len(ops)
  BY DEF Types
<1>2. Len(ops) + Len(loads) <= 1
  <2>1. ops # <<>>
    OBVIOUS
  <2> QED
    BY <2>1 DEF CalmInv
<1>3. Len(ops) = 1 /\ Len(loads) = 0 /\ i = 1
  <2>1. \A m, n \in Nat : m + n <= 1 /\ i \in 1 .. m => m = 1 /\ n = 0 /\ i = 1
    OBVIOUS
  <2> QED
    BY <1>1, <1>2, <2>1
<1>4. loads = <<>> /\ Range(ops) = {ops[i]}
  BY <1>1, <1>3 DEF Range
<1>5. RemoveAt(ops, i) \in Seq(SoundOp) /\ Len(RemoveAt(ops, i)) = Len(ops) - 1
  BY <1>1, RemoveAtIs
<1>6. RemoveAt(ops, i) = <<>>
  BY <1>3, <1>5
<1> QED
  BY <1>3, <1>4, <1>6 DEF CalmInv

\* With a list in flight nothing is changed and nothing is asked.
LEMMA NoRequest ==
    ASSUME Types, CalmInv, ~overlap, loads # <<>> PROVE ops = <<>> /\ ~Asking /\ Range(ops) = {}
<1>1. ops \in Seq(SoundOp) /\ loads \in Seq(LoadRecord) /\ Len(ops) \in Nat /\ Len(loads) \in Nat
  BY DEF Types
<1>2. Len(loads) > 0 /\ (ops # <<>> => Len(ops) > 0)
  BY <1>1
<1>3. ops = <<>>
  BY <1>1, <1>2 DEF CalmInv
<1> QED
  BY <1>3 DEF CalmInv, Range

LEMMA RendersStay ==
    ASSUME Types, CalmInv, overlap => overlap', UNCHANGED <<query, shown>>,
           \A p \in Range(ops') :
             \/ \E o \in Range(ops) : p.q = o.q /\ p.n = o.n /\ p.total = o.total
             \/ Asking /\ p = modal.op
             \/ p.q = query /\ p.n = Cardinality(RowKeys) /\ p.total = shown.total,
           Asking' => \/ Asking /\ modal'.op = modal.op
                      \/ LET o == modal'.op
                         IN  o.q = query /\ o.n = Cardinality(RowKeys) /\ o.total = shown.total
    PROVE  Renders'
<1>1. RowKeys' = RowKeys
  BY DEF RowKeys
<1> SUFFICES ASSUME ~overlap, ~overlap' PROVE Renders'
  BY DEF Renders
<1>2. ASSUME NEW p \in Range(ops') PROVE SameRender(p)'
  BY <1>1 DEF CalmInv, SameRender
<1>3. Asking' => SameRender(modal.op)'
  BY <1>1 DEF CalmInv, SameRender
<1> QED
  BY <1>2, <1>3 DEF Renders

\* What a new request carries along.
LEMMA OpRender ==
    ASSUME NEW kind, NEW keys, NEW todo, NEW g
    PROVE  LET o == Op(kind, keys, todo, g)
           IN  /\ o.q = query /\ o.n = Cardinality(RowKeys) /\ o.total = shown.total
               /\ o.kind = kind /\ o.keys = keys /\ o.todo = todo /\ o.group = g
               /\ o.ok = {} /\ o.bad = {}
BY DEF Op

LEMMA RendersBackend ==
    ASSUME Types, CalmInv, BackendNext, overlap => overlap' PROVE Renders'
<1>0. ops \in Seq(SoundOp)
  BY DEF Types
<1>1. UNCHANGED <<query, shown, modal>>
  BY DEF BackendNext, AnswerLoad, FailLoad, Serve, Lose, Another, asked, dialogs
<1>2. \A p \in Range(ops') : \E o \in Range(ops) : p.q = o.q /\ p.n = o.n /\ p.total = o.total
  <2>1. ASSUME NEW i \in DOMAIN ops, NEW k \in ops[i].todo, Serve(i, k) \/ Lose(i, k)
        PROVE  DOMAIN ops' = DOMAIN ops /\ \A j \in DOMAIN ops :
                 ops'[j].q = ops[j].q /\ ops'[j].n = ops[j].n /\ ops'[j].total = ops[j].total
    BY <2>1, ServeIs, LoseIs DEF AnswersKey
  <2>2. CASE ops' = ops
    BY <2>2
  <2>3. CASE ops' # ops
    <3>1. \E i \in DOMAIN ops : \E k \in ops[i].todo : Serve(i, k) \/ Lose(i, k)
      BY <2>3 DEF BackendNext, AnswerLoad, FailLoad, Another
    <3> QED
      BY <2>1, <3>1 DEF Range
  <2> QED
    BY <2>2, <2>3
<1> QED
  BY <1>1, <1>2, RendersStay DEF Asking

LEMMA RendersBrowse ==
    ASSUME Types, Types', CalmInv, BrowseIs, overlap => overlap', Alone' PROVE Renders'
<1> SUFFICES ASSUME ~overlap, ~overlap' PROVE Renders'
  BY DEF Renders
<1>1. /\ ops' = ops /\ modal' = modal /\ shown'.rows = shown.rows /\ shown'.total = shown.total
  BY DEF BrowseIs, dialogs
<1>2. RowKeys' = RowKeys
  BY <1>1 DEF RowKeys
<1>3. CASE query' = query
  BY <1>1, <1>2, <1>3 DEF CalmInv, Renders, SameRender, Asking
<1>4. CASE query' # query
  <2>1. PICK q \in Query : q = query'
    BY DEF BrowseIs
  <2>2. loads' = loads \o <<Load(q, {})>>
    BY <1>4, <2>1 DEF BrowseIs
  <2>3. Len(loads') = Len(loads) + 1 /\ Len(loads) \in Nat
    <3>1. loads \in Seq(LoadRecord) /\ Load(q, {}) \in LoadRecord
      BY LoadTypes DEF Types, Frees
    <3> QED
      BY <2>2, <3>1, OneMore
  <2>4. loads' # <<>> /\ loads' \in Seq(LoadRecord) /\ ops' \in Seq(SoundOp)
    BY <2>3 DEF Types
  <2>5. Len(loads') > 0 /\ Len(loads') \in Nat /\ Len(ops') \in Nat
        /\ (ops' # <<>> => Len(ops') > 0)
    BY <2>3, <2>4
  <2>6. ops' = <<>> /\ ~Asking'
    BY <2>4, <2>5 DEF Alone
  <2> QED
    BY <2>6 DEF Renders, Range
<1> QED
  BY <1>3, <1>4

LEMMA RendersDialogs ==
    ASSUME Types, Types', CalmInv, Mark \/ Ask \/ Agree \/ Dismiss, overlap => overlap'
    PROVE  Renders'
<1>1. CASE Mark \/ Dismiss
  <2>1. UNCHANGED <<query, shown, ops>> /\ (Asking' => Asking /\ modal' = modal)
    BY <1>1 DEF Mark, Dismiss, Sent, asked, Asking
  <2> QED
    BY <2>1, RendersStay
<1>2. CASE Ask
  <2>1. PICK kind, keys : Confirm(kind, keys)
    BY <1>2 DEF Ask
  <2>2. PICK o : o = Op(kind, keys, IF kind = "clear" THEN {0} ELSE keys, None)
    OBVIOUS
  <2>3. modal'.op = o /\ UNCHANGED <<query, shown, ops>>
    BY <2>1, <2>2 DEF Confirm, asked
  <2>4. o.q = query /\ o.n = Cardinality(RowKeys) /\ o.total = shown.total
    BY <2>2, OpRender
  <2> QED
    BY <2>3, <2>4, RendersStay
<1>3. CASE Agree
  <2>1. PICK kind, flag : Accept(kind, flag)
    BY <1>3 DEF Agree
  <2>2. /\ modal.op \in SoundOp /\ Send(modal.op) /\ UNCHANGED <<query, shown>> /\ Asking
        /\ modal' = [modal EXCEPT !.running = TRUE]
    BY <2>1 DEF Accept, Types, asked, Asking
  <2>3. ~Asking'
    <3>1. modal \in [op : SoundOp, running : BOOLEAN]
      BY <2>2 DEF Types, Asking
    <3> QED
      BY <2>2, <3>1 DEF Asking
  <2>4. Range(ops') = Range(ops) \cup {modal.op}
    BY <2>2, AppendRange DEF Types, Send
  <2> QED
    BY <2>2, <2>3, <2>4, RendersStay
<1> QED
  BY <1>1, <1>2, <1>3

LEMMA RendersStarts ==
    ASSUME Types, Types', CalmInv, Starts, overlap => overlap' PROVE Renders'
<1>1. PICK kind, keys, todo, g : Start1(kind, keys, todo, g)
  BY DEF Starts, StartAdd, StartPatch, StartRemoval, StartDeletion, StartRegroup, StartDropping
<1>2. PICK o : o = Op(kind, keys, todo, g)
  OBVIOUS
<1>3. Send(o) /\ UNCHANGED <<query, shown, modal>>
  BY <1>1, <1>2 DEF Start1, Sent, asked
<1>4. o.q = query /\ o.n = Cardinality(RowKeys) /\ o.total = shown.total
  BY <1>2, OpRender
<1>5. \A p \in Range(ops') : p \in Range(ops) \/ p = o
  <2>1. ops \in Seq(SoundOp) /\ ops' = Append(ops, o)
    BY <1>3 DEF Types, Send
  <2>2. /\ DOMAIN ops' = 1 .. Len(ops) + 1 /\ DOMAIN ops = 1 .. Len(ops)
        /\ \A j \in 1 .. Len(ops) : ops'[j] = ops[j]
        /\ ops'[Len(ops) + 1] = o /\ Len(ops) \in Nat
    BY <2>1
  <2>3. \A j \in 1 .. Len(ops) + 1 : j = Len(ops) + 1 \/ j \in 1 .. Len(ops)
    BY <2>2
  <2> QED
    BY <2>2, <2>3 DEF Range
<1> QED
  BY <1>3, <1>4, <1>5, RendersStay DEF Asking

LEMMA RendersLists ==
    ASSUME Types, CalmInv, NEW i \in DOMAIN loads, Lists(i), overlap => overlap'
    PROVE  Renders'
<1> SUFFICES ASSUME ~overlap, ~overlap' PROVE Renders'
  BY DEF Renders
<1>1. loads # <<>>
  OBVIOUS
<1>2. Range(ops) = {} /\ ~Asking /\ ops = <<>>
  BY <1>1, NoRequest
<1>3. ops' = ops /\ (Asking' => Asking)
  BY DEF Lists, LoadDone, loadGroups, loadWorkerGroups, GroupsDone, Release, dialogs, Asking
<1> QED
  BY <1>2, <1>3 DEF Renders, Range

\* Rows that are patched in place are the rows that were on show.
LEMMA PatchedRows ==
    ASSUME shown \in Shown, NEW keys, NEW g \in Groups \cup {NoGroup}
    PROVE  LET p == Patched(keys, g)
           IN  /\ p \in Shown /\ p.total = shown.total /\ p.loading = shown.loading
               /\ \A k \in Keys : /\ p.rows[k] # Absent <=> k \in RowKeys
                                  /\ k \notin keys => p.rows[k] = shown.rows[k]
                                  /\ k \in keys /\ k \in RowKeys => p.rows[k] = g
<1> DEFINE r == [k \in Keys |-> IF k \in keys /\ shown.rows[k] # Absent THEN g ELSE shown.rows[k]]
           p == Patched(keys, g)
<1>1. p = [shown EXCEPT !.rows = r]
  BY DEF Patched
<1>2. r \in [Keys -> Values] /\ g # Absent
  BY AbsentApart DEF Shown, Values
<1>3. \A k \in Keys : r[k] = IF k \in keys /\ shown.rows[k] # Absent THEN g ELSE shown.rows[k]
  OBVIOUS
<1> HIDE DEF r
<1>4. p \in Shown /\ p.rows = r /\ p.total = shown.total /\ p.loading = shown.loading
  BY <1>1, <1>2 DEF Shown
<1> HIDE DEF p
<1>5. \A k \in Keys : /\ p.rows[k] # Absent <=> k \in RowKeys
                      /\ k \notin keys => p.rows[k] = shown.rows[k]
                      /\ k \in keys /\ k \in RowKeys => p.rows[k] = g
  BY <1>2, <1>3, <1>4 DEF RowKeys
<1> QED
  BY <1>4, <1>5 DEF p

LEMMA RendersCloses ==
    ASSUME Types, Types', CalmInv, NEW i \in DOMAIN ops, EndsAs(i), overlap => overlap', Alone'
    PROVE  Renders'
<1> SUFFICES ASSUME ~overlap, ~overlap' PROVE Renders'
  BY DEF Renders
<1> DEFINE o == ops[i]
<1>1. /\ ops' = RemoveAt(ops, i) /\ EndsOf(o) /\ o \in SoundOp
      /\ modal' \in {modal, None}
  BY DEF EndsAs, EndsOf, Close
<1>2. loads = <<>> /\ SameRender(o) /\ RemoveAt(ops, i) = <<>>
  BY SoleRequest
<1> HIDE DEF o
<1>3. ops' = <<>> /\ (Asking' => Asking /\ modal' = modal)
  BY <1>1, <1>2 DEF Asking
<1>4. SUFFICES ASSUME Asking' PROVE SameRender(modal.op)'
  BY <1>3 DEF Renders, Range
<1>5. loads' = <<>> /\ SameRender(modal.op) /\ modal' = modal
  BY <1>3, <1>4 DEF Alone, CalmInv
<1>a. \A x : <<>> \o <<x>> # <<>>
  OBVIOUS
<1>6. CASE Quits(o)
  BY <1>5, <1>6 DEF Quits, SameRender, RowKeys
<1>7. CASE Patches(o)
  <2>1. o.group \in Groups \cup {NoGroup} /\ shown \in Shown
    BY <1>1, <1>7 DEF Patches, SoundOp, Types
  <2>2. shown' = Patched(o.ok, o.group) /\ query' = query
    BY <1>7 DEF Patches
  <2>3. shown'.total = shown.total /\ \A k \in Keys : shown'.rows[k] # Absent <=> k \in RowKeys
    BY <2>1, <2>2, PatchedRows
  <2>4. RowKeys' = RowKeys
    BY <2>3 DEF RowKeys
  <2> QED
    BY <1>5, <2>2, <2>3, <2>4 DEF SameRender
<1>8. CASE Turns(o)
  <2>1. query' = query /\ shown'.rows = shown.rows /\ shown'.total = shown.total
    BY <1>1, <1>2, <1>5, <1>8, <1>a, TurnsIs
  <2> QED
    BY <1>5, <2>1 DEF SameRender, RowKeys
<1>9. CASE Reloads(o)
  BY <1>2, <1>5, <1>9, <1>a DEF Reloads, LoadsOne
<1>10. CASE Twice(o)
  BY <1>2, <1>10 DEF Twice, SameRender
<1> QED
  BY <1>1, <1>6, <1>7, <1>8, <1>9, <1>10 DEF EndsOf

LEMMA CalmStep == Types /\ Types' /\ CalmInv /\ [Next]_vars => CalmInv'
<1> SUFFICES ASSUME Types, Types', CalmInv, [Next]_vars PROVE CalmInv'
  OBVIOUS
<1>1. CASE UNCHANGED vars
  BY <1>1 DEF vars, dialogs, asked, CalmInv, Chained, Asking, SameRender, RowKeys
<1>2. CASE Next
  <2>1. Step /\ Watch /\ table' = table
    BY <1>2, NextIsStep DEF Types, Watch
  <2>2. Alone' /\ (overlap => overlap')
    BY <2>1, WatchCalm
  <2>3. SUFFICES Renders'
    BY <2>2 DEF CalmInv, Alone, Renders
  <2>4. CASE BackendNext
    BY <2>2, <2>4, RendersBackend
  <2>5. CASE Browse
    BY <2>1, <2>2, <2>5, BrowseDoes, RendersBrowse
  <2>6. CASE Mark \/ Ask \/ Agree \/ Dismiss
    BY <2>2, <2>6, RendersDialogs
  <2>7. CASE Starts
    BY <2>2, <2>7, RendersStarts
  <2>8. ASSUME NEW i \in DOMAIN loads, Lists(i) PROVE Renders'
    BY <2>2, <2>8, RendersLists
  <2>9. ASSUME NEW i \in DOMAIN ops, Closes(i) PROVE Renders'
    BY <2>1, <2>2, <2>9, CloseEnds, RendersCloses
  <2> QED
    BY <2>1, <2>4, <2>5, <2>6, <2>7, <2>8, <2>9 DEF Step
<1> QED
  BY <1>1, <1>2

-----------------------------------------------------------------------------
(* Where a handler turns the page.                                         *)

\* The last page, from what the render of the handler knew.
LastOf(o) ==
    LET left == o.total - Cardinality(o.ok)
    IN  LastPage(IF left < 0 THEN 0 ELSE left, o.q.size)

\* The end of the handler of o, by the page.
TurnsTo(o) ==
    \/ query' = query
    \/ /\ o.kind = "add" /\ query' = [query EXCEPT !.page = 1]
    \/ /\ o.kind = "delete" /\ table \in Routes /\ o.ok # {} /\ o.n = 1 /\ o.q.page > 1
       /\ query' = [query EXCEPT !.page = query.page - 1]
    \/ /\ \/ o.kind = "purge" /\ table \in {"worker", "proxy"}
          \/ o.kind = "delete" /\ table = "proxy" /\ o.ok # {}
       /\ o.q.page > LastOf(o) /\ query' = [query EXCEPT !.page = LastOf(o)]

LEMMA CloseTurns ==
    ASSUME Types, NEW i \in DOMAIN ops, Closes(i) PROVE TurnsTo(ops[i])
<1> DEFINE o == ops[i]
<1>1. CASE \/ domainsAdded(i) \/ cidrsAdded(i)
  BY <1>1 DEF domainsAdded, cidrsAdded, FirstPage, MoveTo, Reload, Answered, TurnsTo
<1>2. CASE cidrsCleared(i)
  <2>1. o.ok = {}
    BY <1>2 DEF cidrsCleared, Answered, Types, SoundOp
  <2> QED
    BY <1>2, <2>1 DEF cidrsCleared, TurnsTo
<1>3. CASE table \in Routes /\ Removed(i)
  <2>1. o.kind = "delete" /\ Answered(i, "delete")
    BY <1>3 DEF Removed, Answered
  <2>2. CASE o.ok = {}
    BY <1>3, <2>2 DEF Removed, TurnsTo
  <2>3. CASE o.ok # {} /\ o.n = 1 /\ o.q.page > 1
    BY <1>3, <2>1, <2>3 DEF Removed, MoveTo, TurnsTo
  <2>4. CASE o.ok # {} /\ ~(o.n = 1 /\ o.q.page > 1)
    BY <1>3, <2>4 DEF Removed, Reload, TurnsTo
  <2> QED
    BY <2>2, <2>3, <2>4
<1>4. CASE \/ table \in Routes /\ (SelectedChanged(i) \/ SelectedDeleted(i))
           \/ groupRemoved(i) \/ workerRemoved(i) \/ groupUpdated(i)
           \/ GroupChanged(i) \/ userRemoved(i)
  BY <1>4 DEF SelectedChanged, SelectedDeleted, groupRemoved, workerRemoved, groupUpdated,
     GroupChanged, userRemoved, TurnsTo
<1>5. ASSUME NEW frees, Correct(o, LastOf(o), frees),
             \/ o.kind = "purge" /\ table \in {"worker", "proxy"}
             \/ o.kind = "delete" /\ table = "proxy" /\ o.ok # {}
      PROVE  TurnsTo(o)
  <2>1. CASE o.q.page > LastOf(o)
    BY <1>5, <2>1 DEF Correct, MoveTo, TurnsTo
  <2>2. CASE ~(o.q.page > LastOf(o))
    BY <1>5, <2>2 DEF Correct, Reload, TurnsTo
  <2> QED
    BY <2>1, <2>2
<1>6. CASE workersPurged(i)
  BY <1>5, <1>6 DEF workersPurged, Answered, IsWorkers, LastOf
<1>7. CASE bulkRemoved(i)
  BY <1>5, <1>7 DEF bulkRemoved, Answered, IsProxies, MaxPage, LastOf
<1>8. CASE removed(i)
  <2>1. o.kind = "delete" /\ table = "proxy"
    BY <1>8 DEF removed, Answered, IsProxies
  <2>2. CASE o.ok = {}
    BY <1>8, <2>2 DEF removed, TurnsTo
  <2>3. CASE o.ok # {} /\ o.q.page > LastOf(o)
    BY <1>8, <2>1, <2>3 DEF removed, MaxPage, LastOf, MoveTo, TurnsTo
  <2>4. CASE o.ok # {} /\ ~(o.q.page > LastOf(o))
    BY <1>8, <2>4 DEF removed, MaxPage, LastOf, TurnsTo
  <2> QED
    BY <2>2, <2>3, <2>4
<1> QED
  BY <1>1, <1>2, <1>3, <1>4, <1>6, <1>7, <1>8 DEF Closes, RouteCloses, WorkerCloses

LEMMA PageInit == Init => PagePositive
<1>1. Init => TableInit
  BY DEF Init, RoutesInit, WorkersInit, ProxiesInit, UsersInit
<1>2. TableInit => query.page = 1
  BY DEF TableInit
<1> QED
  BY <1>1, <1>2 DEF PagePositive

LEMMA PageStep == Types /\ Types' /\ CalmInv /\ PagePositive /\ [Next]_vars => PagePositive'
<1> SUFFICES ASSUME Types, Types', CalmInv, PagePositive, [Next]_vars PROVE PagePositive'
  OBVIOUS
<1>1. CASE UNCHANGED vars
  BY <1>1 DEF vars, asked, PagePositive
<1>2. CASE Next
  <2>1. Step /\ Watch /\ table' = table /\ (overlap => overlap') /\ query \in Query
    BY <1>2, NextIsStep DEF Types, Watch
  <2>2. CASE query' = query
    BY <2>1, <2>2 DEF PagePositive
  <2>3. CASE query' # query
    <3>1. CASE BackendNext
      BY <2>3, <3>1 DEF BackendNext, AnswerLoad, FailLoad, Serve, Lose, Another, asked
    <3>2. CASE Browse
      <4>1. /\ query'.page \in Int
            /\ query'.page = 1 \/ query'.page \in 1 .. LastPage(shown.total, query.size)
        BY <2>1, <2>3, <3>2, BrowseDoes DEF BrowseIs, Query
      <4> QED
        BY <4>1 DEF PagePositive
    <3>3. CASE Mark \/ Ask \/ Agree \/ Dismiss
      BY <2>3, <3>3 DEF Mark, Sent, Ask, Confirm, Agree, Accept, Dismiss, asked
    <3>4. CASE Starts
      <4>1. Sent
        BY <3>4 DEF Starts, StartAdd, StartPatch, StartRemoval, StartDeletion, StartRegroup,
           StartDropping, Start1
      <4> QED
        BY <2>3, <4>1 DEF Sent, asked
    <3>5. ASSUME NEW i \in DOMAIN loads, Lists(i) PROVE FALSE
      BY <2>3, <3>5 DEF Lists, LoadDone, loadGroups, loadWorkerGroups, GroupsDone, asked
    <3>6. ASSUME NEW i \in DOMAIN ops, Closes(i) PROVE PagePositive'
      <4> DEFINE o == ops[i]
      <4>1. o \in SoundOp /\ TurnsTo(o) /\ LastOf(o) \in Nat \ {0}
        BY <3>6, CloseTurns, LastFor DEF Types, LastOf
      <4>2. ~overlap => o.q = query
        BY SoleRequest DEF SameRender
      <4> HIDE DEF o
      <4>3. CASE query' = [query EXCEPT !.page = 1]
        BY <2>1, <4>3, PageTo DEF PagePositive
      <4>4. CASE query' = [query EXCEPT !.page = LastOf(o)]
        <5>1. PICK p \in Nat \ {0} : p = LastOf(o)
          BY <4>1
        <5>2. query'.page = p
          BY <2>1, <4>4, <5>1 DEF Query
        <5> QED
          BY <5>2 DEF PagePositive
      <4>5. CASE /\ table \in Routes /\ o.q.page > 1
                 /\ query' = [query EXCEPT !.page = query.page - 1]
        <5>1. query'.page = query.page - 1 /\ query.page \in Int
          BY <2>1, <4>5 DEF Query
        <5>2. overlap' \/ query.page > 1
          BY <2>1, <4>2, <4>5
        <5> QED
          BY <2>1, <4>5, <5>1, <5>2 DEF PagePositive
      <4> QED
        BY <2>3, <4>1, <4>3, <4>4, <4>5 DEF TurnsTo
    <3> QED
      BY <2>1, <3>1, <3>2, <3>3, <3>4, <3>5, <3>6 DEF Step
  <2> QED
    BY <2>2, <2>3
<1> QED
  BY <1>1, <1>2

\* Every variable of the list pages holds what their code puts there, for any
\* number of rows, groups and requests in flight, and no handler asks for a page
\* below the first, except a deletion of a route that met something else.
THEOREM TablesTypeOK == Spec => []TypeOK
<1>1. Init => Types /\ CalmInv /\ PagePositive
  BY TypesInit, CalmInit, PageInit
<1>2. Types /\ CalmInv /\ PagePositive /\ [Next]_vars => Types' /\ CalmInv' /\ PagePositive'
  BY TypesStep, CalmStep, PageStep
<1>3. Types /\ PagePositive => TypeOK
  <2> SUFFICES ASSUME Types, PagePositive PROVE TypeOK
    OBVIOUS
  <2>1. \A i \in DOMAIN loads : loads[i].q \in Query /\ loads[i].frees \in Frees
    <3> SUFFICES ASSUME NEW i \in DOMAIN loads
                 PROVE  loads[i].q \in Query /\ loads[i].frees \in Frees
      OBVIOUS
    <3>1. loads[i] \in LoadRecord
      BY DEF Types
    <3> QED
      BY <3>1 DEF LoadRecord
  <2>2. \A i \in DOMAIN ops : ops[i] \in OpRecord
    BY DEF Types, SoundOp
  <2>3. modal = None \/ modal \in [op : OpRecord, running : BOOLEAN]
    BY DEF Types, SoundOp
  <2> QED
    BY <2>1, <2>2, <2>3 DEF Types, Shown, TypeOK
<1> QED
  BY <1>1, <1>2, <1>3, PTL DEF Spec

-----------------------------------------------------------------------------
(* What is on show is what the backend has.                                *)

LEMMA AnswerSame ==
    ASSUME store' = store
    PROVE  /\ \A q : Answer(q)' = Answer(q)
           /\ query' = query => Answer(query)' = Answer(query)
<1>1. Existing' = Existing
  BY DEF Existing
<1>2. ASSUME NEW q PROVE Matching(q)' = Matching(q)
  BY <1>1 DEF Matching
<1>3. ASSUME NEW q PROVE Answer(q)' = Answer(q)
  BY <1>2 DEF Answer
<1>4. query' = query => Answer(query)' = Answer(query)
  <2>1. query' = query => Matching(query)' = Matching(query)
    BY <1>1 DEF Matching
  <2> QED
    BY <2>1 DEF Answer
<1> QED
  BY <1>3, <1>4

\* ViewInv in the next state, spelled out.
LEMMA ViewNext ==
    ASSUME Quiet' => /\ ops' = <<>> /\ Idle(loads') => Answer(query)' = View'
                     /\ \A i \in DOMAIN loads' : LastLater(loads', i) => loads'[i].q = query'
                     /\ \A l \in Range(loads') : l.what = "rows" =>
                           l.ans = Pending \/ l.ans = Answer(l.q)'
                     /\ \A o \in Range(ops') : ViewOp(o)'
    PROVE  ViewInv'
<1> SUFFICES ASSUME Quiet' PROVE ViewInv'
  BY DEF ViewInv
<1>1. ops' = <<>> /\ Idle(loads)' => Answer(query)' = View'
  BY DEF Idle, Later, Chained
<1>2. \A i \in DOMAIN loads' : LastLater(loads, i)' => loads'[i].q = query'
  BY DEF LastLater, Later, Chained
<1> QED
  BY <1>1, <1>2 DEF ViewInv

LEMMA ViewInit == Init => ViewInv
<1> SUFFICES ASSUME Init PROVE ViewInv
  OBVIOUS
<1> DEFINE l == Load(query, {})
<1>1. TableInit
  BY DEF Init, RoutesInit, WorkersInit, ProxiesInit, UsersInit
<1>2. loads = <<l>> /\ ops = <<>> /\ Range(ops) = {}
  BY <1>1 DEF TableInit, Range
<1>3. l.what = "rows" /\ l.q = query /\ l.ans = Pending /\ Later(l)
  BY DEF Load, Later
<1> HIDE DEF l
<1>4. DOMAIN loads = {1} /\ loads[1] = l
  BY <1>2
<1>5. Range(loads) = {l}
  BY <1>4 DEF Range
<1> QED
  BY <1>2, <1>3, <1>4, <1>5 DEF ViewInv, Idle

\* What has happened stays remembered.
LEMMA PastStays ==
    ASSUME Types, Next
    PROVE  (Calm' => Calm) /\ (stranded => stranded') /\ (edited => edited') /\ via \subseteq via'
<1>1. Step /\ (overlap => overlap') /\ table' = table
  BY NextIsStep DEF Types, Watch
<1>2. /\ faults \in Nat
      /\ Click => faults' = faults
  BY DEF Types, Click
<1>3. /\ overtaken => overtaken'
      /\ stranded => stranded'
      /\ edited => edited'
      /\ faults' = 0 => faults = 0
      /\ via \subseteq via'
  <2>1. CASE BackendNext
    <3>1. UNCHANGED past
      BY <2>1 DEF BackendNext, AnswerLoad, FailLoad, Serve, Lose, Another
    <3>2. faults' = faults \/ faults' = faults + 1
      BY <2>1 DEF BackendNext, AnswerLoad, FailLoad, Serve, Lose, Another, budgets
    <3>3. faults' = 0 => faults = 0
      BY <1>2, <3>2
    <3> QED
      BY <3>1, <3>3 DEF past
  <2>2. CASE Browse
    BY <1>1, <2>2, BrowseDoes DEF BrowseIs, past
  <2>3. CASE Mark \/ Ask \/ Agree \/ Dismiss
    BY <1>2, <2>3 DEF Mark, Ask, Confirm, Agree, Accept, Dismiss, Sent, past, budgets
  <2>4. CASE Starts
    <3>1. PICK kind, keys, todo, g : Start1(kind, keys, todo, g)
      BY <2>4 DEF Starts, StartAdd, StartPatch, StartRemoval, StartDeletion, StartRegroup,
         StartDropping
    <3> QED
      BY <3>1 DEF Start1, Sent, past
  <2>5. ASSUME NEW i \in DOMAIN loads, Lists(i)
        PROVE  /\ overtaken => overtaken'
               /\ stranded => stranded'
               /\ edited => edited'
               /\ faults' = 0 => faults = 0
               /\ via \subseteq via'
    <3>1. CASE LoadDone(i)
      <4>1. /\ overtaken' = (overtaken \/ \E j \in 1 .. i - 1 : loads[j].what = "rows")
            /\ stranded' = (stranded \/ loads[i].ans = NotFound)
            /\ edited' = edited /\ faults' = faults /\ via' = via
        BY <3>1 DEF LoadDone, budgets
      <4> QED
        BY <4>1
    <3>2. CASE \E next : GroupsDone(i, next)
      BY <3>2 DEF GroupsDone, past, budgets
    <3> QED
      BY <2>5, <3>1, <3>2 DEF Lists, loadGroups, loadWorkerGroups
  <2>6. ASSUME NEW i \in DOMAIN ops, Closes(i)
        PROVE  /\ overtaken => overtaken'
               /\ stranded => stranded'
               /\ edited => edited'
               /\ faults' = 0 => faults = 0
               /\ via \subseteq via'
    BY <1>1, <2>6, CloseEnds DEF EndsAs, EndsOf, Close, budgets
  <2> QED
    BY <1>1, <2>1, <2>2, <2>3, <2>4, <2>5, <2>6 DEF Step
<1> QED
  BY <1>1, <1>3 DEF Calm

LEMMA QuietBack ==
    ASSUME Types, Next PROVE Quiet' => Quiet
BY PastStays DEF Quiet

\* The last list that will show rows, over the removal of another one.
LEMMA RemovedLast ==
    ASSUME NEW s \in Seq(LoadRecord), NEW i \in DOMAIN s, NEW m \in DOMAIN RemoveAt(s, i),
           LastLater(RemoveAt(s, i), m),
           ~Later(s[i]) \/ \A j \in 1 .. i - 1 : ~Later(s[j])
    PROVE  \E n \in DOMAIN s : LastLater(s, n) /\ s[n] = RemoveAt(s, i)[m]
<1> DEFINE r == RemoveAt(s, i)
           n == IF m < i THEN m ELSE m + 1
<1>1. /\ Len(s) \in Nat /\ DOMAIN s = 1 .. Len(s) /\ DOMAIN r = 1 .. Len(s) - 1 /\ i \in 1 .. Len(s)
      /\ \A j \in 1 .. Len(s) - 1 : r[j] = IF j < i THEN s[j] ELSE s[j + 1]
  BY RemoveAtIs
<1>2. m \in 1 .. Len(s) - 1 /\ Later(r[m]) /\ \A j \in DOMAIN r : j > m => ~Later(r[j])
  BY <1>1 DEF LastLater
<1> HIDE DEF r
<1>3. n \in 1 .. Len(s) /\ s[n] = r[m]
  BY <1>1, <1>2
<1>4. m < i => ~Later(s[i])
  <2> SUFFICES ASSUME m < i PROVE ~Later(s[i])
    OBVIOUS
  <2>1. m \in 1 .. i - 1 /\ s[m] = r[m]
    BY <1>1, <1>2
  <2> QED
    BY <1>2, <2>1
<1>5. ASSUME NEW j \in 1 .. Len(s), j > n PROVE ~Later(s[j])
  <2>1. CASE j = i
    BY <1>1, <1>2, <1>4, <1>5, <2>1
  <2>2. CASE j < i
    <3>1. j \in 1 .. Len(s) - 1 /\ j > m /\ r[j] = s[j]
      BY <1>1, <1>2, <1>5, <2>2
    <3> QED
      BY <1>1, <1>2, <3>1
  <2>3. CASE j > i
    <3>1. j - 1 \in 1 .. Len(s) - 1 /\ ~(j - 1 < i) /\ (j - 1) + 1 = j /\ j - 1 > m
      BY <1>1, <1>2, <1>5, <2>3
    <3>2. r[j - 1] = s[(j - 1) + 1]
      BY <1>1, <3>1
    <3> QED
      BY <1>1, <1>2, <3>1, <3>2
  <2> QED
    BY <1>1, <2>1, <2>2, <2>3
<1>6. LastLater(s, n)
  BY <1>1, <1>2, <1>3, <1>5 DEF LastLater
<1> QED
  BY <1>1, <1>3, <1>6 DEF r

\* A list that is taken out was the last one to show rows, if none is left.
LEMMA NoneLeft ==
    ASSUME NEW s \in Seq(LoadRecord), NEW i \in DOMAIN s, Idle(RemoveAt(s, i))
    PROVE  IF Later(s[i]) THEN LastLater(s, i) ELSE Idle(s)
<1> DEFINE r == RemoveAt(s, i)
<1>1. /\ Len(s) \in Nat /\ DOMAIN s = 1 .. Len(s) /\ DOMAIN r = 1 .. Len(s) - 1 /\ i \in 1 .. Len(s)
      /\ \A j \in 1 .. Len(s) - 1 : r[j] = IF j < i THEN s[j] ELSE s[j + 1]
  BY RemoveAtIs
<1>2. \A j \in DOMAIN r : ~Later(r[j])
  BY DEF Idle, Range
<1> HIDE DEF r
<1>3. ASSUME NEW j \in 1 .. Len(s), j # i PROVE ~Later(s[j])
  <2>1. CASE j < i
    BY <1>1, <1>2, <2>1
  <2>2. CASE j > i
    <3>1. j - 1 \in 1 .. Len(s) - 1 /\ ~(j - 1 < i) /\ (j - 1) + 1 = j
      BY <1>1, <2>2
    <3>2. r[j - 1] = s[(j - 1) + 1]
      BY <1>1, <3>1
    <3> QED
      BY <1>1, <1>2, <3>1, <3>2
  <2> QED
    BY <1>1, <1>3, <2>1, <2>2
<1>4. Later(s[i]) => LastLater(s, i)
  BY <1>1, <1>3 DEF LastLater
<1>5. ~Later(s[i]) => Idle(s)
  BY <1>1, <1>3 DEF Idle, Range
<1> QED
  BY <1>4, <1>5

\* Lists are asked for, the last of them with the query of the page.
LEMMA ViewAppends ==
    ASSUME loads \in Seq(LoadRecord), ViewInv, Quiet, ops' = <<>>, store' = store,
           NEW ls \in Seq(LoadRecord), loads' = loads \o ls, Len(ls) # 0,
           \A l \in Range(ls) : l.what = "rows" => l.ans = Pending,
           Later(ls[Len(ls)]), ls[Len(ls)].q = query'
    PROVE  ViewInv'
<1> DEFINE a == Len(loads)
           b == Len(ls)
           r == loads \o ls
<1>1. /\ a \in Nat /\ b \in Nat \ {0} /\ DOMAIN r = 1 .. a + b /\ r[a + b] = ls[b]
      /\ Range(r) = Range(loads) \cup Range(ls) /\ r = loads'
  <2>1. a \in Nat /\ b \in Nat \ {0} /\ DOMAIN r = 1 .. a + b
    OBVIOUS
  <2>2. r[a + b] = ls[b]
    BY <2>1
  <2> QED
    BY <2>1, <2>2, ConcatRange
<1> HIDE DEF a, b, r
<1>2. Later(r[a + b]) /\ r[a + b].q = query' /\ a + b \in 1 .. a + b
  BY <1>1 DEF b
<1>3. ASSUME NEW i \in 1 .. a + b, LastLater(r, i) PROVE i = a + b
  <2>1. ~(a + b > i)
    BY <1>1, <1>2, <1>3 DEF LastLater
  <2> QED
    BY <1>1, <2>1
<1>4. ~Idle(r)
  BY <1>1, <1>2 DEF Idle, Range
<1>5. \A i \in DOMAIN loads' : LastLater(loads', i) => loads'[i].q = query'
  BY <1>1, <1>2, <1>3
<1>6. \A l \in Range(loads') : l.what = "rows" => l.ans = Pending \/ l.ans = Answer(l.q)'
  <2>1. \A l \in Range(loads) : l.what = "rows" => l.ans = Pending \/ l.ans = Answer(l.q)
    BY DEF ViewInv
  <2> QED
    BY <1>1, <2>1, AnswerSame
<1>7. Range(ops') = {}
  BY DEF Range
<1> QED
  BY <1>1, <1>4, <1>5, <1>6, <1>7, ViewNext

LEMMA ViewOne ==
    ASSUME loads \in Seq(LoadRecord), ViewInv, Quiet, ops' = <<>>, store' = store,
           NEW l \in LoadRecord, loads' = loads \o <<l>>, Later(l), l.ans = Pending, l.q = query'
    PROVE  ViewInv'
<1>1. ASSUME NEW ls \in Seq(LoadRecord), loads' = loads \o ls, Range(ls) = {l},
             Len(ls) = 1, ls[1] = l
      PROVE  ViewInv'
  BY <1>1, ViewAppends
<1>2. <<l>> \in Seq(LoadRecord) /\ Range(<<l>>) = {l} /\ Len(<<l>>) = 1 /\ <<l>>[1] = l
  BY OneRange
<1> QED
  BY <1>1, <1>2

LEMMA ViewTwo ==
    ASSUME loads \in Seq(LoadRecord), ViewInv, Quiet, ops' = <<>>, store' = store,
           NEW g \in LoadRecord, NEW l \in LoadRecord, loads' = loads \o <<g, l>>,
           g.what = "groups", Later(l), l.ans = Pending, l.q = query'
    PROVE  ViewInv'
<1>1. ASSUME NEW ls \in Seq(LoadRecord), loads' = loads \o ls, Range(ls) = {g, l}, Len(ls) = 2,
             ls[2] = l
      PROVE  ViewInv'
  <2>1. \A x \in Range(ls) : x.what = "rows" => x.ans = Pending
    BY <1>1
  <2>2. Later(ls[Len(ls)]) /\ ls[Len(ls)].q = query' /\ Len(ls) # 0
    BY <1>1
  <2> QED
    BY <1>1, <2>1, <2>2, ViewAppends
<1>2. <<g, l>> \in Seq(LoadRecord) /\ Range(<<g, l>>) = {g, l} /\ Len(<<g, l>>) = 2
      /\ <<g, l>>[2] = l
  BY PairRange
<1> QED
  BY <1>1, <1>2

\* A row is patched in the backend as it is on the page.
LEMMA AnswerPatched ==
    ASSUME Types, NEW k \in RowKeys, NEW g \in Groups \cup {NoGroup}, query.filter = All,
           Answer(query) = View, store' = [store EXCEPT ![k] = g], UNCHANGED <<query, shown>>
    PROVE  Answer(query)' = [rows |-> Patched({k}, g).rows, total |-> shown.total]
<1> DEFINE M == Matching(query)
           at(x) ==
             x \in M /\ (Cardinality({j \in M : j <= x}) - 1) \div query.size = query.page - 1
           inside == query.page \in 1 .. LastPage(Cardinality(M), query.size)
<1>1. shown \in Shown /\ store \in [Keys -> Values] /\ k \in Keys /\ g # Absent
      /\ shown.rows[k] # Absent
  BY AbsentApart DEF Types, RowKeys
<1>2. Answer(query) = IF ~inside THEN NotFound
                      ELSE [rows |-> [x \in Keys |-> IF at(x) THEN store[x] ELSE Absent],
                            total |-> Cardinality(M)]
  BY DEF Answer
<1>3. View \in Answers
  BY <1>1 DEF View, Answers, Shown
<1>4. /\ inside
      /\ shown.rows = [x \in Keys |-> IF at(x) THEN store[x] ELSE Absent]
      /\ shown.total = Cardinality(M)
  <2>1. inside
    BY <1>2, <1>3, StatesApart
  <2>2. View = [rows |-> [x \in Keys |-> IF at(x) THEN store[x] ELSE Absent],
                total |-> Cardinality(M)]
    BY <1>2, <2>1
  <2> QED
    BY <2>1, <2>2 DEF View
<1>5. \A x \in Keys : shown.rows[x] = IF at(x) THEN store[x] ELSE Absent
  BY <1>4
<1>6. at(k) /\ store[k] # Absent
  BY <1>1, <1>5
<1>7. M' = M
  <2>1. k \in M /\ query' = query
    BY <1>6
  <2>2. \A x \in Keys : x \in Existing' <=> x \in Existing
    BY <1>1, <1>6 DEF Existing
  <2>3. \A x \in Keys : x \in M <=> x \in Existing /\ (query.search => x \in Hits)
    BY DEF Matching, Existing
  <2>4. \A x \in Keys : x \in M' <=> x \in Existing' /\ (query'.search => x \in Hits)
    BY <2>1 DEF Matching, Existing
  <2>5. M \subseteq Keys /\ M' \subseteq Keys
    BY DEF Matching, Existing
  <2> QED
    BY <2>1, <2>2, <2>3, <2>4, <2>5
<1>8. Answer(query)' = IF ~inside THEN NotFound
                       ELSE [rows |-> [x \in Keys |-> IF at(x) THEN store'[x] ELSE Absent],
                             total |-> Cardinality(M)]
  <2>1. query' = query
    OBVIOUS
  <2>2. Answer(query)' =
          IF query'.page \notin 1 .. LastPage(Cardinality(M'), query'.size) THEN NotFound
          ELSE [rows |-> [x \in Keys |->
                  IF /\ x \in M'
                     /\ (Cardinality({j \in M' : j <= x}) - 1) \div query'.size = query'.page - 1
                  THEN store'[x] ELSE Absent],
                total |-> Cardinality(M')]
    BY DEF Answer
  <2> QED
    BY <1>7, <2>1, <2>2
<1>9. Patched({k}, g).rows = [x \in Keys |-> IF at(x) THEN store'[x] ELSE Absent]
  <2> DEFINE p == [x \in Keys |-> IF x \in {k} /\ shown.rows[x] # Absent THEN g ELSE shown.rows[x]]
             s == [x \in Keys |-> IF at(x) THEN store'[x] ELSE Absent]
  <2>1. Patched({k}, g).rows = p
    BY <1>1 DEF Patched, Shown
  <2>2. ASSUME NEW x \in Keys PROVE p[x] = s[x]
    <3>1. CASE x = k
      BY <1>1, <1>6, <3>1
    <3>2. CASE x # k
      <4>1. store'[x] = store[x]
        BY <1>1, <3>2
      <4>2. p[x] = shown.rows[x]
        BY <3>2
      <4>3. s[x] = IF at(x) THEN store[x] ELSE Absent
        BY <4>1
      <4> QED
        BY <1>5, <4>2, <4>3
    <3> QED
      BY <3>1, <3>2
  <2>3. p = s
    BY <2>2
  <2> QED
    BY <2>1, <2>3
<1> QED
  BY <1>4, <1>8, <1>9

LEMMA ViewBackend ==
    ASSUME Types, Types', CalmInv, ViewInv, BackendNext, table' = table, Quiet' => Quiet
    PROVE  ViewInv'
<1> SUFFICES ASSUME Quiet, Quiet' PROVE ViewInv'
  BY DEF ViewInv
<1>0. loads \in Seq(LoadRecord) /\ ops \in Seq(SoundOp) /\ faults \in Nat /\ ~overlap /\ faults' = 0
  BY DEF Types, Quiet, Calm
<1>1. UNCHANGED <<query, shown>>
  BY DEF BackendNext, AnswerLoad, FailLoad, Serve, Lose, Another, asked
<1>2. ASSUME NEW i \in DOMAIN loads, AnswerLoad(i) PROVE ViewInv'
  <2> DEFINE a == IF loads[i].what = "rows" THEN Answer(loads[i].q) ELSE live
  <2>1. loads' = [loads EXCEPT ![i].ans = a] /\ UNCHANGED <<store, ops>>
    BY <1>2 DEF AnswerLoad, backend
  <2>2. loads[i] \in LoadRecord
    BY <1>0
  <2>3. /\ DOMAIN loads' = DOMAIN loads
        /\ loads'[i].ans = a
        /\ \A j \in DOMAIN loads : j # i => loads'[j] = loads[j]
        /\ \A j \in DOMAIN loads :
             loads'[j].what = loads[j].what /\ loads'[j].q = loads[j].q
             /\ loads'[j].frees = loads[j].frees
    <3> HIDE DEF a
    <3> QED
      BY <1>0, <2>1, <2>2 DEF LoadRecord
  <2>4. \A j \in DOMAIN loads : Later(loads'[j]) <=> Later(loads[j])
    BY <2>3 DEF Later, Chained
  <2>5. Idle(loads') <=> Idle(loads)
    BY <2>3, <2>4 DEF Idle, Range
  <2>6. \A j \in DOMAIN loads' : LastLater(loads', j) => LastLater(loads, j)
    BY <2>3, <2>4 DEF LastLater
  <2>7. \A l \in Range(loads') : l.what = "rows" => l.ans = Pending \/ l.ans = Answer(l.q)'
    <3> SUFFICES ASSUME NEW l \in Range(loads'), l.what = "rows"
                 PROVE  l.ans = Pending \/ l.ans = Answer(l.q)'
      OBVIOUS
    <3>1. PICK j \in DOMAIN loads : l = loads'[j]
      BY <2>3 DEF Range
    <3>2. l.q = loads[j].q /\ loads[j].what = "rows"
      BY <2>3, <3>1
    <3>3. Answer(l.q)' = Answer(l.q)
      BY <2>1, AnswerSame
    <3>4. CASE j = i
      BY <2>3, <3>1, <3>2, <3>3, <3>4
    <3>5. CASE j # i
      <4>1. loads[j] \in Range(loads) /\ l = loads[j]
        BY <2>3, <3>1, <3>5 DEF Range
      <4> QED
        BY <3>2, <3>3, <4>1 DEF ViewInv
    <3> QED
      BY <3>4, <3>5
  <2>8. \A o \in Range(ops') : ViewOp(o)'
    <3>1. Answer(query)' = Answer(query)
      BY <1>1, <2>1, AnswerSame
    <3> QED
      BY <1>1, <2>1, <3>1 DEF ViewInv, ViewOp, View, RowKeys, Patched
  <2>9. ops' = <<>> /\ Idle(loads') => Answer(query)' = View'
    BY <1>1, <2>1, <2>5, AnswerSame DEF ViewInv, View
  <2> QED
    BY <1>1, <2>3, <2>6, <2>7, <2>8, <2>9, ViewNext DEF ViewInv
<1>3. ASSUME NEW i \in DOMAIN ops, NEW k \in ops[i].todo, Serve(i, k) PROVE ViewInv'
  <2>1. loads = <<>> /\ Range(ops) = {ops[i]} /\ i = 1 /\ Len(ops) = 1
    BY <1>0, SoleRequest
  <2>2. loads' = loads
    BY <1>3 DEF Serve
  <2>3. PICK ok, bad : /\ AnswersKey(i, k, ok, bad)
                       /\ \/ /\ Accepts(ops[i], k) /\ Handle(ops[i], k) /\ ok = ops[i].ok \cup {k}
                          \/ ok = ops[i].ok /\ UNCHANGED backend
    BY <1>3, ServeIs
  <2> DEFINE o == ops[i]
  <2>p. PICK p : p = ops'[i]
    OBVIOUS
  <2>4. /\ Range(ops') = {p} /\ ops' # <<>>
        /\ p.kind = o.kind /\ p.keys = o.keys /\ p.group = o.group /\ p.ok = ok
    <3>1. DOMAIN ops' = {1} /\ i = 1
      BY <1>0, <2>1, <2>3 DEF AnswersKey
    <3>2. Range(ops') = {p} /\ ops' # <<>>
      BY <2>p, <3>1 DEF Range
    <3> QED
      BY <2>3, <2>p, <3>2 DEF AnswersKey
  <2>o. o \in SoundOp
    BY <1>0
  <2>v. o \in Range(ops)
    BY <2>1
  <2>5. o \in SoundOp /\ ViewOp(o)
    BY <2>o, <2>v DEF ViewInv
  <2>6. ViewOp(p)'
    <3> HIDE DEF o
    <3>1. CASE ok = o.ok /\ UNCHANGED backend
      <4>1. Answer(query)' = Answer(query)
        BY <1>1, <3>1, AnswerSame DEF backend
      <4> QED
        <5>1. RowKeys' = RowKeys /\ View' = View /\ Patched(p.ok, p.group)' = Patched(o.ok, o.group)
          BY <1>1, <2>4, <3>1 DEF RowKeys, View, Patched
        <5> QED
          BY <1>1, <2>4, <2>5, <3>1, <4>1, <5>1 DEF ViewOp
    <3>2. CASE Accepts(o, k) /\ Handle(o, k) /\ ok = o.ok \cup {k}
      <4>1. CASE o.kind # "patch"
        BY <2>4, <3>2, <4>1 DEF ViewOp
      <4>2. CASE o.kind = "patch"
        <5>1. PICK j \in RowKeys : o.keys = {j}
          BY <2>5, <4>2 DEF ViewOp
        <5>2. k \in o.todo
          BY DEF o
        <5>3. k = j /\ o.ok = {} /\ o.group \in Groups \cup {NoGroup}
          BY <2>5, <4>2, <5>1, <5>2 DEF SoundOp
        <5>4. ok = {k} /\ Answer(query) = View /\ k \in RowKeys
          BY <2>5, <3>2, <5>3 DEF ViewOp
        <5>5. store' = [store EXCEPT ![k] = o.group]
          BY <3>2, <4>2 DEF Handle, Effect
        <5>6. query.filter = All =>
                Answer(query)' = [rows |-> Patched({k}, o.group).rows, total |-> shown.total]
          BY <1>1, <5>3, <5>4, <5>5, AnswerPatched
        <5>7. RowKeys' = RowKeys
          BY <1>1 DEF RowKeys
        <5>8. p.ok # {} /\ p.ok = {k} /\ p.group = o.group /\ p.keys = {j} /\ j \in RowKeys'
          BY <2>4, <5>1, <5>4, <5>7
        <5>9. Patched(p.ok, p.group)' = Patched({k}, o.group)
          BY <1>1, <5>8 DEF Patched
        <5> QED
          BY <1>1, <5>6, <5>8, <5>9 DEF ViewOp
      <4> QED
        BY <4>1, <4>2
    <3> QED
      BY <2>3, <3>1, <3>2 DEF o
  <2>7. Range(loads') = {} /\ DOMAIN loads' = {}
    BY <2>1, <2>2 DEF Range
  <2> QED
    BY <2>4, <2>6, <2>7, ViewNext
<1>4. ASSUME faults' = faults + 1 PROVE FALSE
  BY <1>0, <1>4
<1> QED
  BY <1>2, <1>3, <1>4 DEF BackendNext, FailLoad, Lose, Another

\* Where something is shown or asked for there is no other request.
LEMMA AloneNow ==
    ASSUME Types', Alone', ~overlap', loads' # <<>> PROVE ops' = <<>> /\ ~Asking'
<1>1. loads' \in Seq(LoadRecord) /\ ops' \in Seq(SoundOp)
  BY DEF Types
<1>2. Len(loads') > 0 /\ Len(loads') \in Nat /\ Len(ops') \in Nat
      /\ (ops' # <<>> => Len(ops') > 0)
  BY <1>1
<1>3. ops' = <<>>
  BY <1>2 DEF Alone
<1> QED
  BY <1>3 DEF Alone

LEMMA ViewBrowse ==
    ASSUME Types, Types', Alone', ViewInv, BrowseIs, Quiet' => Quiet PROVE ViewInv'
<1> SUFFICES ASSUME Quiet, Quiet' PROVE ViewInv'
  BY DEF ViewInv
<1>0. /\ loads \in Seq(LoadRecord) /\ query \in Query /\ query' \in Query /\ {} \in Frees
      /\ store' = store /\ ops' = ops /\ ~overlap'
      /\ shown'.rows = shown.rows /\ shown'.total = shown.total
  BY DEF Types, BrowseIs, Frees, backend, Quiet, Calm
<1>1. ASSUME NEW q \in Query
      PROVE  /\ Load(q, {}) \in LoadRecord /\ Later(Load(q, {})) /\ Load(q, {}).ans = Pending
             /\ Load(q, {}).q = q
             /\ LoadGroups(q, {}) \in LoadRecord /\ LoadGroups(q, {}).what = "groups"
  BY <1>0, LoadTypes DEF Load, LoadGroups, Later
<1>2. CASE query' = query /\ loads' = loads
  <2>1. Answer(query)' = Answer(query) /\ View' = View /\ RowKeys' = RowKeys
        /\ \A q : Answer(q)' = Answer(q)
    BY <1>0, <1>2, AnswerSame DEF View, RowKeys
  <2>2. ASSUME NEW o \in Range(ops), ViewOp(o) PROVE ViewOp(o)'
    <3>1. o.kind = "patch" => o.group \in Groups \cup {NoGroup}
      BY DEF Types, SoundOp, Range
    <3>2. (o.kind = "patch" => Patched(o.ok, o.group).rows' = Patched(o.ok, o.group).rows)
      BY <1>0 DEF Types, Patched, Shown
    <3> QED
      BY <1>0, <1>2, <2>1, <2>2, <3>2 DEF ViewOp
  <2> QED
    BY <1>0, <1>2, <2>1, <2>2, ViewNext DEF ViewInv
<1>3. ASSUME NEW q \in Query, q = query', loads' = loads \o <<Load(q, {})>> PROVE ViewInv'
  <2>1. loads' # <<>>
    BY <1>0, <1>3, <1>1, OneMore
  <2>2. ops' = <<>>
    BY <1>0, <2>1, AloneNow
  <2> QED
    BY <1>0, <1>1, <1>3, <2>2, ViewOne
<1>4. ASSUME loads' = loads \o <<LoadGroups(query, {}), Load(query, {})>>, query' = query
      PROVE  ViewInv'
  <2>1. loads' # <<>>
    BY <1>0, <1>4
  <2>2. ops' = <<>>
    BY <1>0, <2>1, AloneNow
  <2> QED
    BY <1>0, <1>1, <1>4, <2>2, ViewTwo
<1> QED
  BY <1>0, <1>2, <1>3, <1>4 DEF BrowseIs

LEMMA ViewDialogs ==
    ASSUME Types, Types', CalmInv, Alone', ViewInv, Mark \/ Ask \/ Agree \/ Dismiss, Quiet' => Quiet
    PROVE  ViewInv'
<1> SUFFICES ASSUME Quiet, Quiet' PROVE ViewInv'
  BY DEF ViewInv
<1>0. UNCHANGED <<store, query, shown, loads>> /\ ~overlap /\ ~overlap'
  BY DEF Mark, Ask, Confirm, Agree, Accept, Dismiss, Sent, backend, asked, Quiet, Calm
<1>1. Answer(query)' = Answer(query) /\ View' = View /\ RowKeys' = RowKeys
      /\ \A q : Answer(q)' = Answer(q)
  BY <1>0, AnswerSame DEF View, RowKeys
<1>2. \A o : ViewOp(o) => ViewOp(o)'
  BY <1>0, <1>1 DEF ViewOp, Patched
<1>3. CASE ops' = ops
  BY <1>0, <1>1, <1>2, <1>3, ViewNext DEF ViewInv
<1>4. CASE Agree
  <2>1. PICK kind, flag : Accept(kind, flag) /\ kind \in {"clear", "purge"}
    BY <1>4 DEF Agree
  <2>2. /\ modal.op \in SoundOp /\ Send(modal.op) /\ Asking /\ modal.op.kind = kind
    BY <2>1 DEF Accept, Types, Asking
  <2>3. loads = <<>> /\ loads' = <<>>
    BY <1>0, <2>2 DEF CalmInv
  <2>4. /\ ops \in Seq(SoundOp) /\ ops' = Append(ops, modal.op) /\ Len(ops) \in Nat
        /\ Len(ops') = Len(ops) + 1 /\ ops' # <<>>
    BY <2>2 DEF Send, Types
  <2>5. Len(ops') + Len(loads') <= 1
    BY <1>0, <2>4 DEF Alone
  <2>6. ops = <<>> /\ Range(ops) = {} /\ Range(loads) = {} /\ DOMAIN loads = {}
    <3>1. Len(loads') = 0 /\ Len(ops) = 0
      BY <2>3, <2>4, <2>5
    <3> QED
      BY <2>3, <2>4, <3>1 DEF Range
  <2>7. Answer(query) = View
    BY <2>6 DEF ViewInv, Idle
  <2>8. PICK o : o = modal.op
    OBVIOUS
  <2>9. Range(ops') = {o}
    <3>1. ops' = <<o>>
      BY <2>4, <2>6, <2>8
    <3> QED
      BY <3>1, OneRange
  <2>10. ViewOp(o)'
    BY <1>1, <2>1, <2>2, <2>7, <2>8 DEF ViewOp
  <2> QED
    BY <1>0, <2>4, <2>6, <2>9, <2>10, ViewNext
<1> QED
  BY <1>3, <1>4 DEF Mark, Ask, Confirm, Dismiss

LEMMA ViewStarts ==
    ASSUME Types, Types', Alone', ViewInv, Starts, Quiet' => Quiet PROVE ViewInv'
<1> SUFFICES ASSUME Quiet, Quiet' PROVE ViewInv'
  BY DEF ViewInv
<1>1. PICK kind, keys, todo, g : /\ Start1(kind, keys, todo, g)
                                 /\ kind = "patch" => \E k \in RowKeys : keys = {k}
  <2>1. ASSUME NEW k \in Keys, NEW g \in NullOr(groups), StartPatch(k, g)
        PROVE  /\ Start1("patch", {k}, {k}, g)
               /\ \E j \in RowKeys : {k} = {j}
    BY <2>1 DEF StartPatch
  <2>2. CASE \E k \in Keys, g \in NullOr(groups) : StartPatch(k, g)
    BY <2>1, <2>2
  <2>3. ASSUME NEW kind, NEW keys, NEW todo, NEW g, Start1(kind, keys, todo, g), kind # "patch"
        PROVE  \E k, ks, t, h : Start1(k, ks, t, h) /\ (k = "patch" => \E j \in RowKeys : ks = {j})
    BY <2>3
  <2>4. \A keys \in Batches, g \in NullOr(groups) : StartAdd(keys, g) => Start1("add", keys, {0}, g)
    BY DEF StartAdd
  <2>5. \A k \in Keys : StartRemoval(k) \/ StartDeletion(k) => Start1("delete", {k}, {k}, None)
    BY DEF StartRemoval, StartDeletion
  <2>6. \A g \in NullOr(groups) : StartRegroup(g) => Start1("regroup", selected, selected, g)
    BY DEF StartRegroup
  <2>7. \A g \in Groups : StartDropping(g) => Start1("dropgroup", {}, {0}, g)
    BY DEF StartDropping
  <2> QED
    BY <2>2, <2>3, <2>4, <2>5, <2>6, <2>7 DEF Starts
<1>2. PICK o : o = Op(kind, keys, todo, g)
  OBVIOUS
<1>3. ops' = Append(ops, o) /\ UNCHANGED <<store, query, shown, loads>> /\ ~overlap'
  BY <1>1, <1>2 DEF Start1, Send, Sent, backend, asked, Quiet, Calm
<1>4. o.kind = kind /\ o.keys = keys /\ o.ok = {}
  BY <1>2, OpRender
<1>5. /\ ops \in Seq(SoundOp) /\ loads \in Seq(LoadRecord) /\ Len(ops) \in Nat /\ Len(loads) \in Nat
      /\ Len(ops') = Len(ops) + 1 /\ ops' # <<>>
  BY <1>3 DEF Types
<1>6. Len(ops') + Len(loads') <= 1
  BY <1>3, <1>5 DEF Alone
<1>7. Len(ops) = 0 /\ Len(loads) = 0
  BY <1>3, <1>5, <1>6
<1>8. ops = <<>> /\ loads = <<>> /\ Range(loads) = {} /\ DOMAIN loads = {}
  BY <1>5, <1>7 DEF Range
<1>9. Answer(query) = View /\ Answer(query)' = Answer(query) /\ View' = View
  BY <1>3, <1>8, AnswerSame DEF ViewInv, Idle, View
<1>10. Range(ops') = {o}
  <2>1. ops' = <<o>>
    BY <1>3, <1>8
  <2> QED
    BY <2>1, OneRange
<1>11. ViewOp(o)'
  <2>1. o.kind = "patch" => \E k \in RowKeys' : o.keys = {k}
    BY <1>1, <1>3, <1>4 DEF RowKeys
  <2>2. Patched({}, o.group)'.rows = shown.rows
    <3>1. shown.rows = [k \in Keys |-> shown.rows[k]] /\ shown \in Shown
      BY DEF Types, Shown
    <3>2. Patched({}, o.group).rows = [k \in Keys |-> shown.rows[k]]
      BY <3>1 DEF Patched, Shown
    <3>3. Patched({}, o.group)' = Patched({}, o.group)
      BY <1>3 DEF Patched
    <3> QED
      BY <3>1, <3>2, <3>3
  <2>3. /\ Answer(query)' = View' /\ View' = [rows |-> shown.rows, total |-> shown.total]
        /\ shown' = shown
    BY <1>3, <1>9 DEF View
  <2>4. Answer(query)' = [rows |-> Patched({}, o.group)'.rows, total |-> shown'.total]
    BY <2>2, <2>3
  <2> QED
    BY <1>4, <2>1, <2>3, <2>4 DEF ViewOp
<1> QED
  BY <1>3, <1>5, <1>8, <1>10, <1>11, ViewNext

LEMMA ViewLists ==
    ASSUME Types, Types', OwnerInv, CalmInv, ViewInv, NEW i \in DOMAIN loads, Lists(i),
           Quiet' => Quiet
    PROVE  ViewInv'
<1> SUFFICES ASSUME Quiet, Quiet' PROVE ViewInv'
  BY DEF ViewInv
<1> DEFINE r == RemoveAt(loads, i)
<1>0. /\ loads \in Seq(LoadRecord) /\ i \in 1 .. Len(loads) /\ Len(loads) \in Nat /\ ~overlap
      /\ loads[i] \in LoadRecord /\ loads # <<>> /\ loads[i] \in Range(loads)
  BY DEF Types, Quiet, Calm, Range
<1>1. ops = <<>> /\ Range(ops) = {}
  BY <1>0, NoRequest
<1>2. /\ r \in Seq(LoadRecord) /\ DOMAIN r = 1 .. Len(loads) - 1 /\ Len(r) = Len(loads) - 1
      /\ Range(r) \subseteq Range(loads)
  BY <1>0, RemoveAtIs, RemoveAtRange
<1>3. UNCHANGED <<store, query, ops>>
  BY DEF Lists, LoadDone, loadGroups, loadWorkerGroups, GroupsDone, backend, asked
<1>4. Answer(query)' = Answer(query) /\ \A q : Answer(q)' = Answer(q)
  BY <1>3, AnswerSame
<1>5. ASSUME loads' = r, ~Later(loads[i]) \/ \A j \in 1 .. i - 1 : ~Later(loads[j]),
             Idle(r) => Answer(query) = View'
      PROVE  ViewInv'
  <2>1. \A m \in DOMAIN r : LastLater(r, m) => r[m].q = query
    <3> SUFFICES ASSUME NEW m \in DOMAIN r, LastLater(r, m) PROVE r[m].q = query
      OBVIOUS
    <3>1. PICK n \in DOMAIN loads : LastLater(loads, n) /\ loads[n] = r[m]
      BY <1>0, <1>5, RemovedLast
    <3> QED
      BY <3>1 DEF ViewInv
  <2>2. \A l \in Range(r) : l.what = "rows" => l.ans = Pending \/ l.ans = Answer(l.q)'
    BY <1>2, <1>4 DEF ViewInv
  <2> HIDE DEF r
  <2> QED
    BY <1>1, <1>3, <1>4, <1>5, <2>1, <2>2, ViewNext
<1>6. CASE LoadDone(i)
  <2> DEFINE l == loads[i]
             a == Answer(l.q)
  <2>1. /\ l.what = "rows" /\ l.ans # Pending /\ loads' = r /\ ~overtaken' /\ ~stranded'
        /\ overtaken' = (overtaken \/ \E j \in 1 .. i - 1 : loads[j].what = "rows")
        /\ stranded' = (stranded \/ l.ans = NotFound)
    BY <1>6 DEF LoadDone, Quiet, Calm
  <2>2. l.ans = a /\ l.q \in Query
    BY <1>0, <2>1 DEF ViewInv, LoadRecord
  <2>3. a \in Answers
    BY <2>1, <2>2, AnswerTypes
  <2>4. shown'.rows = a.rows /\ shown'.total = a.total
    BY <1>6, <2>1, <2>2, <2>3, StatesApart DEF LoadDone
  <2>5. View' = a
    BY <2>3, <2>4 DEF View, Answers
  <2>6. \A j \in 1 .. i - 1 : ~Later(loads[j])
    <3> SUFFICES ASSUME NEW j \in 1 .. i - 1, Chained(loads[j]) PROVE FALSE
      BY <2>1 DEF Later
    <3>1. j \in DOMAIN loads /\ Len(ops) = 0 /\ Len(loads) > 1
      BY <1>0, <1>1
    <3>2. Len(ops) + Len(loads) <= 1
      BY <1>0, <3>1 DEF CalmInv
    <3> QED
      BY <1>0, <3>1, <3>2
  <2>7. Idle(r) => Answer(query) = View'
    <3> SUFFICES ASSUME Idle(r) PROVE Answer(query) = View'
      OBVIOUS
    <3>1. LastLater(loads, i)
      BY <1>0, <2>1, NoneLeft DEF Later
    <3>2. l.q = query
      BY <3>1 DEF ViewInv
    <3> QED
      BY <2>5, <3>2
  <2> QED
    BY <1>5, <2>1, <2>6, <2>7
<1>7. ASSUME GroupsDone(i, <<>>), ~Chained(loads[i]) PROVE ViewInv'
  <2>1. /\ loads[i].what = "groups" /\ loads' = r \o <<>>
        /\ shown' = [shown EXCEPT !.loading = @ \/ <<>> # <<>>]
    BY <1>7 DEF GroupsDone
  <2>2. loads' = r /\ View' = View
    <3>1. r \o <<>> = r
      BY <1>2
    <3> QED
      BY <2>1, <3>1 DEF View, Types, Shown
  <2>3. ~Later(loads[i])
    BY <1>7, <2>1 DEF Later
  <2>4. Idle(r) => Answer(query) = View'
    BY <1>0, <1>1, <2>2, <2>3, NoneLeft DEF ViewInv
  <2> QED
    BY <1>5, <2>2, <2>3, <2>4
<1>8. CASE loadGroups(i)
  <2>1. GroupsDone(i, <<>>) /\ table # "worker"
    BY <1>8 DEF loadGroups, Routes
  <2>2. ~Chained(loads[i])
    BY <1>0, <2>1 DEF OwnerInv
  <2> QED
    BY <1>7, <2>1, <2>2
<1>9. CASE loadWorkerGroups(i)
  <2>1. CASE loads[i].frees = {}
    BY <1>7, <1>9, <2>1 DEF loadWorkerGroups, Chained
  <2>2. CASE loads[i].frees # {}
    <3> DEFINE l == Load(loads[i].q, loads[i].frees)
    <3>1. GroupsDone(i, <<l>>)
      BY <1>9, <2>2 DEF loadWorkerGroups
    <3>2. l \in LoadRecord /\ l.what = "rows" /\ l.ans = Pending /\ l.q = loads[i].q
      BY <1>0, LoadTypes DEF Load, LoadRecord
    <3> HIDE DEF l
    <3>3. Chained(loads[i]) /\ Later(loads[i]) /\ loads' = r \o <<l>>
      BY <2>2, <3>1 DEF GroupsDone, Chained, Later
    <3>4. Len(ops) + Len(loads) <= 1 /\ Len(ops) = 0
      BY <1>0, <1>1, <3>3 DEF CalmInv
    <3>5. Len(loads) = 1 /\ i = 1 /\ Len(r) = 0
      BY <1>0, <1>2, <3>4
    <3>6. loads' = <<l>>
      <4>1. r = <<>>
        BY <1>2, <3>5
      <4> QED
        BY <3>3, <4>1
    <3>7. LastLater(loads, i)
      BY <1>0, <3>3, <3>5 DEF LastLater
    <3>8. l.q = query' /\ Later(l)
      BY <1>3, <3>2, <3>7 DEF ViewInv, Later
    <3>9. DOMAIN loads' = {1} /\ loads'[1] = l /\ Range(loads') = {l}
      BY <3>2, <3>6, OneRange
    <3> QED
      BY <1>1, <1>3, <3>2, <3>8, <3>9, ViewNext DEF Idle
  <2> QED
    BY <2>1, <2>2
<1> QED
  BY <1>6, <1>8, <1>9 DEF Lists

LEMMA ViewCloses ==
    ASSUME Types, Types', CalmInv, ViewInv, NEW i \in DOMAIN ops, EndsAs(i), Quiet' => Quiet
    PROVE  ViewInv'
<1> SUFFICES ASSUME Quiet, Quiet' PROVE ViewInv'
  BY DEF ViewInv
<1> DEFINE o == ops[i]
<1>1. /\ ops' = RemoveAt(ops, i) /\ EndsOf(o) /\ o \in SoundOp /\ store' = store /\ ~overlap
      /\ ~edited'
  BY DEF EndsAs, EndsOf, Close, backend, Quiet, Calm
<1>2. /\ loads = <<>> /\ SameRender(o) /\ RemoveAt(ops, i) = <<>> /\ o \in Range(ops)
      /\ Range(loads) = {} /\ DOMAIN loads = {} /\ loads \in Seq(LoadRecord)
  <2>1. loads = <<>> /\ SameRender(o) /\ RemoveAt(ops, i) = <<>> /\ o \in Range(ops)
    BY <1>1, SoleRequest
  <2> QED
    BY <2>1 DEF Range
<1>3. ViewOp(o)
  BY <1>2 DEF ViewInv
<1> HIDE DEF o
<1>4. ops' = <<>> /\ Range(ops') = {} /\ o.q = query
  BY <1>1, <1>2 DEF Range, SameRender
<1>5. query' = query => Answer(query)' = Answer(query)
  BY <1>1, AnswerSame
<1>6. ASSUME loads' = loads, query' = query, Answer(query) = View' PROVE ViewInv'
  BY <1>2, <1>4, <1>5, <1>6, ViewNext
<1>7. CASE Quits(o)
  BY <1>3, <1>6, <1>7 DEF Quits, ViewOp, View
<1>8. CASE Patches(o)
  <2>1. /\ o.kind = "patch" /\ shown' = Patched(o.ok, o.group) /\ query' = query /\ loads' = loads
        /\ o.group \in Groups \cup {NoGroup} /\ shown \in Shown
    BY <1>1, <1>8 DEF Patches, SoundOp, Types
  <2>2. shown'.total = shown.total /\ shown' \in Shown
    BY <2>1, PatchedRows
  <2>3. CASE o.ok = {}
    <3>1. \A k \in Keys : shown'.rows[k] = shown.rows[k]
      BY <2>1, <2>3, PatchedRows
    <3>2. shown'.rows = shown.rows
      BY <2>1, <2>2, <3>1 DEF Shown
    <3> QED
      BY <1>3, <1>6, <2>1, <2>2, <2>3, <3>2 DEF ViewOp, View
  <2>4. CASE o.ok # {}
    <3>1. query.filter = All
      BY <1>1, <2>1, <2>4 DEF EndsOf
    <3> QED
      BY <1>3, <1>6, <2>1, <2>2, <3>1 DEF ViewOp, View
  <2> QED
    BY <2>3, <2>4
<1>9. CASE Turns(o)
  <2>1. PICK p \in Int : query' = [query EXCEPT !.page = p] /\ p # query.page
    BY <1>1, <1>4, <1>9, TurnsIs
  <2>2. query' # query
    BY <2>1, PageTo
  <2>3. PICK q \in Query : q = query' /\ loads' = loads \o <<Load(q, {})>>
    BY <1>1, <1>9, <2>2, TurnsIs
  <2>4. /\ Load(q, {}) \in LoadRecord /\ Later(Load(q, {})) /\ Load(q, {}).ans = Pending
        /\ Load(q, {}).q = q
    <3>1. {} \in Frees
      BY DEF Frees
    <3> QED
      BY <3>1, LoadTypes DEF Load, Later
  <2> QED
    BY <1>1, <1>2, <1>4, <2>3, <2>4, ViewOne
<1>10. CASE Reloads(o)
  <2>1. PICK l \in LoadRecord :
          /\ query' = query /\ l.q = query /\ l.ans = Pending /\ Later(l)
          /\ loads' = loads \o <<l>>
    BY <1>4, <1>10 DEF Reloads, LoadsOne, Later
  <2> QED
    BY <1>1, <1>2, <1>4, <2>1, ViewOne
<1>11. CASE Twice(o)
  BY <1>4, <1>11 DEF Twice
<1> QED
  BY <1>1, <1>7, <1>8, <1>9, <1>10, <1>11 DEF EndsOf

LEMMA ViewStep ==
    Types /\ Types' /\ OwnerInv /\ CalmInv /\ CalmInv' /\ ViewInv /\ [Next]_vars => ViewInv'
<1> SUFFICES ASSUME Types, Types', OwnerInv, CalmInv, CalmInv', ViewInv, [Next]_vars PROVE ViewInv'
  OBVIOUS
<1>1. CASE UNCHANGED vars
  <2>1. UNCHANGED <<query, shown, ops, loads, store, overlap, overtaken, faults, stranded, edited>>
    BY <1>1 DEF vars, asked, backend, budgets, past
  <2>2. (Quiet' => Quiet) /\ \A o : ViewOp(o) => ViewOp(o)'
    BY <2>1, AnswerSame DEF Quiet, Calm, ViewOp, View, RowKeys, Patched
  <2>3. Answer(query)' = Answer(query) /\ View' = View /\ \A q : Answer(q)' = Answer(q)
    BY <2>1, AnswerSame DEF View
  <2> QED
    BY <2>1, <2>2, <2>3, ViewNext DEF ViewInv
<1>2. CASE Next
  <2>1. Step /\ table' = table
    BY <1>2, NextIsStep DEF Types, Watch
  <2>2. Alone' /\ (Quiet' => Quiet)
    BY <1>2, QuietBack, CalmParts DEF CalmInv, Alone
  <2>3. CASE BackendNext
    BY <2>1, <2>2, <2>3, ViewBackend
  <2>4. CASE Browse
    BY <2>1, <2>2, <2>4, BrowseDoes, ViewBrowse
  <2>5. CASE Mark \/ Ask \/ Agree \/ Dismiss
    BY <2>2, <2>5, ViewDialogs
  <2>6. CASE Starts
    BY <2>2, <2>6, ViewStarts
  <2>7. ASSUME NEW i \in DOMAIN loads, Lists(i) PROVE ViewInv'
    BY <2>2, <2>7, ViewLists
  <2>8. ASSUME NEW i \in DOMAIN ops, Closes(i) PROVE ViewInv'
    BY <2>1, <2>2, <2>8, CloseEnds, ViewCloses
  <2> QED
    BY <2>1, <2>3, <2>4, <2>5, <2>6, <2>7, <2>8 DEF Step
<1> QED
  BY <1>1, <1>2

\* A page that has come to rest shows the backend's answer to what its search
\* box, its filter and its pager say: every handler that changes a row either
\* leaves the rows as the backend has them or asks for them again, with a query
\* that is still the one of the page.
THEOREM SettledViewSafe == Spec => []SettledView
<1>1. Init => Types /\ OwnerInv /\ CalmInv /\ ViewInv
  BY TypesInit, OwnerInit, CalmInit, ViewInit
<1>2. Types /\ OwnerInv /\ CalmInv /\ ViewInv /\ [Next]_vars
      => Types' /\ OwnerInv' /\ CalmInv' /\ ViewInv'
  BY TypesStep, OwnerStep, CalmStep, ViewStep
<1>3. ViewInv => SettledView
  <2> SUFFICES ASSUME ViewInv, Settled, Quiet PROVE Answer(query) = View
    BY DEF SettledView, Quiet, View
  <2>1. ops = <<>> /\ Idle(loads)
    BY DEF Settled, Idle, Range
  <2> QED
    BY <2>1 DEF ViewInv
<1> QED
  BY <1>1, <1>2, <1>3, PTL DEF Spec

-----------------------------------------------------------------------------
(* What is selected exists.                                                *)

LEMMA SelInit == Init => SelInv
<1> SUFFICES ASSUME Init PROVE SelInv
  OBVIOUS
<1>1. TableInit
  BY DEF Init, RoutesInit, WorkersInit, ProxiesInit, UsersInit
<1>2. selected = {} /\ modal = None /\ shown.loading = TRUE /\ ops = <<>>
  BY <1>1 DEF TableInit
<1> QED
  BY <1>2 DEF SelInv, Asking, Range

\* What is there is there, or has gone, in the next state.
LEMMA SelStays ==
    ASSUME SelInv, Quiet' => Quiet, table' = table,
           Existing \cup Gone \subseteq Existing' \cup Gone',
           \/ selected' \subseteq selected
           \/ ~shown.loading /\ selected' \subseteq selected \cup RowKeys,
           Asking' => \/ Asking /\ modal'.op.todo = modal.op.todo /\ modal'.op.bad = modal.op.bad
                      \/ modal'.op.todo \subseteq selected /\ modal'.op.bad = {},
           ~shown'.loading => ~shown.loading, RowKeys' \subseteq RowKeys,
           Quiet' /\ table \in {"worker", "proxy"} =>
              \A o \in Range(ops') : o.kind = "purge" => o.bad = {} /\ o.todo \subseteq Existing'
    PROVE  SelInv'
<1> SUFFICES ASSUME Quiet', Quiet, table \in {"worker", "proxy"} PROVE SelInv'
  BY DEF SelInv
<1>1. selected' \subseteq Existing' \cup Gone'
  BY DEF SelInv
<1>2. Asking' => modal'.op.todo \subseteq Existing' \cup Gone' /\ modal'.op.bad = {}
  BY DEF SelInv
<1>3. ~shown'.loading => RowKeys' \subseteq Existing' \cup Gone'
  BY DEF SelInv
<1> QED
  BY <1>1, <1>2, <1>3 DEF SelInv

\* What one request does to the rows of the backend.
LEMMA ServedExist ==
    ASSUME Types, NEW o \in SoundOp, NEW k \in o.todo, Accepts(o, k), Handle(o, k)
    PROVE  IF o.kind \in {"delete", "purge"} THEN Existing \ {k} \subseteq Existing'
                                             ELSE Existing \subseteq Existing'
<1>1. /\ store \in [Keys -> Values] /\ store' \in [Keys -> Values] /\ o.kind # "clear"
      /\ store' = Effect(o, k) /\ Absent \notin Groups /\ NoGroup # Absent
  BY HandleTypes, AbsentApart DEF Types, Handle
<1>2. CASE o.kind \in {"delete", "purge"}
  <2>1. store' = [store EXCEPT ![k] = Absent]
    BY <1>1, <1>2 DEF Effect
  <2> QED
    BY <1>1, <1>2, <2>1 DEF Existing
<1>3. CASE o.kind \in {"patch", "regroup"}
  <2>1. store' = [store EXCEPT ![k] = o.group] /\ o.group \in Groups \cup {NoGroup}
    BY <1>1, <1>3 DEF Effect, Accepts, Types
  <2> QED
    BY <1>1, <1>3, <2>1 DEF Existing
<1>4. CASE o.kind = "add"
  <2>1. /\ store' = [x \in Keys |-> IF x \in o.keys THEN o.group ELSE store[x]]
        /\ o.group \in Groups \cup {NoGroup}
    BY <1>1, <1>4 DEF Effect, Accepts, Types
  <2> QED
    BY <1>1, <1>4, <2>1 DEF Existing
<1>5. CASE o.kind = "dropgroup"
  <2>1. store' = [x \in Keys |-> IF store[x] = o.group THEN NoGroup ELSE store[x]]
    BY <1>1, <1>5 DEF Effect
  <2> QED
    BY <1>1, <1>5, <2>1 DEF Existing
<1> QED
  BY <1>1, <1>2, <1>3, <1>4, <1>5 DEF SoundOp, OpRecord

\* Only one request is served at a time, and what becomes of it.
Served(k, o, p) ==
    /\ o \in SoundOp /\ p \in SoundOp
    /\ Range(ops) = {o} /\ Range(ops') = {p} /\ k \in o.todo
    /\ loads = <<>> /\ loads' = <<>> /\ ops' # <<>> /\ SameRender(o)
    /\ p.kind = o.kind /\ p.keys = o.keys /\ p.group = o.group /\ p.todo = o.todo \ {k}
    /\ p.q = o.q /\ p.n = o.n /\ p.total = o.total
    /\ \/ /\ Accepts(o, k) /\ Handle(o, k)
          /\ p.ok = o.ok \cup {k} /\ p.bad = o.bad
       \/ /\ ~Accepts(o, k) /\ UNCHANGED backend
          /\ p.ok = o.ok /\ p.bad = o.bad \cup {k}

LEMMA ServedAlone ==
    ASSUME Types, CalmInv, ~overlap, NEW i \in DOMAIN ops, NEW k \in ops[i].todo, Serve(i, k)
    PROVE  \E o, p : Served(k, o, p)
<1>1. loads = <<>> /\ Range(ops) = {ops[i]} /\ i = 1 /\ Len(ops) = 1 /\ SameRender(ops[i])
  BY SoleRequest
<1>2. loads' = loads
  BY DEF Serve
<1>3. PICK ok, bad : /\ AnswersKey(i, k, ok, bad)
                     /\ \/ /\ Accepts(ops[i], k) /\ Handle(ops[i], k)
                           /\ ok = ops[i].ok \cup {k} /\ bad = ops[i].bad
                        \/ /\ ~Accepts(ops[i], k) /\ UNCHANGED backend
                           /\ ok = ops[i].ok /\ bad = ops[i].bad \cup {k}
  BY ServeIs
<1>4. PICK p \in SoundOp : p = ops'[i]
  BY <1>3 DEF AnswersKey
<1>5. PICK o \in SoundOp : o = ops[i]
  BY DEF Types
<1>6. Range(ops') = {p} /\ ops' # <<>>
  <2>1. ops \in Seq(SoundOp)
    BY DEF Types
  <2>2. DOMAIN ops' = {1}
    BY <1>1, <1>3, <2>1 DEF AnswersKey
  <2> QED
    BY <1>1, <1>4, <2>2 DEF Range
<1>7. /\ p.kind = o.kind /\ p.keys = o.keys /\ p.group = o.group /\ p.todo = o.todo \ {k}
      /\ p.q = o.q /\ p.n = o.n /\ p.total = o.total /\ p.ok = ok /\ p.bad = bad
  BY <1>3, <1>4, <1>5 DEF AnswersKey
<1>8. \/ /\ Accepts(o, k) /\ Handle(o, k)
         /\ p.ok = o.ok \cup {k} /\ p.bad = o.bad
      \/ /\ ~Accepts(o, k) /\ UNCHANGED backend
         /\ p.ok = o.ok /\ p.bad = o.bad \cup {k}
  BY <1>3, <1>5, <1>7
<1>9. Range(ops) = {o} /\ SameRender(o) /\ k \in o.todo
  BY <1>1, <1>5
<1>10. Served(k, o, p)
  BY <1>1, <1>2, <1>6, <1>7, <1>8, <1>9 DEF Served
<1> QED
  BY <1>10

LEMMA SelBackend ==
    ASSUME Types, CalmInv, SelInv, BackendNext, table' = table, Quiet' => Quiet PROVE SelInv'
<1> SUFFICES ASSUME Quiet, Quiet', table \in {"worker", "proxy"} PROVE SelInv'
  BY DEF SelInv
<1>0. faults \in Nat /\ ~overlap /\ faults' = 0
  BY DEF Types, Quiet, Calm
<1>1. UNCHANGED <<shown, selected, modal>> /\ RowKeys' = RowKeys
  BY DEF BackendNext, AnswerLoad, FailLoad, Serve, Lose, Another, asked, dialogs, RowKeys
<1>2. ASSUME NEW i \in DOMAIN loads, AnswerLoad(i) PROVE SelInv'
  <2>1. UNCHANGED <<store, ops>>
    BY <1>2 DEF AnswerLoad, backend
  <2>2. Existing' = Existing /\ Gone' = Gone
    BY <2>1 DEF Existing, Gone
  <2> QED
    BY <1>1, <2>1, <2>2, SelStays DEF SelInv, Asking
<1>3. ASSUME NEW i \in DOMAIN ops, NEW k \in ops[i].todo, Serve(i, k) PROVE SelInv'
  <2>s. PICK o, p : Served(k, o, p)
    BY <1>0, <1>3, ServedAlone
  <2>1. /\ o \in SoundOp /\ p \in SoundOp
        /\ Range(ops) = {o} /\ Range(ops') = {p} /\ k \in o.todo
        /\ p.kind = o.kind /\ p.todo = o.todo \ {k}
        /\ \/ /\ Accepts(o, k) /\ Handle(o, k)
              /\ p.ok = o.ok \cup {k} /\ p.bad = o.bad
           \/ /\ ~Accepts(o, k) /\ UNCHANGED backend
              /\ p.ok = o.ok /\ p.bad = o.bad \cup {k}
    BY <2>s DEF Served
  <2>2. /\ Gone = IF o.kind \in {"delete", "purge"} THEN o.ok ELSE {}
        /\ Gone' = IF p.kind \in {"delete", "purge"} THEN p.ok ELSE {}
    BY <2>1 DEF Gone
  <2>3. o.kind = "purge" => o.bad = {} /\ o.todo \subseteq Existing
    BY <2>1 DEF SelInv
  <2>4. CASE Accepts(o, k) /\ Handle(o, k) /\ p.ok = o.ok \cup {k} /\ p.bad = o.bad
    <3>1. IF o.kind \in {"delete", "purge"} THEN Existing \ {k} \subseteq Existing'
                                            ELSE Existing \subseteq Existing'
      BY <2>1, <2>4, ServedExist
    <3>2. Existing \cup Gone \subseteq Existing' \cup Gone'
      BY <2>1, <2>2, <2>4, <3>1
    <3>3. p.kind = "purge" => p.bad = {} /\ p.todo \subseteq Existing'
      BY <2>1, <2>3, <2>4, <3>1
    <3> QED
      BY <1>1, <2>1, <3>2, <3>3, SelStays DEF Asking
  <2>5. CASE ~Accepts(o, k) /\ UNCHANGED backend /\ p.ok = o.ok /\ p.bad = o.bad \cup {k}
    <3>1. Existing' = Existing /\ Gone' = Gone
      BY <2>1, <2>2, <2>5 DEF backend, Existing
    <3>2. o.kind # "purge"
      BY <2>1, <2>3, <2>5 DEF Accepts, Existing
    <3> QED
      BY <1>1, <2>1, <3>1, <3>2, SelStays DEF Asking
  <2> QED
    BY <2>1, <2>4, <2>5
<1>4. ASSUME faults' = faults + 1 PROVE FALSE
  BY <1>0, <1>4
<1> QED
  BY <1>2, <1>3, <1>4 DEF BackendNext, FailLoad, Lose, Another

LEMMA SelBrowse ==
    ASSUME Types, SelInv, BrowseIs, table' = table, Quiet' => Quiet PROVE SelInv'
<1>1. /\ UNCHANGED <<store, ops, modal>> /\ shown'.rows = shown.rows
      /\ \/ selected' \subseteq selected
         \/ ~shown.loading /\ selected' \subseteq selected \cup RowKeys
      /\ ~shown'.loading => ~shown.loading
  BY DEF BrowseIs, backend, dialogs
<1>2. Existing' = Existing /\ Gone' = Gone /\ RowKeys' = RowKeys
  BY <1>1 DEF Existing, Gone, RowKeys
<1>3. Quiet' /\ table \in {"worker", "proxy"} =>
        \A o \in Range(ops') : o.kind = "purge" => o.bad = {} /\ o.todo \subseteq Existing'
  BY <1>1, <1>2 DEF SelInv
<1> QED
  BY <1>1, <1>2, <1>3, SelStays DEF Asking

LEMMA SelDialogs ==
    ASSUME Types, Types', CalmInv, Alone', SelInv, Mark \/ Ask \/ Agree \/ Dismiss, table' = table,
           Quiet' => Quiet
    PROVE  SelInv'
<1> SUFFICES ASSUME Quiet, Quiet', table \in {"worker", "proxy"} PROVE SelInv'
  BY DEF SelInv
<1>1. UNCHANGED <<store, shown, selected, loads>> /\ ~overlap /\ ~overlap'
  BY DEF Mark, Ask, Confirm, Agree, Accept, Dismiss, Sent, backend, asked, Quiet, Calm
<1>2. Existing' = Existing /\ RowKeys' = RowKeys
  BY <1>1 DEF Existing, RowKeys
<1>3. ASSUME ops' = ops,
             Asking' => \/ Asking /\ modal'.op.todo = modal.op.todo /\ modal'.op.bad = modal.op.bad
                        \/ modal'.op.todo \subseteq selected /\ modal'.op.bad = {}
      PROVE  SelInv'
  <2>1. Gone' = Gone
    BY <1>3 DEF Gone
  <2> QED
    BY <1>1, <1>2, <1>3, <2>1, SelStays DEF SelInv
<1>4. CASE Mark \/ Dismiss
  <2>1. ops' = ops /\ (Asking' => Asking /\ modal' = modal)
    BY <1>4 DEF Mark, Dismiss, Asking
  <2> QED
    BY <1>3, <2>1
<1>5. CASE Ask
  <2>1. Confirm("purge", selected)
    BY <1>5 DEF Ask
  <2>2. PICK o : o = Op("purge", selected, selected, None)
    OBVIOUS
  <2>3. modal'.op = o /\ ops' = ops
    BY <2>1, <2>2 DEF Confirm
  <2>4. o.todo = selected /\ o.bad = {}
    BY <2>2, OpRender
  <2> QED
    BY <1>3, <2>3, <2>4
<1>6. CASE Agree
  <2>1. Accept("purge", "bulk")
    BY <1>6 DEF Agree
  <2>2. /\ modal.op \in SoundOp /\ Send(modal.op) /\ Asking /\ modal.op.kind = "purge"
        /\ modal \in [op : SoundOp, running : BOOLEAN] /\ modal' = [modal EXCEPT !.running = TRUE]
    BY <2>1 DEF Accept, Types, Asking
  <2>3. ~Asking'
    BY <2>2 DEF Asking
  <2>4. loads' = <<>> /\ ops \in Seq(SoundOp) /\ Len(ops) \in Nat /\ ops' = Append(ops, modal.op)
        /\ Len(ops') = Len(ops) + 1 /\ ops' # <<>>
    BY <1>1, <2>2 DEF CalmInv, Send, Types
  <2>5. Len(ops') + Len(loads') <= 1
    BY <1>1, <2>4 DEF Alone
  <2>6. ops = <<>>
    <3>1. Len(ops) = 0
      BY <2>4, <2>5
    <3> QED
      BY <2>4, <3>1
  <2>7. Gone = {}
    BY <2>6 DEF Gone, Range
  <2>8. PICK o : o = modal.op
    OBVIOUS
  <2>9. Range(ops') = {o}
    <3>1. ops' = <<o>>
      BY <2>4, <2>6, <2>8
    <3> QED
      BY <3>1, OneRange
  <2>10. o.bad = {} /\ o.todo \subseteq Existing
    BY <2>2, <2>7, <2>8 DEF SelInv
  <2> QED
    BY <1>1, <1>2, <2>3, <2>7, <2>9, <2>10, SelStays
<1> QED
  BY <1>4, <1>5, <1>6

LEMMA SelStarts ==
    ASSUME Types, Types', SelInv, Starts, table' = table, Quiet' => Quiet PROVE SelInv'
<1>1. \E kind, keys, todo, g : Start1(kind, keys, todo, g) /\ kind # "purge"
  <2>1. ASSUME NEW kind, NEW keys, NEW todo, NEW g, Start1(kind, keys, todo, g), kind # "purge"
        PROVE  \E k, ks, t, h : Start1(k, ks, t, h) /\ k # "purge"
    BY <2>1
  <2>2. \A keys \in Batches, g \in NullOr(groups) : StartAdd(keys, g) => Start1("add", keys, {0}, g)
    BY DEF StartAdd
  <2>3. \A k \in Keys : StartRemoval(k) \/ StartDeletion(k) => Start1("delete", {k}, {k}, None)
    BY DEF StartRemoval, StartDeletion
  <2>4. \A g \in NullOr(groups) : StartRegroup(g) => Start1("regroup", selected, selected, g)
    BY DEF StartRegroup
  <2>5. \A g \in Groups : StartDropping(g) => Start1("dropgroup", {}, {0}, g)
    BY DEF StartDropping
  <2>6. \A k \in Keys, g \in NullOr(groups) : StartPatch(k, g) => Start1("patch", {k}, {k}, g)
    BY DEF StartPatch
  <2> QED
    BY <2>1, <2>2, <2>3, <2>4, <2>5, <2>6 DEF Starts
<1>2. PICK kind, keys, todo, g : Start1(kind, keys, todo, g) /\ kind # "purge"
  BY <1>1
<1>3. PICK o : o = Op(kind, keys, todo, g)
  OBVIOUS
<1>4. ops' = Append(ops, o) /\ UNCHANGED <<store, shown, selected, modal>> /\ ops \in Seq(SoundOp)
  BY <1>2, <1>3 DEF Start1, Send, Sent, backend, asked, Types
<1>5. o.kind = kind
  BY <1>3, OpRender
<1>6. Range(ops') = Range(ops) \cup {o}
  <2>1. /\ DOMAIN ops' = 1 .. Len(ops) + 1 /\ DOMAIN ops = 1 .. Len(ops) /\ Len(ops) \in Nat
        /\ \A j \in 1 .. Len(ops) : ops'[j] = ops[j]
        /\ ops'[Len(ops) + 1] = o
    BY <1>4
  <2>2. /\ \A j \in 1 .. Len(ops) + 1 : j = Len(ops) + 1 \/ j \in 1 .. Len(ops)
        /\ \A j \in 1 .. Len(ops) : j \in 1 .. Len(ops) + 1
        /\ Len(ops) + 1 \in 1 .. Len(ops) + 1
    BY <2>1
  <2> QED
    BY <2>1, <2>2 DEF Range
<1>7. Existing' = Existing /\ RowKeys' = RowKeys /\ Gone \subseteq Gone'
  BY <1>4, <1>6 DEF Existing, RowKeys, Gone
<1>8. Quiet' /\ table \in {"worker", "proxy"} =>
        \A p \in Range(ops') : p.kind = "purge" => p.bad = {} /\ p.todo \subseteq Existing'
  BY <1>2, <1>5, <1>6, <1>7 DEF SelInv
<1> QED
  BY <1>4, <1>7, <1>8, SelStays DEF Asking

\* The rows of an answer are there.
LEMMA AnswerRows ==
    ASSUME Types, NEW q \in Query, Answer(q) # NotFound
    PROVE  \A k \in Keys : Answer(q).rows[k] # Absent => k \in Existing
<1>1. Answer(q).rows = [k \in Keys |->
          IF /\ k \in Matching(q)
             /\ (Cardinality({j \in Matching(q) : j <= k}) - 1) \div q.size = q.page - 1
          THEN store[k] ELSE Absent]
  BY DEF Answer
<1>2. Matching(q) \subseteq Existing
  BY DEF Matching
<1> QED
  BY <1>1, <1>2

LEMMA SelLists ==
    ASSUME Types, Types', CalmInv, ViewInv, SelInv, NEW i \in DOMAIN loads, Lists(i),
           table' = table,
           Quiet' => Quiet
    PROVE  SelInv'
<1> SUFFICES ASSUME Quiet, Quiet', table \in {"worker", "proxy"} PROVE SelInv'
  BY DEF SelInv
<1>0. /\ loads \in Seq(LoadRecord) /\ loads[i] \in LoadRecord /\ loads # <<>> /\ ~overlap
      /\ loads[i] \in Range(loads)
  BY DEF Types, Quiet, Calm, Range
<1>1. Range(ops) = {} /\ ~Asking /\ ops = <<>>
  BY <1>0, NoRequest
<1>2. /\ UNCHANGED <<store, ops, selected>> /\ (Asking' => Asking)
  BY DEF Lists, LoadDone, loadGroups, loadWorkerGroups, GroupsDone, Release, dialogs,
     backend, Asking
<1>3. Existing' = Existing /\ Gone' = Gone /\ Gone = {} /\ Range(ops') = {}
  BY <1>1, <1>2 DEF Existing, Gone
<1>4. selected' \subseteq Existing' \cup Gone'
  BY <1>2, <1>3 DEF SelInv
<1>5. CASE LoadDone(i)
  <2>1. /\ loads[i].what = "rows" /\ loads[i].ans # Pending /\ ~stranded'
        /\ stranded' = (stranded \/ loads[i].ans = NotFound)
    BY <1>5 DEF LoadDone, Quiet, Calm
  <2>2. PICK q \in Query : q = loads[i].q
    BY <1>0 DEF LoadRecord
  <2>3. loads[i].ans = Answer(q) /\ Answer(q) # NotFound
    BY <1>0, <2>1, <2>2 DEF ViewInv
  <2>4. Answer(q) \in Answers
    BY <2>3, AnswerTypes
  <2>5. shown'.rows = Answer(q).rows
    BY <1>5, <2>3, <2>4, StatesApart DEF LoadDone
  <2>6. RowKeys' \subseteq Existing
    BY <2>3, <2>5, AnswerRows DEF RowKeys
  <2> QED
    BY <1>1, <1>2, <1>3, <1>4, <2>6 DEF SelInv
<1>6. CASE \E next : GroupsDone(i, next)
  <2>1. PICK next : shown' = [shown EXCEPT !.loading = @ \/ next # <<>>]
    BY <1>6 DEF GroupsDone
  <2>2. shown'.rows = shown.rows /\ (~shown'.loading => ~shown.loading)
    BY <2>1 DEF Types, Shown
  <2>3. RowKeys' = RowKeys
    BY <2>2 DEF RowKeys
  <2>4. ~shown'.loading => RowKeys' \subseteq Existing' \cup Gone'
    BY <1>3, <2>2, <2>3 DEF SelInv
  <2> QED
    BY <1>1, <1>2, <1>3, <1>4, <2>4 DEF SelInv
<1> QED
  BY <1>5, <1>6 DEF Lists, loadGroups, loadWorkerGroups

\* What the end of a handler leaves selected on the pages that count it.
LEMMA CloseSelects ==
    ASSUME NEW i \in DOMAIN ops, Closes(i), table \in {"worker", "proxy"}
    PROVE  LET o == ops[i]
           IN  \/ selected' = selected /\ (o.ok = {} \/ o.kind \notin {"delete", "purge"})
               \/ selected' \subseteq selected \ o.ok
               \/ selected' = o.bad /\ o.kind = "purge"
<1>0. table \notin Routes /\ ~IsUsers
  BY DEF Routes, IsUsers
<1>1. CASE groupRemoved(i) \/ GroupChanged(i)
  BY <1>1 DEF groupRemoved, GroupChanged, Answered
<1>2. CASE workerRemoved(i) \/ groupUpdated(i) \/ workersPurged(i)
  BY <1>2 DEF workerRemoved, groupUpdated, workersPurged
<1>3. CASE removed(i)
  <2>1. CASE ops[i].ok = {}
    BY <1>3, <2>1 DEF removed
  <2>2. CASE ops[i].ok # {}
    BY <1>3, <2>2 DEF removed
  <2> QED
    BY <2>1, <2>2
<1>4. CASE bulkRemoved(i)
  BY <1>4 DEF bulkRemoved, Answered
<1>5. ASSUME RouteCloses(i) \/ userRemoved(i) PROVE FALSE
  BY <1>0, <1>5 DEF RouteCloses, domainsAdded, cidrsAdded, cidrsCleared, userRemoved
<1> QED
  BY <1>1, <1>2, <1>3, <1>4, <1>5 DEF Closes, WorkerCloses

LEMMA SelCloses ==
    ASSUME Types, Types', CalmInv, Alone', SelInv, NEW i \in DOMAIN ops, Closes(i), EndsAs(i),
           table' = table, Quiet' => Quiet
    PROVE  SelInv'
<1> SUFFICES ASSUME Quiet, Quiet', table \in {"worker", "proxy"} PROVE SelInv'
  BY DEF SelInv
<1>1. PICK o : o = ops[i]
  OBVIOUS
<1>2. /\ ops' = RemoveAt(ops, i) /\ EndsOf(o) /\ o \in SoundOp /\ store' = store
      /\ ~overlap /\ ~overlap' /\ loads \in Seq(LoadRecord) /\ loads' \in Seq(LoadRecord)
  BY <1>1 DEF EndsAs, EndsOf, Close, backend, Quiet, Calm, Types
<1>3. loads = <<>> /\ o.q = query /\ ops' = <<>> /\ Range(ops) = {o}
  BY <1>1, <1>2, SoleRequest DEF SameRender
<1>4. /\ Existing' = Existing /\ Gone' = {} /\ Range(ops') = {}
      /\ Gone = IF o.kind \in {"delete", "purge"} THEN o.ok ELSE {}
      /\ o.kind = "purge" => o.bad = {}
  <2>1. Existing' = Existing
    BY <1>2 DEF Existing
  <2>2. Range(ops') = {}
    BY <1>3 DEF Range
  <2>3. Gone = IF o.kind \in {"delete", "purge"} THEN o.ok ELSE {}
    BY <1>3 DEF Gone
  <2>4. Gone' = {}
    BY <2>2 DEF Gone
  <2>5. o.kind = "purge" => o.bad = {}
    BY <1>3 DEF SelInv
  <2> QED
    BY <2>1, <2>2, <2>3, <2>4, <2>5
<1>5. selected' \subseteq Existing
  <2>1. selected \subseteq Existing \cup Gone
    BY DEF SelInv
  <2>2. \/ selected' = selected /\ (o.ok = {} \/ o.kind \notin {"delete", "purge"})
        \/ selected' \subseteq selected \ o.ok
        \/ selected' = o.bad /\ o.kind = "purge"
    BY <1>1, CloseSelects
  <2> QED
    BY <1>4, <2>1, <2>2
<1>6. ASSUME Gone = {}, loads' = loads, RowKeys' = RowKeys, shown'.loading <=> shown.loading
      PROVE  SelInv'
  <2>1. Asking' => Asking /\ modal' = modal
    BY <1>2 DEF EndsOf, Asking
  <2> QED
    BY <1>4, <1>5, <1>6, <2>1 DEF SelInv
<1>7. ASSUME loads' # <<>>, ~shown'.loading => RowKeys' \subseteq Existing PROVE SelInv'
  <2>1. ~Asking'
    BY <1>2, <1>7 DEF Alone
  <2> QED
    BY <1>4, <1>5, <1>7, <2>1 DEF SelInv
<1>8. CASE Quits(o)
  BY <1>4, <1>6, <1>8 DEF Quits, RowKeys
<1>9. CASE Patches(o)
  <2>1. /\ o.kind = "patch" /\ shown' = Patched(o.ok, o.group) /\ loads' = loads
        /\ o.group \in Groups \cup {NoGroup} /\ shown \in Shown
    BY <1>2, <1>9 DEF Patches, SoundOp, Types
  <2>2. shown'.loading = shown.loading /\ \A k \in Keys : shown'.rows[k] # Absent <=> k \in RowKeys
    BY <2>1, PatchedRows
  <2>3. RowKeys' = RowKeys
    BY <2>2 DEF RowKeys
  <2> QED
    BY <1>4, <1>6, <2>1, <2>2, <2>3
<1>10. CASE Turns(o)
  <2>1. PICK p \in Int : query' = [query EXCEPT !.page = p] /\ p # query.page
    BY <1>2, <1>3, <1>10, TurnsIs
  <2>2. query' # query
    BY <2>1, PageTo
  <2>3. /\ query' \in Query /\ loads' = loads \o <<Load(query', {})>> /\ shown'.loading
    BY <1>2, <1>10, <2>2, TurnsIs
  <2>4. loads' # <<>>
    BY <1>2, <2>3
  <2> QED
    BY <1>7, <2>3, <2>4
<1>11. CASE Reloads(o)
  <2>1. PICK l \in LoadRecord :
          /\ l.what = "rows" \/ (Chained(l) /\ table = "worker" /\ o.kind = "dropgroup")
          /\ \/ LoadsOne(shown, l)
             \/ o.kind = "regroup" /\ LoadsOne(Patched(o.ok, o.group), l)
    BY <1>11 DEF Reloads
  <2>2. loads' = loads \o <<l>> /\ (l.what = "rows" => shown'.loading)
    BY <2>1 DEF LoadsOne
  <2>3. loads' # <<>>
    BY <1>2, <2>2
  <2>4. CASE l.what = "rows"
    BY <1>7, <2>2, <2>3, <2>4
  <2>5. CASE Chained(l) /\ o.kind = "dropgroup"
    <3>1. LoadsOne(shown, l)
      BY <2>1, <2>5
    <3>2. shown'.rows = shown.rows /\ (~shown'.loading => ~shown.loading)
      BY <3>1 DEF LoadsOne
    <3>3. ~shown'.loading => RowKeys' \subseteq Existing
      BY <1>4, <2>5, <3>2 DEF RowKeys, SelInv
    <3> QED
      BY <1>7, <2>3, <3>3
  <2> QED
    BY <2>1, <2>4, <2>5
<1>12. CASE Twice(o)
  BY <1>3, <1>12 DEF Twice
<1> QED
  BY <1>2, <1>8, <1>9, <1>10, <1>11, <1>12 DEF EndsOf

LEMMA SelStep ==
    Types /\ Types' /\ CalmInv /\ CalmInv' /\ ViewInv /\ SelInv /\ [Next]_vars => SelInv'
<1> SUFFICES ASSUME Types, Types', CalmInv, CalmInv', ViewInv, SelInv, [Next]_vars PROVE SelInv'
  OBVIOUS
<1>1. CASE UNCHANGED vars
  BY <1>1 DEF vars, backend, asked, dialogs, budgets, past, SelInv, Quiet, Calm, Gone, Existing,
     RowKeys, Asking
<1>2. CASE Next
  <2>1. Step /\ table' = table
    BY <1>2, NextIsStep DEF Types, Watch
  <2>2. Alone' /\ (Quiet' => Quiet)
    BY <1>2, QuietBack, CalmParts DEF CalmInv, Alone
  <2>3. CASE BackendNext
    BY <2>1, <2>2, <2>3, SelBackend
  <2>4. CASE Browse
    BY <2>1, <2>2, <2>4, BrowseDoes, SelBrowse
  <2>5. CASE Mark \/ Ask \/ Agree \/ Dismiss
    BY <2>1, <2>2, <2>5, SelDialogs
  <2>6. CASE Starts
    BY <2>1, <2>2, <2>6, SelStarts
  <2>7. ASSUME NEW i \in DOMAIN loads, Lists(i) PROVE SelInv'
    BY <2>1, <2>2, <2>7, SelLists
  <2>8. ASSUME NEW i \in DOMAIN ops, Closes(i) PROVE SelInv'
    BY <2>1, <2>2, <2>8, CloseEnds, SelCloses
  <2> QED
    BY <2>1, <2>3, <2>4, <2>5, <2>6, <2>7, <2>8 DEF Step
<1> QED
  BY <1>1, <1>2

\* The footer of the workers and of the proxies counts rows that exist: a row
\* that the page deletes leaves the selection in the step that hears of it.
THEOREM SelectedExistSafe == Spec => []SelectedExist
<1>1. Init => Types /\ OwnerInv /\ CalmInv /\ ViewInv /\ SelInv
  BY TypesInit, OwnerInit, CalmInit, ViewInit, SelInit
<1>2. Types /\ OwnerInv /\ CalmInv /\ ViewInv /\ SelInv /\ [Next]_vars
      => Types' /\ OwnerInv' /\ CalmInv' /\ ViewInv' /\ SelInv'
  BY TypesStep, OwnerStep, CalmStep, ViewStep, SelStep
<1>3. SelInv => SelectedExist
  <2> SUFFICES ASSUME SelInv, Settled, Quiet, table \in {"worker", "proxy"}
               PROVE  selected \subseteq Existing
    BY DEF SelectedExist, Quiet
  <2>1. Gone = {}
    BY DEF Settled, Gone, Range
  <2> QED
    BY <2>1 DEF SelInv
<1> QED
  BY <1>1, <1>2, <1>3, PTL DEF Spec

-----------------------------------------------------------------------------
(* Counting pages.                                                         *)

LEMMA Times ==
    ASSUME NEW a \in Int, NEW b \in Int, NEW s \in Nat \ {0}, a <= b PROVE a * s <= b * s
<1>1. b - a \in Nat /\ b = a + (b - a)
  OBVIOUS
<1>2. (b - a) * s \in Nat
  BY <1>1
<1>3. b * s = a * s + (b - a) * s
  BY <1>1
<1> QED
  BY <1>2, <1>3

LEMMA Quotient ==
    ASSUME NEW n \in Nat, NEW s \in Nat \ {0}
    PROVE  n \div s \in Nat /\ (n \div s) * s <= n /\ n < (n \div s + 1) * s
OBVIOUS

\* A page that begins before the end is not behind the last one.
LEMMA PageReached ==
    ASSUME NEW n \in Nat, NEW s \in Nat \ {0}, NEW p \in Nat \ {0}, p = 1 \/ (p - 1) * s < n
    PROVE  p \in 1 .. LastPage(n, s)
<1>0. LastPage(n, s) \in Nat \ {0}
  BY LastPagePositive
<1>1. CASE p = 1
  BY <1>0, <1>1
<1>2. CASE (p - 1) * s < n
  <2>1. (p - 1) * s \in Nat /\ n # 0
    BY <1>2
  <2> DEFINE m == n + s - 1
             d == m \div s
  <2>2. m \in Nat
    OBVIOUS
  <2> HIDE DEF m
  <2>3. d \in Nat /\ m < (d + 1) * s
    BY <2>2, Quotient
  <2>4. p * s = (p - 1) * s + s
    OBVIOUS
  <2>5. p * s <= m
    BY <1>2, <2>1, <2>4 DEF m
  <2> HIDE DEF d
  <2>6. ASSUME d + 1 <= p PROVE FALSE
    <3>1. (d + 1) * s <= p * s
      BY <2>3, <2>6, Times
    <3> QED
      BY <2>2, <2>3, <2>5, <3>1
  <2>7. LastPage(n, s) = d
    BY <2>1 DEF LastPage, d, m
  <2> QED
    BY <2>3, <2>6, <2>7
<1> QED
  BY <1>1, <1>2

\* More rows have no fewer pages.
LEMMA LastPageGrows ==
    ASSUME NEW m \in Nat, NEW n \in Nat, NEW s \in Nat \ {0}, m <= n
    PROVE  LastPage(m, s) \in 1 .. LastPage(n, s)
<1>1. CASE m = 0
  BY <1>1, PageReached DEF LastPage
<1>2. CASE m # 0
  <2> DEFINE d == (m + s - 1) \div s
  <2>1. d \in Nat \ {0} /\ d = LastPage(m, s)
    BY <1>2, LastPagePositive DEF LastPage
  <2>2. d * s <= m + s - 1
    <3>1. m + s - 1 \in Nat
      OBVIOUS
    <3> QED
      BY <3>1, Quotient
  <2> HIDE DEF d
  <2>3. d * s = (d - 1) * s + s /\ (d - 1) * s \in Nat
    BY <2>1
  <2>4. (d - 1) * s < n
    BY <2>1, <2>2, <2>3
  <2> QED
    BY <2>1, <2>4, PageReached
<1> QED
  BY <1>1, <1>2

\* Rows that match come one after the other.
LEMMA Places ==
    ASSUME NEW M \in SUBSET Keys
    PROVE  LET place(k) == Cardinality({j \in M : j <= k})
           IN  /\ Cardinality(M) \in Nat
               /\ \A k \in M : place(k) \in Nat /\ place(k) <= Cardinality(M)
               /\ \A j, k \in M : j < k => place(j) < place(k)
<1> DEFINE upto(k) == {j \in M : j <= k}
<1>0. IsFiniteSet(M) /\ Cardinality(M) \in Nat /\ \A k \in M : k \in Nat
  BY KeySets, PagedTableAssumption
<1>1. ASSUME NEW k \in M
      PROVE  IsFiniteSet(upto(k)) /\ Cardinality(upto(k)) \in Nat
             /\ Cardinality(upto(k)) <= Cardinality(M)
  <2>1. upto(k) \subseteq M
    OBVIOUS
  <2> HIDE DEF upto
  <2> QED
    BY <1>0, <2>1, FS_Subset, FS_CardinalityType
<1>2. ASSUME NEW j \in M, NEW k \in M, j < k PROVE Cardinality(upto(j)) < Cardinality(upto(k))
  <2>1. upto(j) \subseteq upto(k) /\ k \in upto(k) /\ k \notin upto(j)
    BY <1>0, <1>2
  <2> HIDE DEF upto
  <2>2. upto(j) # upto(k)
    BY <2>1
  <2> QED
    BY <1>1, <2>1, <2>2, FS_Subset
<1> QED
  BY <1>0, <1>1, <1>2

\* A page that is not answered with 404 is there.
LEMMA AnswerInRange ==
    ASSUME NEW q, Answer(q) # NotFound PROVE InRange(q)
BY DEF Answer, InRange

LEMMA ViewIsAnswer == Types => View \in Answers /\ View # NotFound
<1> SUFFICES ASSUME Types PROVE View \in Answers
  BY StatesApart
<1> QED
  BY DEF Types, Shown, View, Answers

\* What is on show, counted.
LEMMA ShownRows ==
    ASSUME Types, Answer(query) = View
    PROVE  /\ InRange(query) /\ shown.total = Cardinality(Matching(query))
           /\ \A k \in RowKeys : shown.total >= (query.page - 1) * query.size + 1
           /\ \A j, k \in RowKeys : j < k => shown.total >= (query.page - 1) * query.size + 2
<1> DEFINE M == Matching(query)
           place(k) == Cardinality({j \in M : j <= k})
           at(x) == x \in M /\ (place(x) - 1) \div query.size = query.page - 1
<1>1. InRange(query)
  BY ViewIsAnswer, AnswerInRange
<1>2. View = [rows |-> [x \in Keys |-> IF at(x) THEN store[x] ELSE Absent],
              total |-> Cardinality(M)]
  BY <1>1 DEF Answer, InRange
<1>3. /\ shown.rows = [x \in Keys |-> IF at(x) THEN store[x] ELSE Absent]
      /\ shown.total = Cardinality(M)
  BY <1>2 DEF View
<1>4. query.page \in Int /\ query.size \in Nat \ {0} /\ M \in SUBSET Keys /\ Keys \subseteq Nat
  BY PagedTableAssumption DEF Types, Query, Matching, Existing
<1>c. PICK c \in Int : c = (query.page - 1) * query.size
  BY <1>4
<1>5. ASSUME NEW k \in RowKeys PROVE k \in M /\ (place(k) - 1) \div query.size = query.page - 1
  BY <1>3 DEF RowKeys
<1>6. /\ Cardinality(M) \in Nat
      /\ \A k \in M : place(k) \in Nat /\ place(k) <= Cardinality(M)
      /\ \A j, k \in M : j < k => place(j) < place(k)
  BY <1>4, Places
<1>k. \A k \in M : k \in Nat
  BY <1>4
<1>7. ASSUME NEW k \in M PROVE place(k) >= 1
  <2> DEFINE upto == {j \in M : j <= k}
  <2>1. k \in upto /\ upto \in SUBSET Keys
    <3>1. k \in Nat /\ k <= k
      BY <1>k
    <3>2. k \in upto
      BY <3>1
    <3>3. \A x \in upto : x \in M
      OBVIOUS
    <3> QED
      BY <1>4, <3>2, <3>3
  <2> HIDE DEF upto
  <2>2. IsFiniteSet(upto) /\ Cardinality(upto) \in Nat
    BY <2>1, KeySets
  <2>3. Cardinality(upto) # 0
    BY <2>1, <2>2, FS_EmptySet
  <2> QED
    BY <2>2, <2>3 DEF upto
<1> HIDE DEF M, place
<1>8. ASSUME NEW k \in RowKeys PROVE place(k) >= c + 1
  <2>1. PICK m \in Nat : m = place(k) - 1
    BY <1>5, <1>6, <1>7
  <2>2. m \div query.size = query.page - 1
    BY <1>5, <2>1
  <2>3. (m \div query.size) * query.size <= m
    BY <1>4, Quotient
  <2>4. c <= m
    BY <1>c, <2>2, <2>3
  <2> QED
    BY <1>5, <1>6, <2>1, <2>4
<1>9. ASSUME NEW k \in RowKeys PROVE shown.total >= c + 1
  BY <1>3, <1>5, <1>6, <1>8
<1>10. ASSUME NEW j \in RowKeys, NEW k \in RowKeys, j < k PROVE shown.total >= c + 2
  <2>1. place(j) < place(k) /\ place(j) \in Nat /\ place(k) \in Nat /\ place(k) <= shown.total
    BY <1>3, <1>5, <1>6, <1>10
  <2> QED
    BY <1>3, <1>6, <1>8, <2>1
<1> QED
  BY <1>1, <1>3, <1>c, <1>9, <1>10 DEF M

\* As long as nothing was removed, the page is there.
LEMMA ViewInRange ==
    ASSUME Types, NEW o \in SoundOp, ViewOp(o),
           o.ok = {} \/ (o.kind = "patch" /\ query.filter = All)
    PROVE  InRange(query)
<1>1. CASE o.ok = {}
  BY <1>1, ShownRows DEF ViewOp
<1>2. CASE o.kind = "patch" /\ query.filter = All
  <2>1. /\ shown \in Shown /\ o.group \in Groups \cup {NoGroup}
        /\ Answer(query) = [rows |-> Patched(o.ok, o.group).rows, total |-> shown.total]
    BY <1>2 DEF Types, SoundOp, ViewOp
  <2>2. Patched(o.ok, o.group) \in Shown
    BY <2>1, PatchedRows
  <2>3. Answer(query) \in Answers
    BY <2>1, <2>2 DEF Shown, Answers
  <2> QED
    BY <2>3, StatesApart, AnswerInRange
<1> QED
  BY <1>1, <1>2

\* Page 1 is always there, and nothing else decides where a page is.
LEMMA RangeSame ==
    ASSUME store' = store
    PROVE  /\ \A q : InRange(q)' = InRange(q) /\ Matching(q)' = Matching(q)
           /\ query' = query => Matching(query)' = Matching(query)
           /\ \A q \in Query : q = query' => (InRange(query)' <=> InRange(q))
<1>1. Existing' = Existing
  BY DEF Existing
<1>2. ASSUME NEW q PROVE Matching(q)' = Matching(q)
  BY <1>1 DEF Matching
<1>3. ASSUME NEW q PROVE InRange(q)' = InRange(q)
  BY <1>2 DEF InRange
<1>4. ASSUME NEW q \in Query, q = query' PROVE /\ Matching(query)' = Matching(q)
                                               /\ InRange(query)' <=> InRange(q)
  <2>1. Matching(query)' = Matching(q)
    BY <1>1, <1>4 DEF Matching
  <2> QED
    BY <1>4, <2>1 DEF InRange
<1>5. query' = query => Matching(query)' = Matching(query)
  BY <1>1 DEF Matching
<1> QED
  BY <1>2, <1>3, <1>4, <1>5

LEMMA FirstInRange ==
    ASSUME NEW q \in Query, q.page = 1 PROVE InRange(q)
<1>1. Cardinality(Matching(q)) \in Nat /\ q.size \in Nat \ {0}
  BY KeySets, PagedTableAssumption DEF Matching, Existing, Query
<1> QED
  BY <1>1, PageReached DEF InRange

-----------------------------------------------------------------------------
(* The page that the pager is on.                                          *)

LEMMA CorrectedBack ==
    ASSUME Types, Next, table' = table PROVE Corrected' => Corrected
<1>1. (Calm' => Calm) /\ (edited => edited') /\ via \subseteq via'
  BY PastStays
<1>2. Uncorrected' = Uncorrected
  BY DEF Uncorrected
<1> QED
  BY <1>1, <1>2 DEF Corrected

LEMMA CorrectedQuiet == PageInv /\ Corrected => Quiet
BY DEF PageInv, Corrected, Quiet

\* PageInv in the next state, unless the backend writes.
LEMMA RangeNext ==
    ASSUME NEW q \in Query, q = query', store' = store, table' = table,
           Corrected' => /\ ~stranded'
                         /\ \A l \in Range(loads') : Later(l) => InRange(l.q)
                         /\ ops' = <<>> => InRange(q)
                         /\ Range(ops') = {} \/ query' = query
                         /\ \A o \in Range(ops') : Counts(o)
                         /\ table = "user" => q.page = 1
    PROVE  PageInv'
<1> SUFFICES ASSUME Corrected' PROVE PageInv'
  BY DEF PageInv
<1>1. \A l \in Range(loads') : Later(l)' => InRange(l.q)'
  BY RangeSame DEF Later, Chained
<1>2. ops' = <<>> => InRange(query)'
  BY RangeSame
<1>3. ASSUME NEW o \in Range(ops') PROVE Counts(o)'
  <2>1. query' = query /\ Counts(o)
    BY <1>3
  <2>2. Matching(query)' = Matching(query)
    BY <2>1, RangeSame
  <2> QED
    BY <2>1, <2>2 DEF Counts
<1> QED
  BY <1>1, <1>2, <1>3 DEF PageInv

LEMMA RangeInit == Init => PageInv
<1> SUFFICES ASSUME Init PROVE PageInv
  OBVIOUS
<1> DEFINE l == Load(query, {})
<1>1. TableInit /\ query \in Query
  BY TypesInit DEF Init, RoutesInit, WorkersInit, ProxiesInit, UsersInit, Types
<1>2. loads = <<l>> /\ ops = <<>> /\ Range(ops) = {} /\ query.page = 1 /\ ~stranded
  BY <1>1 DEF TableInit, Range
<1>3. l.q = query
  BY DEF Load
<1> HIDE DEF l
<1>4. Range(loads) = {l}
  BY <1>2, OneRange
<1> QED
  BY <1>1, <1>2, <1>3, <1>4, FirstInRange DEF PageInv

\* A deletion takes one row off the list at most.
LEMMA RemovedOne ==
    ASSUME Types, NEW k, store' = [store EXCEPT ![k] = Absent], query' = query
    PROVE  /\ Cardinality(Matching(query)) \in Nat /\ Cardinality(Matching(query))' \in Nat
           /\ Cardinality(Matching(query))' >= Cardinality(Matching(query)) - 1
<1>1. store \in [Keys -> Values]
  BY DEF Types
<1>2. PICK M : M = Matching(query)
  OBVIOUS
<1>3. PICK N : N = Matching(query)'
  OBVIOUS
<1>4. Existing' = Existing \ {k}
  BY <1>1 DEF Existing
<1>5. N = M \ {k}
  BY <1>1, <1>2, <1>3, <1>4 DEF Matching, Existing
<1>6. M \in SUBSET (Keys \cup {0})
  BY <1>2 DEF Matching, Existing
<1>7. IsFiniteSet(M) /\ Cardinality(M) \in Nat
  BY <1>6, KeySets
<1>8. N \in SUBSET (Keys \cup {0})
  BY <1>5, <1>6
<1>9. Cardinality(N) \in Nat
  BY <1>8, KeySets
<1>10. Cardinality(N) = IF k \in M THEN Cardinality(M) - 1 ELSE Cardinality(M)
  BY <1>5, <1>7, FS_RemoveElement
<1> QED
  BY <1>2, <1>3, <1>7, <1>9, <1>10

LEMMA RangeBackend ==
    ASSUME Types, Types', CalmInv, PageInv, BackendNext, table' = table, Corrected' => Corrected
    PROVE  PageInv'
<1> SUFFICES ASSUME Corrected, Corrected' PROVE PageInv'
  BY DEF PageInv
<1>0. /\ loads \in Seq(LoadRecord) /\ faults \in Nat /\ ~overlap /\ faults' = 0
      /\ query \in Query /\ ~stranded
  BY DEF Types, Corrected, Calm, PageInv
<1>1. UNCHANGED <<query, stranded>>
  BY DEF BackendNext, AnswerLoad, FailLoad, Serve, Lose, Another, asked, past
<1>2. ASSUME NEW i \in DOMAIN loads, AnswerLoad(i) PROVE PageInv'
  <2> DEFINE a == IF loads[i].what = "rows" THEN Answer(loads[i].q) ELSE live
  <2>1. loads' = [loads EXCEPT ![i].ans = a] /\ UNCHANGED <<store, ops>>
    BY <1>2 DEF AnswerLoad, backend
  <2>2. loads[i] \in LoadRecord
    BY <1>0
  <2>3. /\ DOMAIN loads' = DOMAIN loads
        /\ \A j \in DOMAIN loads :
             loads'[j].what = loads[j].what /\ loads'[j].q = loads[j].q
             /\ loads'[j].frees = loads[j].frees
    <3> HIDE DEF a
    <3> QED
      BY <1>0, <2>1, <2>2 DEF LoadRecord
  <2>4. ASSUME NEW l \in Range(loads'), Later(l) PROVE InRange(l.q)
    <3>1. PICK j \in DOMAIN loads : l = loads'[j]
      BY <2>3 DEF Range
    <3>2. Later(loads[j]) /\ l.q = loads[j].q /\ loads[j] \in Range(loads)
      BY <2>3, <2>4, <3>1 DEF Later, Chained, Range
    <3> QED
      BY <3>2 DEF PageInv
  <2> QED
    BY <1>0, <1>1, <2>1, <2>4, RangeNext DEF PageInv
<1>3. ASSUME NEW i \in DOMAIN ops, NEW k \in ops[i].todo, Serve(i, k) PROVE PageInv'
  <2>s. PICK o, p : Served(k, o, p)
    BY <1>0, <1>3, ServedAlone
  <2>1. /\ o \in SoundOp /\ p \in SoundOp /\ Range(ops) = {o} /\ Range(ops') = {p}
        /\ k \in o.todo /\ loads' = <<>> /\ ops' # <<>>
        /\ p.kind = o.kind /\ p.keys = o.keys /\ p.q = o.q /\ p.n = o.n /\ p.total = o.total
        /\ \/ Accepts(o, k) /\ Handle(o, k) /\ p.ok = o.ok \cup {k}
           \/ UNCHANGED backend /\ p.ok = o.ok
    BY <2>s DEF Served
  <2>2. Counts(o) /\ Range(loads') = {}
    BY <2>1 DEF PageInv, Range
  <2>3. o.total \in Nat /\ o.ok \in SUBSET (Keys \cup {0}) /\ k \notin o.ok
    BY <2>1 DEF SoundOp, OpRecord
  <2>4. IsFiniteSet(o.ok) /\ Cardinality(o.ok) \in Nat
    BY <2>3, KeySets
  <2>5. ASSUME o.kind \in {"delete", "purge"}
        PROVE  Cardinality(Matching(query))' >= o.total - Cardinality(p.ok)
    <3>1. Cardinality(Matching(query)) >= o.total - Cardinality(o.ok)
      BY <2>2, <2>5 DEF Counts
    <3>2. CASE Accepts(o, k) /\ Handle(o, k) /\ p.ok = o.ok \cup {k}
      <4>1. store' = [store EXCEPT ![k] = Absent]
        BY <2>5, <3>2 DEF Handle, Effect
      <4>2. /\ Cardinality(Matching(query)) \in Nat /\ Cardinality(Matching(query))' \in Nat
            /\ Cardinality(Matching(query))' >= Cardinality(Matching(query)) - 1
        BY <1>1, <4>1, RemovedOne
      <4>3. Cardinality(p.ok) = Cardinality(o.ok) + 1
        BY <2>3, <2>4, <3>2, FS_AddElement
      <4>4. PICK m \in Nat : m = Cardinality(Matching(query))'
        BY <4>2
      <4>5. PICK n \in Nat : n = Cardinality(Matching(query))
        BY <4>2
      <4> QED
        BY <2>3, <2>4, <3>1, <4>2, <4>3, <4>4, <4>5
    <3>3. CASE UNCHANGED backend /\ p.ok = o.ok
      <4>1. Matching(query)' = Matching(query)
        BY <1>1, <3>3, RangeSame DEF backend
      <4> QED
        BY <3>1, <3>3, <4>1
    <3> QED
      BY <2>1, <3>2, <3>3
  <2>6. Counts(p)'
    BY <2>1, <2>2, <2>5 DEF Counts
  <2>7. table' = "user" => query'.page = 1
    BY <1>1 DEF PageInv
  <2> QED
    BY <1>0, <1>1, <2>1, <2>2, <2>6, <2>7 DEF PageInv
<1>4. ASSUME faults' = faults + 1 PROVE FALSE
  BY <1>0, <1>4
<1> QED
  BY <1>2, <1>3, <1>4 DEF BackendNext, FailLoad, Lose, Another

\* Whatever the pager, the filter or a change of language asks for is there.
LEMMA RangeBrowse ==
    ASSUME Types, Types', Alone', Watch, ViewInv, PageInv, BrowseIs, Corrected' => Corrected
    PROVE  PageInv'
<1> SUFFICES ASSUME Corrected, Corrected' PROVE PageInv'
  BY DEF PageInv
<1>0. /\ loads \in Seq(LoadRecord) /\ query \in Query /\ query' \in Query /\ {} \in Frees
      /\ store' = store /\ ops' = ops /\ ~overlap' /\ table' = table
      /\ stranded' = stranded /\ ~stranded
  BY DEF Types, BrowseIs, Frees, backend, past, Corrected, Calm, PageInv, Watch
<1>q. Quiet
  BY CorrectedQuiet
<1>1. ASSUME NEW q \in Query
      PROVE  /\ Load(q, {}) \in LoadRecord /\ Load(q, {}).q = q
             /\ LoadGroups(q, {}) \in LoadRecord /\ ~Later(LoadGroups(q, {}))
  BY <1>0, LoadTypes DEF Load, LoadGroups, Later, Chained
<1>2. CASE query' = query /\ loads' = loads
  BY <1>0, <1>2, RangeNext DEF PageInv
<1>3. ASSUME NEW q \in Query, q = query', loads' = loads \o <<Load(q, {})>>, InRange(q),
             table = "user" => q.page = 1
      PROVE  PageInv'
  <2>1. loads' # <<>> /\ Range(loads') = Range(loads) \cup {Load(q, {})}
    BY <1>0, <1>1, <1>3, OneMore
  <2>2. ops' = <<>> /\ Range(ops') = {}
    BY <1>0, <2>1, AloneNow DEF Range
  <2>3. \A l \in Range(loads') : Later(l) => InRange(l.q)
    BY <1>1, <1>3, <2>1 DEF PageInv
  <2> QED
    BY <1>0, <1>3, <2>2, <2>3, RangeNext
<1>4. CASE query' = query /\ loads' = loads \o <<Load(query, {})>>
  <2>1. loads' # <<>>
    BY <1>0, <1>1, <1>4, OneMore
  <2>2. ops = <<>>
    BY <1>0, <2>1, AloneNow
  <2> QED
    BY <1>0, <1>3, <1>4, <2>2 DEF PageInv
<1>5. CASE query' = query /\ loads' = loads \o <<LoadGroups(query, {}), Load(query, {})>>
  <2>1. PICK g \in LoadRecord, l \in LoadRecord :
          g = LoadGroups(query, {}) /\ ~Later(g) /\ l = Load(query, {}) /\ l.q = query
    BY <1>0, <1>1
  <2>a. Len(<<g, l>>) = 2
    OBVIOUS
  <2>b. <<g, l>> \in Seq(LoadRecord) /\ Range(<<g, l>>) = {g, l}
    BY PairRange
  <2>2. PICK ls \in Seq(LoadRecord) : ls = <<g, l>> /\ Range(ls) = {g, l} /\ Len(ls) = 2
    BY <2>a, <2>b
  <2>3. Range(loads') = Range(loads) \cup {g, l} /\ loads' # <<>>
    <3>1. loads' = loads \o ls
      BY <1>5, <2>1, <2>2
    <3>2. Range(loads') = Range(loads) \cup Range(ls) /\ Len(loads') = Len(loads) + Len(ls)
      BY <1>0, <3>1, GrownRange
    <3> QED
      BY <1>0, <2>2, <3>2
  <2>4. ops' = <<>> /\ Range(ops') = {}
    BY <1>0, <2>3, AloneNow DEF Range
  <2>5. InRange(query) /\ (table = "user" => query.page = 1)
    BY <1>0, <2>4 DEF PageInv
  <2>6. \A x \in Range(loads') : Later(x) => InRange(x.q)
    BY <2>1, <2>3, <2>5 DEF PageInv
  <2> QED
    BY <1>0, <1>5, <2>4, <2>5, <2>6, RangeNext
<1>6. CASE query' # query /\ loads' = loads \o <<Load(query', {})>>
  <2>1. PICK q \in Query : q = query'
    BY <1>0
  <2>2. loads' # <<>>
    BY <1>0, <1>1, <1>6, OneMore
  <2>3. ops = <<>>
    BY <1>0, <2>2, AloneNow
  <2>4. q.page = 1 => InRange(q)
    BY FirstInRange
  <2>5. ASSUME q.page # 1 PROVE InRange(q)
    <3>1. /\ q.page \in 1 .. LastPage(shown.total, query.size)
          /\ q.size = query.size /\ q.search = query.search /\ q.filter = query.filter
      BY <1>6, <2>1, <2>5 DEF BrowseIs
    <3>2. q.page > 1
      <4>1. q.page \in Int /\ q.page >= 1
        BY <3>1 DEF Query
      <4> QED
        BY <2>5, <4>1
    <3>3. loads = <<>>
      BY <1>0, <1>6, <2>1, <3>2 DEF Watch
    <3>4. Answer(query) = View
      BY <1>q, <2>3, <3>3 DEF ViewInv, Idle, Range
    <3>5. shown.total = Cardinality(Matching(query))
      BY <3>4, ShownRows
    <3>6. Matching(q) = Matching(query)
      BY <3>1 DEF Matching
    <3> QED
      BY <3>1, <3>5, <3>6 DEF InRange
  <2>6. table # "user"
    BY <1>6 DEF BrowseIs
  <2> QED
    BY <1>3, <1>6, <2>1, <2>4, <2>5, <2>6
<1> QED
  BY <1>2, <1>4, <1>5, <1>6 DEF BrowseIs

LEMMA RangeDialogs ==
    ASSUME Types, Types', CalmInv, Alone', ViewInv, PageInv, Mark \/ Ask \/ Agree \/ Dismiss,
           table' = table, Corrected' => Corrected
    PROVE  PageInv'
<1> SUFFICES ASSUME Corrected, Corrected' PROVE PageInv'
  BY DEF PageInv
<1>0. /\ UNCHANGED <<store, query, shown, loads, stranded>> /\ ~overlap /\ ~overlap'
      /\ ~stranded /\ query \in Query
  BY DEF Mark, Ask, Confirm, Agree, Accept, Dismiss, Sent, backend, asked, past, Corrected, Calm,
     PageInv, Types
<1>q. Quiet
  BY CorrectedQuiet
<1>1. CASE ops' = ops
  BY <1>0, <1>1, RangeNext DEF PageInv
<1>2. CASE Agree
  <2>1. PICK kind, flag : Accept(kind, flag) /\ kind \in {"clear", "purge"}
    BY <1>2 DEF Agree
  <2>2. /\ modal.op \in SoundOp /\ Send(modal.op) /\ Asking /\ modal.op.kind = kind
    BY <2>1 DEF Accept, Types, Asking
  <2>3. loads = <<>> /\ loads' = <<>>
    BY <1>0, <2>2 DEF CalmInv
  <2>4. /\ ops \in Seq(SoundOp) /\ ops' = Append(ops, modal.op) /\ Len(ops) \in Nat
        /\ Len(ops') = Len(ops) + 1 /\ ops' # <<>>
    BY <2>2 DEF Send, Types
  <2>5. Len(ops') + Len(loads') <= 1
    BY <1>0, <2>4 DEF Alone
  <2>6. ops = <<>> /\ Range(loads) = {}
    <3>1. Len(loads') = 0 /\ Len(ops) = 0
      BY <2>3, <2>4, <2>5
    <3> QED
      BY <2>3, <2>4, <3>1 DEF Range
  <2>7. Answer(query) = View
    BY <1>q, <2>6 DEF ViewInv, Idle
  <2>8. PICK o \in SoundOp : o = modal.op
    BY <2>2
  <2>9. Range(ops') = {o}
    <3>1. ops' = <<o>>
      BY <2>4, <2>6, <2>8
    <3> QED
      BY <3>1, OneRange
  <2>10. Counts(o)
    <3>1. o.total = Cardinality(Matching(query)) /\ o.kind # "delete"
      BY <1>0, <2>1, <2>2, <2>7, <2>8, ShownRows DEF CalmInv, SameRender
    <3>2. o.total \in Nat /\ o.ok \in SUBSET (Keys \cup {0})
      BY <2>8 DEF SoundOp, OpRecord
    <3>3. Cardinality(o.ok) \in Nat
      BY <3>2, KeySets
    <3> QED
      BY <3>1, <3>2, <3>3 DEF Counts
  <2> QED
    BY <1>0, <2>4, <2>6, <2>9, <2>10, RangeNext DEF PageInv
<1> QED
  BY <1>1, <1>2 DEF Mark, Ask, Confirm, Dismiss

\* What the pages start, with what the click on a route gives.
LEMMA StartsOne ==
    ASSUME Starts
    PROVE  \E kind, keys, todo, g :
              /\ Start1(kind, keys, todo, g) /\ kind # "purge"
              /\ kind = "delete" /\ table \in Routes =>
                    \E k \in RowKeys : keys = {k} /\ k \in Keys
<1> DEFINE OnRoute(kind, keys) ==
               kind = "delete" /\ table \in Routes => \E k \in RowKeys : keys = {k} /\ k \in Keys
<1>1. ASSUME NEW kind, NEW keys, NEW todo, NEW g, Start1(kind, keys, todo, g), kind # "purge",
             OnRoute(kind, keys)
      PROVE  \E k, ks, t, h : Start1(k, ks, t, h) /\ k # "purge" /\ OnRoute(k, ks)
  BY <1>1
<1>2. \A keys \in Batches, g \in NullOr(groups) : StartAdd(keys, g) => Start1("add", keys, {0}, g)
  BY DEF StartAdd
<1>3. ASSUME NEW k \in Keys, StartRemoval(k)
      PROVE  Start1("delete", {k}, {k}, None) /\ OnRoute("delete", {k})
  BY <1>3 DEF StartRemoval
<1>4. ASSUME NEW k \in Keys, StartDeletion(k)
      PROVE  Start1("delete", {k}, {k}, None) /\ OnRoute("delete", {k})
  BY <1>4 DEF StartDeletion
<1>5. \A g \in NullOr(groups) : StartRegroup(g) => Start1("regroup", selected, selected, g)
  BY DEF StartRegroup
<1>6. \A g \in Groups : StartDropping(g) => Start1("dropgroup", {}, {0}, g)
  BY DEF StartDropping
<1>7. \A k \in Keys, g \in NullOr(groups) : StartPatch(k, g) => Start1("patch", {k}, {k}, g)
  BY DEF StartPatch
<1>8. \A kind, keys : kind # "delete" => OnRoute(kind, keys)
  OBVIOUS
<1>9. \E kind, keys, todo, g : Start1(kind, keys, todo, g) /\ kind # "purge" /\ OnRoute(kind, keys)
  <2> HIDE DEF OnRoute
  <2>1. CASE \E keys \in Batches, g \in NullOr(groups) : StartAdd(keys, g)
    BY <1>1, <1>2, <1>8, <2>1
  <2>2. CASE \E k \in Keys : StartRemoval(k) \/ StartDeletion(k)
    BY <1>1, <1>3, <1>4, <2>2
  <2>3. CASE \E g \in NullOr(groups) : StartRegroup(g)
    BY <1>1, <1>5, <1>8, <2>3
  <2>4. CASE \E g \in Groups : StartDropping(g)
    BY <1>1, <1>6, <1>8, <2>4
  <2>5. CASE \E k \in Keys, g \in NullOr(groups) : StartPatch(k, g)
    <3>1. PICK k \in Keys, g \in NullOr(groups) : StartPatch(k, g)
      BY <2>5
    <3>2. Start1("patch", {k}, {k}, g) /\ OnRoute("patch", {k})
      BY <1>7, <1>8, <3>1
    <3> QED
      BY <1>1, <3>2
  <2> QED
    BY <2>1, <2>2, <2>3, <2>4, <2>5 DEF Starts
<1> QED
  BY <1>9

LEMMA RangeStarts ==
    ASSUME Types, Types', Alone', ViewInv, PageInv, Starts, table' = table,
           Corrected' => Corrected
    PROVE  PageInv'
<1> SUFFICES ASSUME Corrected, Corrected' PROVE PageInv'
  BY DEF PageInv
<1>q. Quiet
  BY CorrectedQuiet
<1>1. PICK kind, keys, todo, g :
        /\ Start1(kind, keys, todo, g) /\ kind # "purge"
        /\ kind = "delete" /\ table \in Routes => \E k \in RowKeys : keys = {k} /\ k \in Keys
  BY StartsOne
<1>2. PICK o : o = Op(kind, keys, todo, g)
  OBVIOUS
<1>3. /\ ops' = Append(ops, o) /\ UNCHANGED <<store, query, shown, loads, stranded>> /\ ~overlap'
      /\ ~stranded /\ query \in Query
  BY <1>1, <1>2 DEF Start1, Send, Sent, backend, asked, past, Corrected, Calm, PageInv, Types
<1>4. /\ o.kind = kind /\ o.keys = keys /\ o.ok = {} /\ o.q = query /\ o.n = Cardinality(RowKeys)
      /\ o.total = shown.total
  BY <1>2, OpRender
<1>5. /\ ops \in Seq(SoundOp) /\ loads \in Seq(LoadRecord) /\ Len(ops) \in Nat /\ Len(loads) \in Nat
      /\ Len(ops') = Len(ops) + 1 /\ ops' # <<>>
  BY <1>3 DEF Types
<1>6. Len(ops') + Len(loads') <= 1
  BY <1>3, <1>5 DEF Alone
<1>7. Len(ops) = 0 /\ Len(loads) = 0
  BY <1>3, <1>5, <1>6
<1>8. ops = <<>> /\ loads = <<>> /\ Range(loads) = {}
  BY <1>5, <1>7 DEF Range
<1>9. Answer(query) = View
  BY <1>q, <1>8 DEF ViewInv, Idle
<1>10. Range(ops') = {o}
  <2>1. ops' = <<o>>
    BY <1>3, <1>8
  <2> QED
    BY <2>1, OneRange
<1>11. /\ shown.total = Cardinality(Matching(query))
       /\ \A k \in RowKeys : shown.total >= (query.page - 1) * query.size + 1
       /\ \A j, k \in RowKeys : j < k => shown.total >= (query.page - 1) * query.size + 2
  BY <1>9, ShownRows
<1>12. o.kind \in {"delete", "purge"} => Cardinality(Matching(query)) >= o.total - Cardinality(o.ok)
  <2>1. Cardinality(o.ok) = 0 /\ o.total \in Nat
    BY <1>4, FS_EmptySet DEF Types, Shown
  <2> QED
    BY <1>4, <1>11, <2>1
<1>13. ASSUME o.kind = "delete", table \in Routes
       PROVE  /\ \E k \in Keys : o.keys = {k}
              /\ o.total >= (o.q.page - 1) * o.q.size + (IF o.n = 1 THEN 1 ELSE 2)
  <2>1. PICK k \in RowKeys : keys = {k} /\ k \in Keys
    BY <1>1, <1>4, <1>13
  <2>2. CASE o.n = 1
    BY <1>4, <1>11, <2>1, <2>2
  <2>3. CASE o.n # 1
    <3>1. RowKeys # {k}
      BY <1>4, <2>3, FS_Singleton
    <3>2. PICK j \in RowKeys : j # k
      BY <2>1, <3>1
    <3>3. j \in Nat /\ k \in Nat
      BY <2>1, PagedTableAssumption DEF RowKeys
    <3>4. j < k \/ k < j
      BY <3>2, <3>3
    <3> QED
      BY <1>4, <1>11, <2>1, <2>3, <3>4
  <2> QED
    BY <2>2, <2>3
<1>14. Counts(o)
  BY <1>12, <1>13 DEF Counts
<1> QED
  BY <1>3, <1>5, <1>8, <1>10, <1>14, RangeNext DEF PageInv

LEMMA RangeAnswered ==
    ASSUME Types, NEW q \in Query, InRange(q) PROVE Answer(q) # NotFound
<1>1. PICK M : M = Matching(q)
  OBVIOUS
<1>2. PICK r : r = [k \in Keys |->
                      IF k \in M /\ (Cardinality({j \in M : j <= k}) - 1) \div q.size = q.page - 1
                      THEN store[k] ELSE Absent]
  OBVIOUS
<1>3. Answer(q) = [rows |-> r, total |-> Cardinality(M)]
  BY <1>1, <1>2 DEF Answer, InRange
<1>4. M \in SUBSET (Keys \cup {0})
  BY <1>1 DEF Matching, Existing
<1>5. Cardinality(M) \in Nat
  BY <1>4, KeySets
<1>6. r \in [Keys -> Values]
  <2>1. \A k \in Keys : store[k] \in Values /\ Absent \in Values
    BY DEF Types, Values
  <2> QED
    BY <1>2, <2>1
<1>7. Answer(q) \in Answers
  BY <1>3, <1>5, <1>6 DEF Answers
<1> QED
  BY <1>7, StatesApart

LEMMA RangeLists ==
    ASSUME Types, Types', CalmInv, ViewInv, PageInv, NEW i \in DOMAIN loads, Lists(i),
           table' = table, Corrected' => Corrected
    PROVE  PageInv'
<1> SUFFICES ASSUME Corrected, Corrected' PROVE PageInv'
  BY DEF PageInv
<1>0. /\ loads \in Seq(LoadRecord) /\ loads[i] \in LoadRecord /\ loads # <<>> /\ ~overlap
      /\ loads[i] \in Range(loads) /\ query \in Query
  BY DEF Types, Corrected, Calm, Range
<1>q. Quiet
  BY CorrectedQuiet
<1>1. ops = <<>> /\ Range(ops) = {}
  BY <1>0, NoRequest
<1>2. PICK r \in Seq(LoadRecord) : r = RemoveAt(loads, i) /\ Range(r) \subseteq Range(loads)
  BY <1>0, RemoveAtIs, RemoveAtRange
<1>3. UNCHANGED <<store, query, ops>>
  BY DEF Lists, LoadDone, loadGroups, loadWorkerGroups, GroupsDone, backend, asked
<1>4. ASSUME ~stranded', \A l \in Range(loads') : l \in Range(loads) \/ l.q = loads[i].q,
             Later(loads[i]) \/ Range(loads') \subseteq Range(loads)
      PROVE  PageInv'
  <2>1. \A l \in Range(loads') : Later(l) => InRange(l.q)
    BY <1>0, <1>4 DEF PageInv
  <2> QED
    BY <1>0, <1>1, <1>3, <1>4, <2>1, RangeNext DEF PageInv
<1>5. CASE LoadDone(i)
  <2>1. /\ loads[i].what = "rows" /\ loads[i].ans # Pending /\ loads' = r
        /\ stranded' = (stranded \/ loads[i].ans = NotFound)
    BY <1>2, <1>5 DEF LoadDone
  <2>2. PICK q \in Query : q = loads[i].q
    BY <1>0 DEF LoadRecord
  <2>3. loads[i].ans = Answer(q) /\ InRange(q)
    BY <1>q, <1>0, <2>1, <2>2 DEF ViewInv, PageInv, Later
  <2>4. ~stranded'
    BY <2>1, <2>3, RangeAnswered DEF PageInv
  <2> QED
    BY <1>2, <1>4, <2>1, <2>4
<1>6. CASE GroupsDone(i, <<>>)
  <2>1. loads' = r \o <<>> /\ stranded' = stranded
    BY <1>2, <1>6 DEF GroupsDone, past
  <2>2. loads' = r
    BY <1>2, <2>1
  <2> QED
    BY <1>2, <1>4, <2>1, <2>2 DEF PageInv
<1>7. ASSUME loads[i].frees # {}, GroupsDone(i, <<Load(loads[i].q, loads[i].frees)>>)
      PROVE  PageInv'
  <2>a. loads[i].q \in Query /\ loads[i].frees \in Frees
    BY <1>0 DEF LoadRecord
  <2>b. Load(loads[i].q, loads[i].frees) \in LoadRecord
    BY <2>a, LoadTypes
  <2>c. Load(loads[i].q, loads[i].frees).q = loads[i].q
    BY DEF Load
  <2>1. PICK l \in LoadRecord : l = Load(loads[i].q, loads[i].frees) /\ l.q = loads[i].q
    BY <2>b, <2>c
  <2>2. loads' = r \o <<l>> /\ stranded' = stranded /\ Later(loads[i])
    BY <1>2, <1>7, <2>1 DEF GroupsDone, past, Later, Chained
  <2>3. <<l>> \in Seq(LoadRecord) /\ Range(<<l>>) = {l}
    BY OneRange
  <2>d. PICK t \in Seq(LoadRecord) : t = <<l>>
    BY <2>3
  <2>4. Range(r \o t) = Range(r) \cup Range(t)
    BY <1>2, ConcatRange
  <2> QED
    BY <1>2, <1>4, <2>1, <2>2, <2>3, <2>4, <2>d DEF PageInv
<1>8. CASE loadWorkerGroups(i)
  <2>1. CASE loads[i].frees # {}
    BY <1>7, <1>8, <2>1 DEF loadWorkerGroups
  <2>2. CASE loads[i].frees = {}
    BY <1>6, <1>8, <2>2 DEF loadWorkerGroups
  <2> QED
    BY <2>1, <2>2
<1> QED
  BY <1>5, <1>6, <1>8 DEF Lists, loadGroups

\* Why the page may stay where it is when the handler of o ends.
Kept(o) ==
    \/ o.ok = {} \/ o.kind = "patch" \/ o.kind \in Uncorrected
    \/ o.q.page = 1 \/ table = "user"
    \/ o.kind = "delete" /\ table \in Routes /\ ~(o.n = 1 /\ o.q.page > 1)
    \/ o.kind \in {"delete", "purge"} /\ ~(o.q.page > LastOf(o))

LEMMA CloseKeeps ==
    ASSUME Types, NEW i \in DOMAIN ops, Closes(i), ops[i].q = query, query' = query
    PROVE  Kept(ops[i])
<1> DEFINE o == ops[i]
<1>0. query \in Query /\ query.page \in Int
  BY DEF Types, Query
<1>p. ASSUME NEW p \in Int, query' = [query EXCEPT !.page = p] PROVE query.page = p
  BY <1>p, PageTo
<1>l. LastOf(o) \in Int
  <2>1. o \in SoundOp
    BY DEF Types
  <2> QED
    BY <2>1, LastFor DEF LastOf
<1>1. CASE domainsAdded(i)
  <2>1. CASE o.ok = {}
    BY <2>1 DEF Kept
  <2>2. CASE o.ok # {}
    <3>1. query' = [query EXCEPT !.page = 1]
      BY <1>1, <2>2 DEF domainsAdded, MoveTo
    <3>2. PICK p \in Int : p = 1
      OBVIOUS
    <3>3. query.page = 1
      BY <1>p, <3>1, <3>2
    <3> QED
      BY <3>3 DEF Kept
  <2> QED
    BY <2>1, <2>2
<1>2. CASE cidrsAdded(i)
  <2>1. CASE o.ok = {}
    BY <2>1 DEF Kept
  <2>2. CASE o.ok # {} /\ o.q.page # 1
    <3>1. query' = [query EXCEPT !.page = 1]
      BY <1>2, <2>2 DEF cidrsAdded, FirstPage, MoveTo
    <3>2. PICK p \in Int : p = 1
      OBVIOUS
    <3>3. query.page = 1
      BY <1>p, <3>1, <3>2
    <3> QED
      BY <3>3 DEF Kept
  <2>3. CASE o.q.page = 1
    BY <2>3 DEF Kept
  <2> QED
    BY <2>1, <2>2, <2>3
<1>3. CASE cidrsCleared(i)
  BY <1>3 DEF cidrsCleared, Answered, Types, SoundOp, Kept
<1>4. CASE table \in Routes /\ Removed(i)
  <2>1. o.kind = "delete"
    BY <1>4 DEF Removed, Answered
  <2>2. CASE o.ok = {}
    BY <2>2 DEF Kept
  <2>3. CASE o.ok # {} /\ o.n = 1 /\ o.q.page > 1
    <3>1. query' = [query EXCEPT !.page = query.page - 1]
      BY <1>4, <2>3 DEF Removed, MoveTo
    <3>2. PICK p \in Int : p = query.page - 1
      BY <1>0
    <3>3. query.page = p
      BY <1>p, <3>1, <3>2
    <3> QED
      BY <1>0, <3>2, <3>3
  <2> QED
    BY <1>4, <2>1, <2>2, <2>3 DEF Kept
<1>5. CASE table \in Routes /\ (SelectedChanged(i) \/ SelectedDeleted(i))
  <2>1. o.kind \in {"purge", "regroup"}
    BY <1>5 DEF SelectedChanged, SelectedDeleted, Answered
  <2>2. Uncorrected = {"purge", "regroup"}
    BY <1>5 DEF Uncorrected, Routes
  <2> QED
    BY <2>1, <2>2 DEF Kept
<1>6. CASE groupRemoved(i) \/ workerRemoved(i) \/ groupUpdated(i)
  BY <1>6 DEF groupRemoved, workerRemoved, groupUpdated, Answered, IsWorkers, Routes, Uncorrected,
     Kept
<1>7. CASE GroupChanged(i) \/ userRemoved(i)
  BY <1>7 DEF GroupChanged, userRemoved, Answered, IsUsers, Kept
<1>8. ASSUME NEW frees, Correct(o, LastOf(o), frees), o.kind = "purge" PROVE Kept(o)
  <2>1. CASE o.q.page > LastOf(o)
    <3>1. query' = [query EXCEPT !.page = LastOf(o)]
      BY <1>8, <2>1 DEF Correct, MoveTo
    <3>2. query.page = LastOf(o)
      BY <1>l, <1>p, <3>1
    <3> QED
      BY <1>0, <1>l, <2>1, <3>2
  <2>2. CASE ~(o.q.page > LastOf(o))
    BY <1>8, <2>2 DEF Kept
  <2> QED
    BY <2>1, <2>2
<1>9. CASE workersPurged(i)
  BY <1>8, <1>9 DEF workersPurged, Answered, LastOf
<1>10. CASE bulkRemoved(i)
  BY <1>8, <1>10 DEF bulkRemoved, Answered, MaxPage, LastOf
<1>11. CASE removed(i)
  <2>1. o.kind = "delete"
    BY <1>11 DEF removed, Answered
  <2>2. CASE o.ok = {}
    BY <2>2 DEF Kept
  <2>3. CASE o.ok # {} /\ o.q.page > LastOf(o)
    <3>1. query' = [query EXCEPT !.page = LastOf(o)]
      BY <1>11, <2>3 DEF removed, MaxPage, LastOf, MoveTo
    <3>2. query.page = LastOf(o)
      BY <1>l, <1>p, <3>1
    <3> QED
      BY <1>0, <1>l, <2>3, <3>2
  <2> QED
    BY <2>1, <2>2, <2>3 DEF Kept
<1> QED
  BY <1>1, <1>2, <1>3, <1>4, <1>5, <1>6, <1>7, <1>9, <1>10, <1>11
  DEF Closes, RouteCloses, WorkerCloses

\* A page computed from what a handler knows of the total is there.
LEMMA LastInRange ==
    ASSUME Types, NEW o \in SoundOp, Counts(o), o.kind \in {"delete", "purge"}, o.q = query,
           NEW q \in Query, q.size = query.size, q.search = query.search, q.filter = query.filter,
           q.page >= 1, ~(q.page > LastOf(o))
    PROVE  InRange(q)
<1>1. Matching(q) = Matching(query)
  BY DEF Matching
<1>2. PICK M \in SUBSET (Keys \cup {0}) : M = Matching(query)
  BY DEF Matching, Existing
<1>3. PICK n \in Nat : n = Cardinality(M)
  BY KeySets
<1>4. PICK left \in Int : left = o.total - Cardinality(o.ok)
  BY LastFor
<1>5. n >= left
  BY <1>2, <1>3, <1>4 DEF Counts
<1>6. PICK m \in Nat : m = IF left < 0 THEN 0 ELSE left
  OBVIOUS
<1>7. m <= n
  BY <1>3, <1>5, <1>6
<1>8. PICK s \in Nat \ {0} : s = query.size
  BY PagedTableAssumption DEF Query
<1>9. LastOf(o) = LastPage(m, s)
  BY <1>4, <1>6, <1>8 DEF LastOf
<1>10. LastPage(m, s) \in 1 .. LastPage(n, s) /\ LastPage(n, s) \in Nat \ {0}
  BY <1>7, LastPageGrows, LastPagePositive
<1>11. q.page \in Int
  BY DEF Query
<1>12. q.page \in 1 .. LastPage(n, s)
  BY <1>9, <1>10, <1>11
<1> QED
  BY <1>1, <1>2, <1>3, <1>8, <1>12 DEF InRange

\* The end of a handler leaves the page where there is one.
LEMMA EndInRange ==
    ASSUME Types, CalmInv, ViewInv, PageInv, PagePositive, NEW i \in DOMAIN ops, Closes(i),
           EndsAs(i), table' = table, Corrected, Corrected', NEW q \in Query, q = query'
    PROVE  InRange(q) /\ (table = "user" => q.page = 1)
<1>1. PICK o : o = ops[i]
  OBVIOUS
<1>2. /\ EndsOf(o) /\ o \in SoundOp /\ ~overlap /\ ~edited' /\ via' \cap Uncorrected = {}
      /\ o.ok # {} => o.kind \in via'
  <2>1. Uncorrected' = Uncorrected
    BY DEF Uncorrected
  <2> QED
    BY <1>1, <2>1 DEF EndsAs, EndsOf, Close, Corrected, Calm
<1>3. o.q = query /\ o \in Range(ops) /\ query \in Query /\ query.page \in Int /\ query.page >= 1
  BY <1>1, <1>2, SoleRequest DEF SameRender, Types, Query, PagePositive
<1>4. ViewOp(o) /\ Counts(o)
  BY <1>3, CorrectedQuiet DEF ViewInv, PageInv
<1>5. table = "user" => query.page = 1
  BY DEF PageInv
<1>6. PICK s \in Nat \ {0} : s = query.size
  BY <1>3, PagedTableAssumption DEF Query
<1>7. PICK M \in SUBSET (Keys \cup {0}) : M = Matching(query)
  BY DEF Matching, Existing
<1>8. PICK n \in Nat : n = Cardinality(M)
  BY KeySets
<1>9. ASSUME o.kind = "delete", table \in Routes, o.ok # {}
      PROVE  \E total \in Nat : n >= total - 1
             /\ total >= (query.page - 1) * s + (IF o.n = 1 THEN 1 ELSE 2)
  <2>1. /\ n >= o.total - Cardinality(o.ok) /\ o.total \in Nat
        /\ o.total >= (query.page - 1) * s + (IF o.n = 1 THEN 1 ELSE 2)
    BY <1>2, <1>3, <1>4, <1>6, <1>7, <1>8, <1>9 DEF Counts, SoundOp, OpRecord
  <2>2. PICK k \in Keys : o.keys = {k}
    BY <1>4, <1>9 DEF Counts
  <2>3. o.ok = {k}
    BY <1>2, <1>9, <2>2 DEF SoundOp
  <2>4. Cardinality(o.ok) = 1
    BY <2>3, FS_Singleton
  <2> QED
    BY <2>1, <2>4
<1>10. TurnsTo(o)
  BY <1>1, CloseTurns
<1>11. CASE query' = query
  <2>1. Kept(o) /\ q = query
    BY <1>1, <1>3, <1>11, CloseKeeps
  <2>2. CASE o.ok = {}
    BY <1>2, <1>4, <1>5, <2>1, <2>2, ViewInRange
  <2>3. CASE o.ok # {} /\ o.kind = "patch"
    <3>1. query.filter = All
      BY <1>2, <2>3 DEF EndsOf
    <3> QED
      BY <1>2, <1>4, <1>5, <2>1, <2>3, <3>1, ViewInRange
  <2>4. ASSUME o.ok # {}, o.kind \in Uncorrected PROVE FALSE
    BY <1>2, <2>4
  <2>5. CASE o.q.page = 1 \/ table = "user"
    BY <1>3, <1>5, <2>1, <2>5, FirstInRange
  <2>6. CASE o.ok # {} /\ o.kind = "delete" /\ table \in Routes /\ ~(o.n = 1 /\ o.q.page > 1)
    <3>1. PICK total \in Nat : /\ n >= total - 1
                               /\ total >= (query.page - 1) * s + (IF o.n = 1 THEN 1 ELSE 2)
      BY <1>9, <2>6
    <3>2. PICK c \in Int : c = (query.page - 1) * s
      BY <1>3
    <3>3. query.page = 1 \/ c < n
      BY <1>3, <2>6, <3>1, <3>2
    <3>4. query.page \in 1 .. LastPage(n, s)
      BY <1>3, <3>2, <3>3, PageReached
    <3> QED
      BY <1>5, <1>6, <1>7, <1>8, <2>1, <3>4 DEF InRange
  <2>7. CASE o.kind \in {"delete", "purge"} /\ ~(o.q.page > LastOf(o))
    BY <1>2, <1>3, <1>4, <1>5, <2>1, <2>7, LastInRange
  <2> QED
    BY <2>1, <2>2, <2>3, <2>4, <2>5, <2>6, <2>7 DEF Kept
<1>12. CASE o.kind = "add" /\ query' = [query EXCEPT !.page = 1]
  <2>1. q.page = 1
    BY <1>3, <1>12 DEF Query
  <2> QED
    BY <2>1, FirstInRange
<1>13. CASE /\ o.kind = "delete" /\ table \in Routes /\ o.ok # {} /\ o.n = 1 /\ o.q.page > 1
            /\ query' = [query EXCEPT !.page = query.page - 1]
  <2>1. /\ q.page = query.page - 1 /\ q.size = query.size /\ q.search = query.search
        /\ q.filter = query.filter
    BY <1>3, <1>13 DEF Query
  <2>2. Matching(q) = M
    BY <1>7, <2>1 DEF Matching
  <2>3. PICK total \in Nat : n >= total - 1 /\ total >= (query.page - 1) * s + 1
    BY <1>9, <1>13
  <2>4. PICK c \in Int : c = (q.page - 1) * s
    BY <1>3, <2>1
  <2>5. (query.page - 1) * s = c + s
    <3>1. q.page \in Int
      BY <1>3, <2>1
    <3>2. q.page * s = (q.page - 1) * s + s
      BY <3>1
    <3> QED
      BY <2>1, <2>4, <3>2
  <2>6. c < n
    BY <2>3, <2>4, <2>5
  <2>7. q.page \in Nat \ {0}
    BY <1>3, <1>13, <2>1
  <2>8. q.page \in 1 .. LastPage(n, s)
    BY <2>4, <2>6, <2>7, PageReached
  <2>9. InRange(q)
    BY <1>6, <1>8, <2>1, <2>2, <2>8 DEF InRange
  <2> QED
    BY <1>13, <2>9 DEF Routes
<1>14. CASE /\ \/ o.kind = "purge" /\ table \in {"worker", "proxy"}
               \/ o.kind = "delete" /\ table = "proxy" /\ o.ok # {}
            /\ o.q.page > LastOf(o) /\ query' = [query EXCEPT !.page = LastOf(o)]
  <2>1. LastOf(o) \in Nat \ {0}
    BY <1>2, LastFor DEF LastOf
  <2>2. /\ q.page = LastOf(o) /\ q.size = query.size /\ q.search = query.search
        /\ q.filter = query.filter
    BY <1>3, <1>14 DEF Query
  <2>a. q.page >= 1 /\ ~(q.page > LastOf(o)) /\ o.kind \in {"delete", "purge"}
    BY <1>14, <2>1, <2>2
  <2>3. InRange(q)
    BY <1>2, <1>3, <1>4, <2>2, <2>a, LastInRange
  <2> QED
    BY <1>14, <2>3
<1> QED
  BY <1>10, <1>11, <1>12, <1>13, <1>14 DEF TurnsTo

LEMMA RangeCloses ==
    ASSUME Types, Types', CalmInv, ViewInv, PageInv, PagePositive, NEW i \in DOMAIN ops, Closes(i),
           EndsAs(i), table' = table, Corrected' => Corrected
    PROVE  PageInv'
<1> SUFFICES ASSUME Corrected, Corrected' PROVE PageInv'
  BY DEF PageInv
<1>1. PICK o : o = ops[i]
  OBVIOUS
<1>2. /\ ops' = RemoveAt(ops, i) /\ EndsOf(o) /\ o \in SoundOp /\ store' = store /\ ~overlap
      /\ stranded' = stranded /\ ~stranded
  BY <1>1 DEF EndsAs, EndsOf, Close, backend, Corrected, Calm, PageInv
<1>3. /\ loads = <<>> /\ o.q = query /\ ops' = <<>> /\ Range(ops') = {} /\ Range(loads) = {}
      /\ loads \in Seq(LoadRecord)
  <2>1. loads = <<>> /\ SameRender(o) /\ RemoveAt(ops, i) = <<>>
    BY <1>1, <1>2, SoleRequest
  <2> QED
    BY <1>2, <2>1 DEF Range, SameRender
<1>4. PICK q \in Query : q = query'
  BY DEF Types
<1>5. InRange(q) /\ (table = "user" => q.page = 1)
  BY <1>4, EndInRange
<1>6. ASSUME \A l \in Range(loads') : l.q = q PROVE PageInv'
  BY <1>2, <1>3, <1>4, <1>5, <1>6, RangeNext
<1>7. CASE Quits(o) \/ Patches(o)
  BY <1>3, <1>6, <1>7 DEF Quits, Patches
<1>8. CASE Turns(o)
  <2>1. PICK p \in Int : query' = [query EXCEPT !.page = p] /\ p # query.page
    BY <1>2, <1>3, <1>8, TurnsIs
  <2>2. query' # query
    BY <2>1, PageTo
  <2>3. loads' = loads \o <<Load(q, {})>>
    BY <1>2, <1>4, <1>8, <2>2, TurnsIs
  <2>4. Load(q, {}) \in LoadRecord /\ Load(q, {}).q = q
    <3>1. {} \in Frees
      BY DEF Frees
    <3> QED
      BY <3>1, LoadTypes DEF Load
  <2>5. Range(loads') = Range(loads) \cup {Load(q, {})}
    BY <1>3, <2>3, <2>4, OneMore
  <2> QED
    BY <1>3, <1>6, <2>4, <2>5
<1>9. CASE Reloads(o)
  <2>1. PICK l \in LoadRecord : query' = query /\ l.q = query /\ loads' = loads \o <<l>>
    BY <1>3, <1>9 DEF Reloads, LoadsOne
  <2>2. Range(loads') = Range(loads) \cup {l}
    BY <1>3, <2>1, OneMore
  <2> QED
    BY <1>3, <1>4, <1>6, <2>1, <2>2
<1>10. CASE Twice(o)
  BY <1>3, <1>10 DEF Twice
<1> QED
  BY <1>2, <1>7, <1>8, <1>9, <1>10 DEF EndsOf

LEMMA RangeStep ==
    Types /\ Types' /\ CalmInv /\ CalmInv' /\ ViewInv /\ PagePositive /\ PageInv /\ [Next]_vars
    => PageInv'
<1> SUFFICES ASSUME Types, Types', CalmInv, CalmInv', ViewInv, PagePositive, PageInv, [Next]_vars
             PROVE  PageInv'
  OBVIOUS
<1>1. CASE UNCHANGED vars
  <2>1. UNCHANGED <<table, query, loads, ops, store, overlap, overtaken, faults, stranded, edited,
                    via>>
    BY <1>1 DEF vars, asked, backend, budgets, past
  <2>2. Corrected' => Corrected
    BY <2>1 DEF Corrected, Calm, Uncorrected
  <2>3. query \in Query
    BY DEF Types
  <2> QED
    BY <2>1, <2>2, <2>3, RangeNext DEF PageInv
<1>2. CASE Next
  <2>1. Step /\ table' = table /\ Watch
    BY <1>2, NextIsStep DEF Types, Watch
  <2>2. Alone' /\ (Corrected' => Corrected)
    BY <1>2, <2>1, CorrectedBack, CalmParts DEF CalmInv, Alone
  <2>3. CASE BackendNext
    BY <2>1, <2>2, <2>3, RangeBackend
  <2>4. CASE Browse
    BY <2>1, <2>2, <2>4, BrowseDoes, RangeBrowse
  <2>5. CASE Mark \/ Ask \/ Agree \/ Dismiss
    BY <2>1, <2>2, <2>5, RangeDialogs
  <2>6. CASE Starts
    BY <2>1, <2>2, <2>6, RangeStarts
  <2>7. ASSUME NEW i \in DOMAIN loads, Lists(i) PROVE PageInv'
    BY <2>1, <2>2, <2>7, RangeLists
  <2>8. ASSUME NEW i \in DOMAIN ops, Closes(i) PROVE PageInv'
    BY <2>1, <2>2, <2>8, CloseEnds, RangeCloses
  <2> QED
    BY <2>1, <2>3, <2>4, <2>5, <2>6, <2>7, <2>8 DEF Step
<1> QED
  BY <1>1, <1>2

\* The removals that look at the last page never leave the pager behind the end:
\* at least as many rows are left as the total that a handler saw says, less what
\* it deleted, and a page on which it counted another row still has that one.
THEOREM PageCorrectedSafe == Spec => []PageCorrected
<1>1. Init => Types /\ OwnerInv /\ CalmInv /\ ViewInv /\ PagePositive /\ PageInv
  BY TypesInit, OwnerInit, CalmInit, ViewInit, PageInit, RangeInit
<1>2. Types /\ OwnerInv /\ CalmInv /\ ViewInv /\ PagePositive /\ PageInv /\ [Next]_vars
      => Types' /\ OwnerInv' /\ CalmInv' /\ ViewInv' /\ PagePositive' /\ PageInv'
  BY TypesStep, OwnerStep, CalmStep, ViewStep, PageStep, RangeStep
<1>3. PageInv => PageCorrected
  BY DEF PageInv, Corrected, PageCorrected
<1> QED
  BY <1>1, <1>2, <1>3, PTL DEF Spec
=============================================================================
