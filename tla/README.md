# TLA+ verification of split-proxy

This directory models the concurrent core of split-proxy and its admin panel,
model-checks them with TLC on small instances, and proves with TLAPS that every
safety property the runs check holds on instances of any size. Line numbers refer to the repository this directory belongs to;
`PROJECT.json` maps every definition to the lines it models.

## 1. The system

```
 client --> Proxy --(one WebSocket, many sessions)--> Broker --(one WebSocket each)--> Worker --> target
              ^                                          ^
        Redis, PostgreSQL  <------ Admin API ------>  PostgreSQL
```

| Component | State it keeps | Operations | Hard part |
|---|---|---|---|
| **Broker** `broker/broker.go` | `activeWorkers` (guid -> connection), `groups` with a round-robin counter, `sessions`, `proxyConnections`, a bounded channel per connection, the table `core_worker` | accept a Worker (`workerHandler`), remove it (`removeWorker`), read from it, sync groups from the database every 5 s, accept a Proxy, open / forward / close sessions, ordered shutdown | a dozen goroutine kinds share the four maps; a reconnecting Worker overlaps its own removal; the database is written by three parties; sends can block |
| **Worker** `worker/worker.go` | one broker connection at a time, a `sessions` table that outlives it, per session a socket, a write queue and three goroutines | reconnect loop, open TCP/UDP targets, pump both ways, clean up after a disconnect and after a signal | openers of an old connection run on after it; `close` races `setConn`; full queues |
| **Proxy, broker link** `proxy/cmd/proxy/broker.go` | the shared `brokerConn`, who dials it, sessions per connection | dial on demand, open a session, wait, tunnel, close | many clients race for one dial; the connection fails at any step; no timeout in `waitConnected` |
| **Proxy, authentication** `auth.go` | users, a generation number, a result cache, in-flight checks, a semaphore | `CheckCredentials`, `reload` every few seconds | results computed from old users and cached under a new generation |
| **Proxy, routing** `routing.go` | domain trie, CIDR tries, default route, a DNS cache | `ResolveRoute`, `loadRoutes` | three Redis reads that are not one; longest match |
| **Proxy, SOCKS5 UDP** `socks5_udp.go` | an association with a table of targets | relay datagrams, one reader per target | readers remove sessions the loop is using; mutexes held while a send blocks; one loop serves all targets |
| **Proxy, front** `main.go proxy.go http.go socks5.go ...` | a connection semaphore, metrics | detect the protocol, parse, authenticate, route | sequential |
| **Admin API** `admin/back` | groups, workers, proxies and users in PostgreSQL; routes in Redis | CRUD | read-modify-write of rows the Broker also writes; groups and routes live in two stores |
| **Admin front end** `admin/front` | the React state of each page; `localStorage`, which all tabs of a browser share | paged lists with search, filter, single and bulk changes; sign-in, guard, forms, API client | handlers are closures over an old render and go on after an `await`; requests overlap and are answered in any order; tabs sign in and out behind each other's back |

How they interact: a client's request reaches the Proxy, which resolves a route
to a group name; through its one connection it sends the Broker a request with a
fresh session id; the Broker picks the next Worker of the group, stores the
session and sends `CmdConnect`; the Worker dials the target in a new goroutine
and answers `CmdConnected` or `CmdClose`; then `CmdData` flows both ways until
somebody sends `CmdClose` or a connection ends. The Admin API never talks to the
Broker: the Broker polls `core_worker`, and writes `online` to it.

What makes the parts correct: the Broker never forwards a frame to the wrong
end, names no dead Worker as active, tells the Proxy about every end of a
session, follows the assignments of the Admin API and stops when told to; the
Worker loses no socket and no goroutine, answers every request and reports every
end; the Proxy has one connection, wakes every waiter and releases every client
of a failed connection; the panel shows what the backend holds for the query it
displays, leaves no control busy, and acts as the account it is signed in as.

## 2. Modules

| Module | Models | Checked by |
|---|---|---|
| `Broker` | `broker/broker.go`, and PATCH / DELETE of a worker in the Admin API | `MCBroker`, three `.cfg` files |
| `BrokerProofs` | theorems about `Broker` | TLAPS |
| `Worker` | `worker/worker.go` | `MCWorker` |
| `WorkerProofs` | theorems about `Worker` | TLAPS |
| `ProxyLink` | `proxy/cmd/proxy/broker.go` | `MCProxyLink`, two `.cfg` files |
| `LinkProofs` | theorems about `ProxyLink` | TLAPS |
| `AuthStore` | `proxy/cmd/proxy/auth.go` | `MCAuthStore` |
| `AuthProofs` | theorems about `AuthStore` | TLAPS |
| `Routing` | `proxy/cmd/proxy/routing.go` without its DNS cache; groups and routes in `admin/back/src/core` | `MCRouting` |
| `DNSCache` | the DNS cache of `proxy/cmd/proxy/routing.go` | `MCDNSCache` |
| `RoutingProofs` | theorems about `Routing` and `DNSCache` | TLAPS |
| `UDPAssociate` | `proxy/cmd/proxy/socks5_udp.go` | `MCUDPAssociate` |
| `UDPProofs` | theorems about `UDPAssociate` | TLAPS |
| `PagedTable` | what the list pages of `admin/front/src/pages` share: query, rows, selection, requests in flight; the backend's side of them | by `AdminTables` |
| `RoutesPage` | `pages/splitting/SplittingPage.tsx`: domains and CIDRs | by `AdminTables` |
| `WorkersPage` | `pages/group/GroupsPage.tsx`: workers and groups | by `AdminTables` |
| `ProxiesPage` | `pages/proxy/ProxiesPage.tsx`, `pages/UsersPage.tsx` | by `AdminTables` |
| `AdminTables` | the pages composed with the backend | `MCAdminTables` |
| `AdminTablesProofs` | theorems about `AdminTables` | TLAPS |
| `AdminShell` | `auth.tsx`, `App.tsx`, `shared/api`, `LoginPage.tsx` and the form pages, in several tabs | `MCAdminShell` |
| `OneAccount` | abstract: one browser, one session of one account | refined by `AdminShell` |
| `AdminShellProofs` | theorems about `AdminShell` | TLAPS |

### Conventions

* One action is one critical section, one database statement, one channel
  operation or one `sync.Map` access, with every assignment the code makes up to
  the next one. Stages of a goroutine are strings in a function variable (`hs`
  for `workerHandler`, `rem` for `removeWorker`, `ph` for `proxyHandler`, `op`
  for `openTCP`, `st` for `handleBroker`, ...).
* A `select` between a closed `done` and a buffered send with room is a random
  choice of the Go runtime: both outcomes are disjuncts.
* `sync.Once`: the second caller waits until the first has finished.
* `sync.Map.Range` visits every entry that is in the map from its start to its
  end and may visit later ones: `due` (and `pdue`) hold the entries it must visit.
* `isShuttingDown()` and the statement it guards are separate steps in the code.
  Where only the check and a following no-op matter, an action keeps both
  outcomes once the flag is set.
* Frames are a session id and a command; payloads, JSON and logging are left
  out. `CmdUDPConnect`/`CmdUDPData` behave as `CmdConnect`/`CmdData`; the Broker
  forwards `CmdConnected` as it forwards `CmdData`, and the model merges them.
* Session ids are fresh UUIDs: an id is used for one request. A request that
  repeats an id, or has no valid form, changes nothing in the Broker and is left
  out.
* A frame already buffered in a WebSocket is still read after another goroutine
  has closed the socket.
* History variables (`tainted`, `blanked`, `missed`, `misplaced`, `told`, `hungup`, `stored`, `late`, `edits`,
  `answered`, `said`, `overrun`, `from`, `horizon`, `floor`, `drift`,
  `renamed`, `source`, `queries`, `landed`, `since`, `overlap`, `overtaken`,
  `stranded`, `edited`, `via`, `acted`, `foreign`, `jumped`) guard nothing; they let
  properties refer to the past. (`edits` and `queries` also bound the environment.)
* Operators named in a comment as *Mutant* are variants of the action that
  follows them, each a bug the code could have had; they are not part of the
  specification and serve to show that the properties notice.

### Broker

`hs` follows `workerHandler`: `hello`, `register` (INSERT .. online=TRUE),
`registered` (SELECT of the group), `grouped`, `made` (after
`old := getActiveWorker`), `active` (after `setActiveWorker`), `listed` (after
`addWorkerToGroup`; waiting for `removeWorker(old)`), `up`. `rem` follows
`removeWorker`: `group`, `range`, `db`, `finished`; any number of goroutines may
call it (`RemoveCalled`). `groups[NoGroup]` is the list under the empty name: the
code adds a worker without a group to it but `moveWorkerToGroup` does not, and
the model keeps the difference. `snap`/`mv` are the sync loop's rows and the
worker it is about to move. `adm` is a PATCH between its SELECT and its UPDATE
of all columns. `ph` follows `proxyHandler` through `openProxySession`
(`store`, `send`) and the forwards; `pcl` follows `ProxyConnection.close`
(`done` closed, then its `Range`); `closers` are the goroutines it starts.
`phase`, `todo`, `cur` follow `main`.
A session that ends is told to its Proxy in one step and deleted in the next:
`visit` is the session between the two in `removeWorker`, a `Delete` in `rd` the
one in `workerReader`, `endClose` the one in `proxyHandler`.
`Events` says what the environment may do in a run: `stop`, `sync`, `dbfail`,
`drop` (a connection fails by itself: a read or write error, a failed ping) and
`crash` (an earlier run left rows online). Without `drop` a connection still ends
when it is replaced or the broker stops.
`Init` starts from any table an earlier broker may have left.

### Worker

`main` runs the connection loop and is at the same time the reader of the
current connection `k`; connections are numbered. `op`, `wr` and `rdr` are the
three goroutines of a session; `sd` and `conn` are the two halves of
`Session.close` (done, then the socket under the lock); `target` is the real
socket, so that a socket that nobody owns can be noticed. `Data` from the Broker
requires that `CmdConnected` was written, because the Proxy waits for it.

### ProxyLink

A client and its session are one index. `cl` is `BrokerConnection.close`,
`reading` the read loop, `st` the client in `handleBroker`: `start`, `wait`
(on `brokerWaitCh`), `dial`, `publish`, `got`, `ask`, `await`, `up`, `hang`,
`bye`, `drop`. The Broker is external: it answers requests it has read with any
frames until it ends the session. `Talkers` are the clients whose tunnels carry
data.

### AuthStore

A call of `CheckCredentials` is a goroutine with a stage `st`; `storeCache` and
`cleanupCache` are its later stages. `table` and `gen` are what it loaded from
`s.users` and `s.generation`, in that order. Tables of users are known by the
number of the reload that installed them, so that an answer can be traced to
the table it was computed from (`from`). `horizon` is the oldest table in the
hands of a call that was running when the current generation began: the code
lets such a straddling call cache an old result under the new generation, where
it stays until it expires or the next reload. `floor` is the horizon a call
found, and `AnswerCurrent` says that this is the only staleness there is. `drift` counts
the entries that `Store` put back after somebody had deleted them
(auth.go:190): these alone are missing from `cacheCount`.

### Routing

Redis holds three values: the hash of domains, the hash of CIDRs and the default
route. A field of a hash is a *key*, the rule as it was spelt; `PatternOf` and
`Network` are what the Proxy makes of it, and two keys may mean one network (host
bits, IPv4-mapped IPv6). A trie is a function from paths to routes, so that the
walk, the missing child and the node without a route can be told apart.
`loadRoutes` is `ld` with its three reads, its loops over Go maps (`todo`, any
order) and the cache it builds (`new`); `read` is what it has read, and
`source` what the cache in use (`routes`) was built from. `adm` is a request of
the Admin API between its statements: the serializer loads the group, each HSET
is a step, and DELETE of a group reads the three values one by one before it
deletes the row. Groups have a primary key and a name: routes refer to the
name, so that a rename leaves its routes behind, and so does a route written
while its group is being deleted (`renamed` marks these groups).
`DEFAULT_GROUP_NAME` is taken to have its default, the name the Proxy treats as
direct. Deleting all CIDRs at once is left out: the view calls a function that
`services` does not define.

### DNSCache

A client of `lookup` is a stage `st`; `flight` is the singleflight group, which
names the client that runs the function for a host. `set` makes room in a full
map; `expired` are the entries past their time that are still in it. Answers of
the resolver are numbered per host: `landed` is the last one whose flight has
ended, `since` the oldest one that may answer a flight, `floor` the oldest one
that may answer a client.

### UDPAssociate

One association. `loop` follows `handleSOCKS5UDPAssociate`; in `look`, `sweep`
and `sweeping` it holds `sessionsMu`. `rd` follows the reader of a session, and
`table` is both maps, whose keys are disjoint. Sessions are numbered, so that a
new session under an old key can be told from the old one. `mu` is a session's
mutex where it is held across a wait, that is while a frame or `CmdClose` is
given to the broker connection; elsewhere it is held within one step. A datagram
is the list of keys it leads to. Relayed replies leave the state as it is.

### PagedTable, RoutesPage, WorkersPage, ProxiesPage, AdminTables

A handler of a page runs up to its first `await` in one step (the click), the
backend handles each request in a step of its own (it may refuse it, or carry
it out and lose the answer), and the rest of the handler runs when the answer
is in. What a handler took from the render that created it (page, page size,
search, filter, number of rows, total) travels in the record of its request
(`ops`, `loads`, `modal`): reading the current `query` instead would hide the
stale closures. List requests are never cancelled, so any answered one may be
applied next. `Answer` is the backend's paging, with 404 outside the pages
there are. One behaviour is about one page, because pages share no React state.

`overlap`, `overtaken`, `stranded` and `edited` mark the histories in which the
code does not promise the view, and the properties exempt exactly those:

* `overtaken`: an older list answer replaces a newer one (SplittingPage.tsx:322);
* `overlap`: a change met another request, so that its reload uses the query of
  an old render (:505) and, for routes, `page - 1` may become 0 (:778);
* `stranded`: a reload is answered with 404 and the deleted rows stay on show.
  `PageCorrected` names the changes after which this can happen: bulk changes of
  routes, and of workers the single deletion, the bulk regrouping and the
  deletion of a group;
* `edited`: a row patched in place stays in a filtered list it no longer matches.

Clear-all of the CIDRs is modelled as the request that always fails: the view
calls a service that does not exist (views.py:503), so its success branch is
never taken, although routingApi.tsx:93 describes it as deleting all. A bulk
change of the group of a domain that somebody else removed creates it again,
because PATCH upserts (views.py:260-266). A refused deletion of a group counts
as a failed request. Groups are taken as loaded when the page mounts.

### AdminShell and OneAccount

Per tab: `token` and `user` are `AuthProvider`'s state, `path` what the router
shows, `from` the page that `ProtectedRoute` refused, `login` the sign-in under
way (`token`, then `profile`), `form` the mounted form with the record it is for
(`id`) and the record whose values it shows (`of`), `reqs` its requests in
flight. `stored` is `localStorage`. `apiFetch` reads the token when it sends;
on a 401 it removes a key that nobody uses (`authStorage` removes
`ACCESS_TOKEN`, the token is under `admin_access_token`), so that the reload
finds the refused token again, and the model does just that. A late answer may
navigate a tab that has moved on. `foreign` marks a tab that has missed a
sign-in or sign-out of another: it shows one account and acts as another until
it is reloaded. `jumped` holds the number of a form whose id was changed under it
by the history, and those of its saves: they may carry the values of one record
under the id of another. Forms opened before or after it are not exempt.

`OneAccount` is the promise of the sign-in as a whole: a browser is signed in as
one account or nobody, and each request goes out in the name of that account.
`AdminShell` implements it under `who <- stored.user, acting <- acted`: what the
tabs show plays no part in it, which is the point.

Simplifications: a sign-in that is pending while a late answer navigates its tab
keeps its instance of `LoginPage`; after a sign-in the admin is sent to a list or
the home page, never back to a form's URL, and a document is not loaded at a form's URL; where `handleLogout` leads is a choice
between the page it left and the list, because the router navigates in a
transition; the history does not lead from the form of a new record to that of an
old one in the same instance. React's StrictMode is ignored.

Taken from the libraries as the pages use them: a button that is loading or
disabled ignores clicks; the mask of a `Modal` blocks the page; `Modal.confirm`
keeps the closure it was opened with; the spinner of a table blocks the table;
an access to `localStorage` is atomic within a JavaScript task; the
configuration endpoint needs no token.

## 3. Runs

All bounds are constants given in the `.cfg` files. Channels have one slot (the
code: 2048 to 8192, 32, 512), which makes *full* and *empty* adjacent and so
reaches every blocking case.

| Run | Instance | Shows |
|---|---|---|
| `broker_registry` | 2 connections of 1 GUID, 1 group, 1 admin request, failing queries, crash leftovers, stop | `ActiveNotRemoved`, `OnlineAccounted`, `ActiveIsRoutable`, `UpIsRegistered`, `ActiveIsOnline`, `ListedOnce`; no deadlock |
| `broker_sessions` | 2 connections of 1 GUID, one replacing the other or failing alone, 2 Proxies with a session each or 1 that fails, 2 frames at a time | `Isolation`, `SweptSessions`, `EndIsAnnounced` |
| `broker_shutdown` | 1 connection, 1 Proxy, 1 session, failing connections, stop | `ShutdownCompletes`; no deadlock |
| `worker` | 1 session, 2 successive connections, signal | `TargetHasOwner`, `EndIsReported`, `RequestAnswered`, `GoroutinesEnd`, `SignalEnds`; no deadlock |
| `link` | 2 clients (1 with data), 2 dials | `OneLink`, `SessionsSwept`, `HangupIsSent` |
| `link_live` | 2 clients, 1 dial | `WaitersWake`, `FailureReachesClients` |
| `auth` | 3 calls, 1 user, 2 passwords, 1 reload, cache of 1, semaphore of 1 | `AnswerCurrent`, `SingleFlight`, `CountAccurate`; no deadlock |
| `routing` | 2 requests of the Admin API at a time, 3 domains, 4 CIDRs, 9 hosts, 2 groups | `LongestMatch`, `RoutesNameGroups`, `RoutesFollowRedis`; no deadlock |
| `dns` | 3 clients, 2 hosts, a map of 1, 2 queries a host | `AnswerNotStale` |
| `udp` | a direct target of 2 addresses and a broker target, 2 sessions, 2 senders | `OpenIsListed`, `DeadIsForgotten`, `AssociationEnds` |
| `panel` | each of 5 pages: 3 rows and a fourth to add, page sizes 1 and 2, 1 group, up to 3 clicks and 1 fault | `SettledView`, `PageCorrected`, `NothingLeftBusy`, `SelectedExist`, `FailedStaySelected` |
| `shell` | 2 tabs, 2 accounts, 4 clicks | `PairCoherent`, `Guarded`, `InStep`, `SavedOwn`, the refinement `OneSession` |

Why the bounds are enough. Two connections of one GUID are what `old`, the
registry entry and the online flag can confuse; a third meets the same states.
`Isolation` relates sessions: `broker_sessions` has two of them, of two
Proxies, over two connections, so that a frame may meet a foreign session, Worker
or Proxy. One session suffices for the sweeping and the announcing of sessions,
because sessions share only the channels, whose fullness one session produces by
itself, and these properties quantify over each session alone: once a Proxy has
failed, the constraint `Small` of `MCBroker` leaves it alone with its session, and
stops when that is over. `Small` also keeps at most two frames queued or in the
hand of a reader (one that is where it should not be, and one that waits before
it), lets a Worker fail by itself while it is the only one, and leaves out the
handlers that give up before they register, which `broker_registry` has. Two clients are one that dials and one that
waits; two dials let a late close of the first connection meet the second. Three
calls are one that stores an entry, one that overwrites it and one that evicts
it in between; two passwords overfill a cache of one. Two requests of the Admin
API are one that writes a route and one that deletes its group; the domains are
an exact name and two nested wildcards, the CIDRs one network in two spellings, a
longer one given as mapped IPv6 and `::/0`; addresses of two and three bits give
every relation two prefixes can have. Three clients of the DNS cache are the one
that asks, the one that joins it and the one whose other host evicts the entry. Two
sessions of an association are one and its successor under the same key, two
addresses of one datagram, or one of each kind. Three rows on pages of two or one
give a full page, a last page of one row and a deletion that empties it; three
clicks are a change, a turn of the page or filter while it is under way, and one
more that meets both; a selection of two proxies, its deletion and one fault make
a bulk change that fails in part; the fault budget (another administrator's change, a refusal
or a lost answer) is traded against clicks per page. Two tabs are one that acts
and one that does not notice; four clicks sign in, open a form, change its id or
the account elsewhere, and save. `routing` starts with domains only, with CIDRs
only, with a default route only, or with none.
The type invariants of all modules (that of `AdminTables` with the page asked for at
least 1) and `OneQueryPerHost` of `DNSCache` are proved and not repeated in a run.
The proofs below remove the bounds where they apply.

Runs with `CHECK_DEADLOCK FALSE` are those in which the bounded supply of
connections, sessions, dials or queries legitimately runs
out, `udp`, where the association ends, and `panel` and `shell`, where the
administrator's clicks are bounded.

### Known limitations of the code that the models contain

The models follow the code into these corners; no property claims their contrary.

* `openProxySession` stores its session (broker.go:1274) without a look at `p.done`:
  when the writer closes the Proxy between `getWorker` and the store, the session
  of a closed Proxy stays in the table, and its Worker keeps the target open,
  until that Worker's next frame for it or its own removal. It is `late`.
* `openTCP` checks only the process's context before it stores its session
  (worker.go:603-613): a disconnect in between sweeps the table first, and the
  session stays open on the next connection with its target and its goroutines.
  `worker_test.go:184` tests the disconnect of sessions that are in the table.
* `CheckCredentials` loads the users (auth.go:76) before the generation (:94): the
  result for an old password may be cached under the new generation, and is
  accepted until it expires. `horizon` and `floor` bound this, and nothing else is
  allowed.
* `perform_destroy` (views.py:106) reads the routes in three steps and then deletes
  the group: a route written after the read of its store names a group that is
  gone (`renamed`).
* `getBrokerConnection` publishes a connection whose loops already run (proxy
  broker.go:169-174); if it has closed by then, its own reset (132-136) is over,
  and later requests are given the dead connection. `OneLink` speaks of live
  connections only.
* `workerHandler` calls `setActiveWorker` (broker.go:675) and then
  `addWorkerToGroup` (:676): a newer connection of the same GUID that removes this
  one in between leaves it listed in its group for good, where `getWorker` chooses
  it in its turn and the send fails.
* Two handlers of one GUID may each call `getActiveWorker` (broker.go:651) before
  the other calls `setActiveWorker`: the connection that is replaced is removed by
  nobody and serves on unregistered until it fails (`missed`).
* The UPDATE `online=FALSE` of a removal (broker.go:546) may follow the INSERT of the
  connection that replaced it: a connected Worker is shown offline (`blanked`).
* A registration whose SELECT of the group fails after its INSERT (broker.go:639)
  leaves the row online; `OnlineAccounted` exempts it as `tainted`.
* The goroutine that sends `CmdClose` (broker.go:161) can overtake the
  `CmdConnect` of its session; a Worker that reads `CmdClose` before `openTCP` has
  stored the session (worker.go:519) finds nothing to close.
* The tunnel's `select` (proxy broker.go:487) may take `done` while payloads are
  still queued: the end of a response is lost. A slow client whose data queue is
  full (:282) loses its session without a `CmdClose`.
* A tab shows one account and acts as another after a sign-in elsewhere; a 401
  does not sign it out; a form whose id is changed before its record has arrived
  saves the values of the other record; a save may be submitted twice; a late
  answer of a form navigates away from the page opened since.
* The lists of the panel: the four cases under *AdminTables* above, clear-all of
  the CIDRs, and the group change that brings a removed domain back.
* Groups and users offered in select boxes, and the Workers counted as online on
  the home page, are those of the first 100 rows (not modelled). A wildcard pattern
  entered with *include subdomains* becomes `*.*.x` (not modelled).

The passing properties name the corners the code leaves open as explicit
exemptions: `late` sessions, stored while a Range was already under way, may
survive it (Broker and ProxyLink); `tainted` rows, last written by a failed query,
a stale PATCH or a crashed broker, may stay online, and `blanked` ones may be
offline; a connection that was replaced unseen (`missed`) may be unregistered, one
that was moved or added at the wrong moment (`misplaced`) listed twice or after its
removal; a Worker's session closed
before its reader called `getConn` (`missed`) and a Proxy's session with a full
data queue (`overrun`) end without a `CmdClose`.

## 4. Fairness

Liveness assumes that a goroutine that can run does (weak fairness per step),
that dials, queries and writes with deadlines return, and that a channel serves
blocked senders in order (strong fairness of a blocked send, which Go's FIFO
queue of waiters gives). Nothing is assumed about failures, about the arrival of
messages or of signals. `ShutdownCompletes` also assumes that the Proxy's end
reads its WebSocket (`ProxyWrite`): the broker writes without a deadline, and
with a stalled peer `removeWorker` does block the shutdown.
`RoutesFollowRedis` assumes strong fairness of the two later reads of
`loadRoutes`: Redis does not fail for ever. `udp` assumes that a
reader that waits for a mutex gets it, which `sync.Mutex` provides by handing over
to long waiters, and that `handleUDPBroker` returns, which `waitConnected` does not
guarantee. Fairness is wrapped
in "the process has not exited".

## 5. Proofs

| Theorem | Statement | Argument |
|---|---|---|
| `BrokerProofs!TypeCorrect` | `Spec => []TypeOK` | not inductive alone: a forward uses `workerOf[req[p]]`, a Worker only because of the stage. `SessionsBound` says which stages have a session in hand and that stored sessions have both ends. |
| `BrokerProofs!RegistrySafe` | `Spec => []ActiveNotRemoved` | `RegistryInv` adds that only connections past `setActiveWorker` can be removed, be some handler's `old` or be in main's snapshot: otherwise a removed connection could still be made active. |
| `BrokerProofs!OnlineSafe` | `Spec => []OnlineAccounted` | from `RegistryInv`: responsibility for `online=TRUE` passes from the handler to the registry entry, to another connection's entry, or to the removal that took the entry. |
| `BrokerProofs!IsolationSafe` | `Spec => []Isolation` | inductive with `TypeOK` and `SessionsBound`: the two ends of a session are set once (`EndsStable`), and every send looks its end up in the table of the session it is for. |
| `BrokerProofs!SweptSafe` | `Spec => []SweptSessions` | `SweptInv`: a session in the table that is not `late` belongs to a Worker whose removal has not begun its Range, or is still due to be visited by it; likewise for its Proxy. |
| `BrokerProofs!EndsAnnounced` | `Spec => []EndIsAnnounced` | the Proxy is told one step before the session is deleted: `EndInv` adds that whoever is about to delete a session has told its Proxy, or that Proxy is closing, or has asked for it; `phase = "exited"` is final. |
| `BrokerProofs!UpSafe` | `Spec => []UpIsRegistered` | with `RegistryInv`: an entry is replaced by a handler that has seen it, and so has it as `old`, or the replaced connection is `missed`; a removal takes the entry only of its own connection. |
| `BrokerProofs!ActiveOnlineSafe` | `Spec => []ActiveIsOnline` | `OnlineInv`: the row is online or `blanked` from `registerWorker` on, and only a removal that found its connection registered gets to the UPDATE. |
| `BrokerProofs!ListSafe` | `Spec => []ListedOnce` | `ListInv`: before `addWorkerToGroup` a connection is in no list. Removing the first occurrence of a worker listed once leaves it unlisted (`RemoveFirstUnlists`), which needs the positions of a concatenation one by one. |
| `BrokerProofs!RoutableSafe` | `Spec => []ActiveIsRoutable` | inductive with `TypeOK`: the move of the sync loop takes a worker out of one list and puts it in the other in one step (`MoveRoutable`), and removing another worker keeps this one listed (`DelistKeeps`). |
| `WorkerProofs!WorkerTypeCorrect` | `Spec => []TypeOK` | with `StageInv` (stages that have a connection or a session in hand); the delay by arithmetic on `NextBackoff`. |
| `WorkerProofs!TargetSafe` | `Spec => []TargetHasOwner` | `OwnerInv`: a session leaves the table only closed, or before it has a conn; `setConn` and the second half of `close` are atomic. |
| `WorkerProofs!EndReported` | `Spec => []EndIsReported` | three parts. `LinkInv`: every connection but the one main serves is down, so a session of an older one is excused. `ConnectedInv`: a session whose `CmdConnected` is queued or written has had a reader. `ReportInv`: whoever closes a session or takes it out of the table leaves a reader that will report it, or a reason why nobody has to. |
| `LinkProofs!LinkTypeCorrect` | `Spec => []TypeOK` | `StageInv`: the stages that have a connection, a session or a slot of a queue in hand. |
| `LinkProofs!LinkUnique` | `Spec => []OneLink` | `DialInv`: at most one client dials or publishes, and only while no connection is shared; without it a second dialler could publish over the first. |
| `LinkProofs!LinkSweeps` | `Spec => []SessionsSwept` | `SweepInv`: a session of a closing connection is still due to be visited by its Range, or is `late`. |
| `LinkProofs!LinkHangsUp` | `Spec => []HangupIsSent` | also in `SweepInv`: a client that is to drop its session has said so to the broker, or the connection is done. |
| `AuthProofs!AuthTypeCorrect` | `Spec => []TypeOK` | in parts (store, calls, cache, semaphore); the semaphore holds exactly the calls that hash. |
| `AuthProofs!AuthSingleFlight` | `Spec => []SingleFlight` | `FlightInv`: an in-flight entry is owned by a computing call of that key, and conversely. |
| `AuthProofs!AuthCurrent` | `Spec => []AnswerCurrent` | `FloorInv` orders table, generation, horizon and floor; `EntriesInv` says it of every cached entry, `WaitInv` of whoever waits for an owner, `ResultInv` of every result on its way. `Least` (the oldest table in hand exists) by well-founded minimum. |
| `AuthProofs!AuthCount` | `Spec => []CountAccurate` | each step changes the cache, the count or a stage by one: finite-set cardinalities. |
| `RoutingProofs!RoutingTypeCorrect` | `Spec => []TypeOK` | a trie stays closed under prefixes; a request's keys and group come from the types of the stores (`SoundRequest`). |
| `RoutingProofs!NamesSafe` | `Spec => []RoutesNameGroups` | not inductive: a request holds a route it has yet to write. `NamesInv` adds that this route names a group too (or a `renamed` one), and that the values a deletion has already read hold no route to its group. |
| `RoutingProofs!LongestSafe` | `Spec => []LongestMatch` | `BuiltInv`: at every point of the loops of `loadRoutes` the cache holds exactly the rules of the keys inserted so far (`TrieOf`: each route of a trie is one of its rules, each rule has a node), in whatever order. The lookups are then lemmas about such tries: the deepest node on the walk is the longest rule (`LookupTrie`, `WildBest`, `CidrsFound`, `LongestRule`). The greatest element of a bounded set comes from `LeastNat`, without induction. |
| `RoutingProofs!DNSTypeCorrect` | `DnsSpec => []DnsTypeOK` | the map is finite because it grows by one entry at a time, so `set` can make room; a client past its first `get` has a host. |
| `RoutingProofs!SingleQuery` | `DnsSpec => []OneQueryPerHost` | `FlightInv`: a flight has a leader in one of its stages. |
| `RoutingProofs!AnswersInTime` | `DnsSpec => []AnswerNotStale` | `AgeInv`: an entry is from the last landed query or from the one about to land; the bound of a host only grows; `FloorInv` carries it to the answer. |
| `UDPProofs!UdpTypeCorrect` | `Spec => []TypeOK` | `StageInv`: the stages of the loop and of a reader that have a session, a key or the rest of a datagram in hand. |
| `UDPProofs!OpenListed` | `Spec => []OpenIsListed` | `ListInv`: a key leads to a session of that key, none is found for it while one is opened, and only a closed session is on its way out of the map. |
| `AdminTablesProofs!TablesTypeOK` | `Spec => []TypeOK` | `SoundOp` adds what a handler may rely on when its requests are answered (a group where the backend needs one, only keys of its own, each answered once), `CalmInv` that a handler which met nothing else sees the page as rendered, so that `page - 1` is not 0. |
| `AdminTablesProofs!NothingLeftBusySafe` | `Spec => []NothingLeftBusy` | `OwnerInv`: for every flag, spinner and dialog that is raised there is a request in flight whose handler takes it down, also when it fails. |
| `AdminTablesProofs!FailedStaySelectedSafe` | `Spec => FailedStaySelected` | an action property: an ending bulk change unticks exactly `ok`, which `SoundOp` keeps apart from `bad`; no other step ends one. |
| `AdminTablesProofs!SettledViewSafe` | `Spec => []SettledView` | `ViewInv` with `CalmInv`: a page without requests is right, and the last list in flight asks for what the page says; while a change is under way the page is right until the request is served (`ViewOp`), and what its handler patches in place is what the backend has. |
| `AdminTablesProofs!SelectedExistSafe` | `Spec => []SelectedExist` | `SelInv`: a selected row exists, or it is in `Gone`, the rows deleted by a request whose answer the page has not heard. |
| `AdminTablesProofs!PageCorrectedSafe` | `Spec => []PageCorrected` | `PageInv`: lists are only asked for pages that exist. `Counts` is the inductive part: at least as many rows are left as the total the handler saw less those it deleted, so that the last page it computes is not behind the end. |
| `AdminShellProofs!TypeCorrect` | `Spec => []TypeOK` | by action. |
| `AdminShellProofs!SessionCoherent`, `PagesGuarded`, `TabsInStep` | `Spec => []PairCoherent`, `[]Guarded`, `[]InStep` | one induction over all four (`SessionInvariant`): token and user are stored and shown in the same task, after both requests of a sign-in, and every other step leaves them alone or clears both. |
| `AdminShellProofs!FormsSaveTheirOwn` | `Spec => []SavedOwn` | not inductive: a late load of an earlier form could fill a new one. `FormsOwn` adds that a form's number is newer than every request sent before it. |
| `AdminShellProofs!ShellImplementsOneAccount` | `Spec => OneSession` | `Init` and each action map to an `Init`, a step or a stutter of `OneAccount`; needs `PairCoherent` (the token sent is that of the stored user). |

They hold for all sets, finite or infinite, of connections, GUIDs, groups, proxies
and sessions, of clients, calls, hosts, keys, routes, datagrams, tabs and accounts, and all
capacities, under the named assumptions of the modules
(`None` is not an element of the other sets, capacities are positive,
connections and proxies are disjoint, the initial delay does not exceed the
limit; routes in Redis at the start name groups, hosts are sequences of labels, what the
resolver returns are addresses, and the canonical spelling of a CIDR is a CIDR).
The panel's lists are proved for any finite set of rows (a total and a last page need
one), any set of page sizes with a largest, at least one budget of clicks and faults a
page, and values that are told apart: an absent row from a group, a list that failed or
was not found from one that was answered. The sets that `AuthStore` and `DNSCache`
count are shown to stay finite, not assumed to be. Lemmas about `RemoveFirst` (a list without one entry is a list; every
other entry stays) rest on well-founded minimum choice from the library.

The order in which these arguments build on one another is the same in every module:
type correctness together with what the stages have in hand, then one strengthening
per property, each added to the invariant only where the property itself is not
inductive. All strengthenings were model-checked before they were proved.
`NamesInv` was also checked with the Admin API alone making more requests than the run
allows.

The theorems about the panel's lists share one grouping of the steps (reading, changing,
serving, reporting), and one invariant uses another: types, owners of flags, one request
at a time, the view, and on the view the selection and the pager. The exemptions
`overlap`, `overtaken`, `stranded` and `edited` are part of the statements, as they are
of the properties.

Only model-checked: the liveness properties `ShutdownCompletes`, `RequestAnswered`,
`GoroutinesEnd`, `SignalEnds`, `WaitersWake`, `FailureReachesClients`,
`RoutesFollowRedis`, `DeadIsForgotten` and `AssociationEnds` (fairness and ENABLED are
outside the prover's reach) and the absence of deadlock. Every invariant and every
action property of the runs, and the refinement of `OneAccount`, is proved.

## 6. Plan

1. *(done)* `Broker`, `Worker`, `ProxyLink`, `AuthStore`, `Routing`, `DNSCache`,
   `UDPAssociate`; type correctness, registry and socket ownership proved.
2. *(done)* The admin panel: `PagedTable` and its pages, `AdminShell` and its
   abstraction `OneAccount`; proofs for `AdminShell`, `ProxyLink`, `AuthStore` and
   `DNSCache`.
3. *(done)* Proofs of every safety property of `Broker`, `Worker`, `Routing`,
   `UDPAssociate` and `AdminTables` that a run checks.
4. `Session`: the promise of a session to a client (open, then data, then one
   end), and a composition of the three ends of a session over FIFO links; there
   the close that overtakes its connect, the close that finds no session yet, and
   the data lost at the end of a tunnel are stated.

## 7. Not modelled

Of the Admin front end: the tab of the default route, the figures of the home
page, translations, form validators and layout (no state that outlives a render,
or none that two steps share). The Admin API's accounts, tokens and proxies beyond
what the panel sees of them (single-row CRUD); the Proxy's client protocols and
direct connections (see `components` in `PROJECT.json` for each reason). WebSocket
framing, TLS, tokens, ping/pong (a failing ping is a failing connection), read
deadlines (a read may fail at any time), JSON and logging are abstracted.
