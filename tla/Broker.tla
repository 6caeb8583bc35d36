------------------------------- MODULE Broker -------------------------------
(***************************************************************************)
(* The broker process (broker/broker.go): the registry of Worker           *)
(* connections (activeWorkers, groups, the core_worker table), the session *)
(* table shared by every goroutine, the bounded channels to Workers and    *)
(* Proxies, the five-second database sync and the ordered shutdown.        *)
(*                                                                         *)
(* One action is one critical section, one database statement, one channel *)
(* operation or one sync.Map access.  isShuttingDown() and the statement   *)
(* it guards are separate in the code: an action whose check may have been *)
(* made before the signal keeps both outcomes once the signal has arrived. *)
(***************************************************************************)
EXTENDS Naturals, Sequences, SequencesExt

CONSTANTS
    Conns,      \* Worker WebSocket connections accepted over a run (*Worker)
    Guids,      \* worker GUIDs, the keys of core_worker
    GuidOf,     \* the GUID each connection says hello with
    Groups,     \* names of worker groups
    NoGroup,    \* the empty group name: core_worker.group_id IS NULL
    Proxies,    \* Proxy WebSocket connections (*ProxyConnection)
    Ids,        \* session ids; every request carries a fresh UUID
    None,       \* nil
    SendCap,    \* capacity of Worker.send (4096 in the code)
    ProxyCap,   \* capacity of ProxyConnection.send (2048 in the code)
    MaxEdits,   \* bound on the admin requests (PATCH, DELETE of a worker) of a run
    Events      \* bound on the environment: which of these events a run includes

EventKinds == {"stop",    \* SIGTERM, SIGINT or a failing HTTP server
               "sync",    \* ticks of the five-second worker sync
               "dbfail",  \* queries that fail or time out
               "drop",    \* connections that fail by themselves
               "crash"}   \* rows left online by an earlier run of the broker

AllGroups == Groups \cup {NoGroup}

ASSUME GuidOfType   == GuidOf \in [Conns -> Guids]
ASSUME CapsPositive == SendCap \in Nat \ {0} /\ ProxyCap \in Nat \ {0}
ASSUME BoundsType   == MaxEdits \in Nat /\ Events \in SUBSET EventKinds
ASSUME NoneIsNil    == None \notin Conns \cup Guids \cup AllGroups \cup Proxies \cup Ids
ASSUME NamesApart   == NoGroup \notin Groups /\ Conns \cap Proxies = {}

VARIABLES
    phase,          \* main: "serving", "draining", "workers", "proxies", "exited"
    todo, cur,      \* main's snapshot still to close, and the one being closed
    hs,             \* stage of workerHandler, per connection
    old,            \* its local variable old
    groupName,      \* Worker.groupName
    activeWorkers,  \* guid -> *Worker
    groups, rr,     \* WorkerGroup.workers (<<>>: no such key) and WorkerGroup.rr
    missed,         \* history: replaced in the registry by a handler that had not
                    \* seen them, and therefore does not remove them
    misplaced,      \* history: moved or added to a group before addWorkerToGroup or
                    \* after removeWorkerFromGroup
    rows, online,   \* core_worker: the guids with a row; those with online=TRUE
    assigned,       \* core_worker.group_id, as a group name
    tainted,        \* history: online was last written by a failed query, a stale
                    \* PATCH or an earlier run of the broker
    blanked,        \* history: online=FALSE was last written by the admin API, or by
                    \* the removal of a Worker that has been replaced since
    adm,            \* a PATCH of a worker in the admin API, between read and save
    edits,          \* history: admin requests so far
    rem,            \* stage of removeWorker, per connection
    wasActive,      \* connections whose removeWorker found them active
    due,            \* sessions its Range must visit: present when it started
    visit,          \* the session its Range is at: CmdClose is out, Delete is next
    snap, mv,       \* syncWorkersFromDB: rows left to handle, the move in progress
    send, psend,    \* Worker.send and ProxyConnection.send
    rd,             \* the message workerReader has loaded a session for, or the
                    \* session it is about to delete
    sessions,       \* keys of the session table
    proxyOf,        \* Session.proxy (the requesting Proxy, from the request on)
    workerOf,       \* Session.worker (from getWorker on)
    stored, late,   \* history: ids ever stored; stored after a Range had begun
    told, hungup,   \* history: end sent to the Proxy; closed by the Proxy
    ph, req,        \* stage of proxyHandler and the session id it works on
    pcl, pdue,      \* stage of ProxyConnection.close and what its Range must visit
    closers         \* ids whose CmdClose goroutine has not run yet

mainVars  == <<phase, todo, cur>>
regVars   == <<hs, old, groupName, activeWorkers, groups, rr, missed, misplaced>>
dbVars    == <<rows, online, assigned, tainted, blanked, adm, edits>>
remVars   == <<rem, wasActive, due, visit>>
syncVars  == <<snap, mv>>
chanVars  == <<send, psend, rd>>
sessVars  == <<sessions, proxyOf, workerOf, stored, late, told, hungup>>
proxyVars == <<ph, req, pcl, pdue, closers>>
vars == <<mainVars, regVars, dbVars, remVars, syncVars, chanVars, sessVars, proxyVars>>

HandlerStages == {"idle", "hello", "register", "registered", "grouped", "made",
                  "active", "skip", "listed", "up", "closed"}
RemStages     == {"idle", "group", "range", "db", "finished"}
ProxyStages   == {"idle", "accepted", "hello", "serve", "store", "send", "fail",
                  "fwdData", "fwdClose", "endClose", "replyClose", "replyError",
                  "closing", "gone"}
PclStages     == {"idle", "done", "range", "finished"}

\* CmdConnected and CmdUDPData are forwarded as CmdData is.
ToWorker == [id : Ids, cmd : {"Connect", "Data", "Close"}]
FromWorker == [id : Ids, cmd : {"Data", "Close"}]
ToProxy  == [id : Ids, cmd : {"Data", "Close", "Error"}]
ToDelete == [id : Ids, cmd : {"Delete"}]

Init ==
    /\ phase = "serving" /\ todo = {} /\ cur = None
    /\ hs = [c \in Conns |-> "idle"] /\ old = [c \in Conns |-> None]
    /\ groupName = [c \in Conns |-> NoGroup]
    /\ activeWorkers = [g \in Guids |-> None]
    /\ groups = [g \in AllGroups |-> <<>>] /\ rr = [g \in AllGroups |-> 0]
    /\ missed = {} /\ misplaced = {} /\ blanked = {}
    \* the table survives a broker that crashed, whatever it had written
    /\ rows \in SUBSET Guids
    /\ online \in SUBSET (IF "crash" \in Events THEN rows ELSE {})
    /\ tainted = online
    /\ assigned \in {f \in [Guids -> AllGroups] : \A g \in Guids \ rows : f[g] = NoGroup}
    /\ adm = None /\ edits = 0
    /\ rem = [c \in Conns |-> "idle"] /\ wasActive = {} /\ due = [c \in Conns |-> {}]
    /\ visit = [c \in Conns |-> None]
    /\ snap = [g \in Guids |-> None] /\ mv = None
    /\ send = [c \in Conns |-> <<>>] /\ psend = [p \in Proxies |-> <<>>]
    /\ rd = [c \in Conns |-> None]
    /\ sessions = {} /\ stored = {} /\ late = {} /\ told = {} /\ hungup = {}
    /\ proxyOf = [i \in Ids |-> None] /\ workerOf = [i \in Ids |-> None]
    /\ ph = [p \in Proxies |-> "idle"] /\ req = [p \in Proxies |-> None]
    /\ pcl = [p \in Proxies |-> "idle"] /\ pdue = [p \in Proxies |-> {}]
    /\ closers = {}

\* isShuttingDown()
Shutting == phase # "serving"

-----------------------------------------------------------------------------
(* Channels.  A select between a closed done channel and a buffered send   *)
(* with room is a random choice of the Go runtime.                         *)

Done(c) == rem[c] \in {"db", "finished"}      \* w.done is closed
Delisted(c) == rem[c] \in {"range", "db", "finished"}   \* past removeWorkerFromGroup

\* sendToWorker can fail: shutting down, worker disconnected, or thirty
\* seconds without room in the channel.
SendFails(c) == Shutting \/ Done(c) \/ Len(send[c]) = SendCap

SendToWorker(c, id, cmd) ==
    /\ Len(send[c]) < SendCap
    /\ send' = [send EXCEPT ![c] = Append(@, [id |-> id, cmd |-> cmd])]

\* ProxyConnection.write: blocks until there is room or p is closed.
WriteProxy(p, id, cmd) ==
    /\ Len(psend[p]) < ProxyCap
    /\ psend' = [psend EXCEPT ![p] = Append(@, [id |-> id, cmd |-> cmd])]

WriteFails(p) == pcl[p] # "idle" /\ UNCHANGED psend

\* The end of session id is written to its Proxy, or its Proxy is closed.
TellProxy(id, cmd) ==
    \/ WriteProxy(proxyOf[id], id, cmd) /\ told' = told \cup {id}
    \/ WriteFails(proxyOf[id]) /\ UNCHANGED told

\* workerWriter: one message to the WebSocket.  A failing write calls
\* removeWorker, which RemoveBegin covers.
WorkerWrite(c) ==
    /\ hs[c] = "up" /\ ~Done(c) /\ send[c] # <<>>
    /\ send' = [send EXCEPT ![c] = Tail(@)]
    /\ UNCHANGED <<mainVars, regVars, dbVars, remVars, syncVars, psend, rd, sessVars,
                   proxyVars>>

\* Mutant: the writer stops at the signal, before its Proxy is closed.
ProxyWriteStops(p) ==
    /\ ~Shutting
    /\ pcl[p] = "idle" /\ psend[p] # <<>>
    /\ psend' = [psend EXCEPT ![p] = Tail(@)]
    /\ UNCHANGED <<mainVars, regVars, dbVars, remVars, syncVars, send, rd, sessVars,
                   proxyVars>>

\* ProxyConnection.writer: one message to the WebSocket.
ProxyWrite(p) ==
    /\ pcl[p] = "idle" /\ psend[p] # <<>>
    /\ psend' = [psend EXCEPT ![p] = Tail(@)]
    /\ UNCHANGED <<mainVars, regVars, dbVars, remVars, syncVars, send, rd, sessVars,
                   proxyVars>>

-----------------------------------------------------------------------------
(* workerHandler: one connection from the upgrade to its reader goroutine. *)

WorkerUpgrade(c) ==
    /\ hs[c] = "idle" /\ ~Shutting
    /\ hs' = [hs EXCEPT ![c] = "hello"]
    /\ UNCHANGED <<mainVars, old, groupName, activeWorkers, groups, rr, missed, misplaced,
                   dbVars, remVars, syncVars, chanVars, sessVars, proxyVars>>

\* A read error, a bad hello or a wrong token closes the socket.
WorkerHello(c) ==
    /\ hs[c] = "hello"
    /\ \/ ~Shutting /\ hs' = [hs EXCEPT ![c] = "register"]
       \/ hs' = [hs EXCEPT ![c] = "closed"]
    /\ UNCHANGED <<mainVars, old, groupName, activeWorkers, groups, rr, missed, misplaced,
                   dbVars, remVars, syncVars, chanVars, sessVars, proxyVars>>

\* INSERT ... ON CONFLICT DO UPDATE SET online=TRUE.  A query that fails
\* (its five seconds are over) may have been applied all the same.
RegisterWorker(c) ==
    /\ hs[c] = "register"
    /\ \/ /\ rows' = rows \cup {GuidOf[c]}
          /\ online' = online \cup {GuidOf[c]}
          /\ tainted' = tainted \ {GuidOf[c]}
          /\ blanked' = blanked \ {GuidOf[c]}
          /\ hs' = [hs EXCEPT ![c] = "registered"]
       \/ /\ "dbfail" \in Events
          /\ rows' = rows \cup {GuidOf[c]}
          /\ online' = online \cup {GuidOf[c]}
          /\ tainted' = tainted \cup {GuidOf[c]}
          /\ UNCHANGED blanked
          /\ hs' = [hs EXCEPT ![c] = "closed"]
       \/ /\ "dbfail" \in Events
          /\ UNCHANGED <<rows, online, tainted, blanked>>
          /\ hs' = [hs EXCEPT ![c] = "closed"]
    /\ UNCHANGED <<mainVars, old, groupName, activeWorkers, groups, rr, missed, misplaced,
                   assigned, adm, edits, remVars, syncVars, chanVars, sessVars, proxyVars>>

\* getWorkerGroup: no row (deleted meanwhile) or a failed query closes the
\* socket, and the row keeps online=TRUE.
GetWorkerGroup(c) ==
    /\ hs[c] = "registered"
    /\ \/ /\ GuidOf[c] \in rows
          /\ groupName' = [groupName EXCEPT ![c] = assigned[GuidOf[c]]]
          /\ hs' = [hs EXCEPT ![c] = "grouped"]
          /\ UNCHANGED tainted
       \/ /\ GuidOf[c] \notin rows \/ "dbfail" \in Events
          /\ hs' = [hs EXCEPT ![c] = "closed"]
          /\ tainted' = tainted \cup ({GuidOf[c]} \cap online)
          /\ UNCHANGED groupName
    /\ UNCHANGED <<mainVars, old, activeWorkers, groups, rr, missed, misplaced, rows,
                   online, assigned, blanked, adm, edits, remVars, syncVars, chanVars,
                   sessVars, proxyVars>>

\* The Worker is allocated and old := getActiveWorker(guid).
LookupOld(c) ==
    /\ hs[c] = "grouped"
    /\ \/ /\ ~Shutting
          /\ old' = [old EXCEPT ![c] = activeWorkers[GuidOf[c]]]
          /\ hs' = [hs EXCEPT ![c] = "made"]
       \/ /\ Shutting
          /\ hs' = [hs EXCEPT ![c] = "closed"]
          /\ UNCHANGED old
    /\ UNCHANGED <<mainVars, groupName, activeWorkers, groups, rr, missed, misplaced,
                   dbVars, remVars, syncVars, chanVars, sessVars, proxyVars>>

\* setActiveWorker.  Once shutting down, addWorkerToGroup ("skip") is a no-op.
SetActiveWorker(c) ==
    /\ hs[c] = "made"
    /\ \/ /\ activeWorkers' = [activeWorkers EXCEPT ![GuidOf[c]] = c]
          /\ missed' = missed \cup ({activeWorkers[GuidOf[c]]} \ {None, old[c]})
       \/ Shutting /\ UNCHANGED <<activeWorkers, missed>>
    /\ hs' = [hs EXCEPT ![c] = IF Shutting THEN "skip" ELSE "active"]
    /\ UNCHANGED <<mainVars, old, groupName, groups, rr, misplaced, dbVars, remVars,
                   syncVars, chanVars, sessVars, proxyVars>>

AddWorkerToGroup(c) ==
    /\ hs[c] \in {"active", "skip"}
    /\ \/ /\ hs[c] = "active"
          /\ groups' = [groups EXCEPT ![groupName[c]] = Append(@, c)]
          /\ misplaced' = IF Delisted(c) THEN misplaced \cup {c} ELSE misplaced
       \/ Shutting /\ UNCHANGED <<groups, misplaced>>
    /\ hs' = [hs EXCEPT ![c] = "listed"]
    /\ UNCHANGED <<mainVars, old, groupName, activeWorkers, rr, missed, dbVars, remVars,
                   syncVars, chanVars, sessVars, proxyVars>>

\* removeWorker(old) has returned, or there was none: the reader, writer and
\* ping goroutines start.
HandlerUp(c) ==
    /\ hs[c] = "listed"
    /\ old[c] # None => rem[old[c]] = "finished"
    /\ hs' = [hs EXCEPT ![c] = "up"]
    /\ UNCHANGED <<mainVars, old, groupName, activeWorkers, groups, rr, missed, misplaced,
                   dbVars, remVars, syncVars, chanVars, sessVars, proxyVars>>

-----------------------------------------------------------------------------
(* removeWorker: once.Do, so a second caller waits until "finished".       *)

\* Who may call removeWorker(c): its own reader, writer or ping goroutine
\* on an error, a newer handler of the same GUID, or closeAllWorkers.
RemoveCalled(c) ==
    \/ hs[c] = "up" /\ "drop" \in Events
    \/ \E d \in Conns : hs[d] = "listed" /\ old[d] = c
    \/ cur = c

\* Mutant: the map entry is left behind.
RemoveBeginKeepsEntry(c) ==
    /\ rem[c] = "idle" /\ RemoveCalled(c)
    /\ rem' = [rem EXCEPT ![c] = "group"]
    /\ wasActive' = IF activeWorkers[GuidOf[c]] = c THEN wasActive \cup {c} ELSE wasActive
    /\ UNCHANGED <<mainVars, regVars, dbVars, due, visit, syncVars, chanVars, sessVars,
                   proxyVars>>

\* Mutant: the entry is deleted without a look at whose it is.
RemoveBeginAnyEntry(c) ==
    /\ rem[c] = "idle" /\ RemoveCalled(c)
    /\ rem' = [rem EXCEPT ![c] = "group"]
    /\ wasActive' = IF activeWorkers[GuidOf[c]] = c THEN wasActive \cup {c} ELSE wasActive
    /\ activeWorkers' = [activeWorkers EXCEPT ![GuidOf[c]] = None]
    /\ UNCHANGED <<mainVars, hs, old, groupName, groups, rr, missed, misplaced, dbVars, due,
                   visit, syncVars, chanVars, sessVars, proxyVars>>

RemoveBegin(c) ==
    /\ rem[c] = "idle" /\ RemoveCalled(c)
    /\ rem' = [rem EXCEPT ![c] = "group"]
    /\ IF activeWorkers[GuidOf[c]] = c
       THEN /\ activeWorkers' = [activeWorkers EXCEPT ![GuidOf[c]] = None]
            /\ wasActive' = wasActive \cup {c}
       ELSE UNCHANGED <<activeWorkers, wasActive>>
    /\ UNCHANGED <<mainVars, hs, old, groupName, groups, rr, missed, misplaced, dbVars, due,
                   visit, syncVars, chanVars, sessVars, proxyVars>>

\* g.workers without its first occurrence of c; an empty group loses its
\* key and with it the round-robin counter.
Delist(c, g) == [groups EXCEPT ![g] = RemoveFirst(@, c)]
DelistRR(c, g) ==
    [rr EXCEPT ![g] = IF RemoveFirst(groups[g], c) = <<>> THEN 0 ELSE @]

\* removeWorkerFromGroup, and the start of sessions.Range.
RemoveFromGroup(c) ==
    /\ rem[c] = "group"
    /\ rem' = [rem EXCEPT ![c] = "range"]
    /\ groups' = Delist(c, groupName[c])
    /\ rr' = DelistRR(c, groupName[c])
    /\ due' = [due EXCEPT ![c] = {i \in sessions : workerOf[i] = c}]
    /\ UNCHANGED <<mainVars, hs, old, groupName, activeWorkers, missed, misplaced, dbVars,
                   wasActive, visit, syncVars, chanVars, sessVars, proxyVars>>

\* Mutant: the session is deleted without telling its Proxy.
RemoveVisitSilent(c, id) ==
    /\ rem[c] = "range" /\ visit[c] = None
    /\ id \in sessions /\ workerOf[id] = c
    /\ visit' = [visit EXCEPT ![c] = id]
    /\ UNCHANGED <<mainVars, regVars, dbVars, rem, wasActive, due, syncVars, chanVars,
                   sessVars, proxyVars>>

\* One session of c in the Range: CmdClose to its Proxy (blocking), then
\* sessions.Delete.  Range may also visit a session stored after it started.
RemoveVisit(c, id) ==
    /\ rem[c] = "range" /\ visit[c] = None
    /\ id \in sessions /\ workerOf[id] = c
    /\ TellProxy(id, "Close")
    /\ visit' = [visit EXCEPT ![c] = id]
    /\ UNCHANGED <<mainVars, regVars, dbVars, rem, wasActive, due, syncVars, send, rd,
                   sessions, proxyOf, workerOf, stored, late, hungup, proxyVars>>

RemoveDelete(c) ==
    /\ visit[c] # None
    /\ sessions' = sessions \ {visit[c]}
    /\ visit' = [visit EXCEPT ![c] = None]
    /\ UNCHANGED <<mainVars, regVars, dbVars, rem, wasActive, due, syncVars, chanVars,
                   proxyOf, workerOf, stored, late, told, hungup, proxyVars>>

\* Mutant: the Range stops early (its callback returns false).
RemoveDoneEarly(c) ==
    /\ rem[c] = "range" /\ visit[c] = None
    /\ rem' = [rem EXCEPT ![c] = IF c \in wasActive THEN "db" ELSE "finished"]
    /\ UNCHANGED <<mainVars, regVars, dbVars, wasActive, due, visit, syncVars, chanVars,
                   sessVars, proxyVars>>

\* Mutant: the row is never set offline.
RemoveDoneStaysOnline(c) ==
    /\ rem[c] = "range" /\ visit[c] = None /\ due[c] \cap sessions = {}
    /\ rem' = [rem EXCEPT ![c] = "finished"]
    /\ UNCHANGED <<mainVars, regVars, dbVars, wasActive, due, visit, syncVars, chanVars,
                   sessVars, proxyVars>>

\* Mutant: "if !active return" is dropped.
RemoveDoneAnyRow(c) ==
    /\ rem[c] = "range" /\ visit[c] = None /\ due[c] \cap sessions = {}
    /\ rem' = [rem EXCEPT ![c] = "db"]
    /\ UNCHANGED <<mainVars, regVars, dbVars, wasActive, due, visit, syncVars, chanVars,
                   sessVars, proxyVars>>

\* The Range is over: close(w.done), conn.Close().
RemoveDone(c) ==
    /\ rem[c] = "range" /\ visit[c] = None /\ due[c] \cap sessions = {}
    /\ rem' = [rem EXCEPT ![c] = IF c \in wasActive THEN "db" ELSE "finished"]
    /\ UNCHANGED <<mainVars, regVars, dbVars, wasActive, due, visit, syncVars, chanVars,
                   sessVars, proxyVars>>

\* UPDATE core_worker SET online=FALSE; a failed query is only logged.
RemoveOffline(c) ==
    /\ rem[c] = "db"
    /\ rem' = [rem EXCEPT ![c] = "finished"]
    /\ \/ /\ online' = online \ {GuidOf[c]}
          /\ tainted' = tainted \ {GuidOf[c]}
          /\ blanked' = IF c \in wasActive THEN blanked \cup {GuidOf[c]} ELSE blanked
       \/ /\ "dbfail" \in Events
          /\ tainted' = tainted \cup ({GuidOf[c]} \cap online)
          /\ UNCHANGED <<online, blanked>>
    /\ UNCHANGED <<mainVars, regVars, rows, assigned, adm, edits, wasActive, due, visit,
                   syncVars, chanVars, sessVars, proxyVars>>

-----------------------------------------------------------------------------
(* workerReader: frames from a Worker, sessions.Load and the forward are   *)
(* two steps, and sessions.Delete is a third.  A frame for an unknown or   *)
(* foreign session is skipped.                                             *)

\* Mutant: the check s.worker != w is dropped.
WorkerReadUnchecked(c, id, cmd) ==
    /\ hs[c] = "up" /\ rd[c] = None
    /\ id \in sessions
    /\ rd' = [rd EXCEPT ![c] = [id |-> id, cmd |-> cmd]]
    /\ UNCHANGED <<mainVars, regVars, dbVars, remVars, syncVars, send, psend, sessVars,
                   proxyVars>>

WorkerRead(c, id, cmd) ==
    /\ hs[c] = "up" /\ rd[c] = None
    /\ id \in sessions /\ workerOf[id] = c
    /\ rd' = [rd EXCEPT ![c] = [id |-> id, cmd |-> cmd]]
    /\ UNCHANGED <<mainVars, regVars, dbVars, remVars, syncVars, send, psend, sessVars,
                   proxyVars>>

\* The write to the Proxy.  The session ends with CmdClose or a failed write.
WorkerForward(c) ==
    /\ rd[c] # None /\ rd[c].cmd # "Delete"
    /\ LET id == rd[c].id  cmd == rd[c].cmd IN
         \/ /\ cmd = "Close"
            /\ TellProxy(id, "Close")
            /\ rd' = [rd EXCEPT ![c] = [id |-> id, cmd |-> "Delete"]]
         \/ /\ cmd # "Close"
            /\ WriteProxy(proxyOf[id], id, cmd)
            /\ rd' = [rd EXCEPT ![c] = None]
            /\ UNCHANGED told
         \/ /\ cmd # "Close"
            /\ WriteFails(proxyOf[id])
            /\ rd' = [rd EXCEPT ![c] = [id |-> id, cmd |-> "Delete"]]
            /\ UNCHANGED told
    /\ UNCHANGED <<mainVars, regVars, dbVars, remVars, syncVars, send, sessions, proxyOf,
                   workerOf, stored, late, hungup, proxyVars>>

WorkerDelete(c) ==
    /\ rd[c] # None /\ rd[c].cmd = "Delete"
    /\ sessions' = sessions \ {rd[c].id}
    /\ rd' = [rd EXCEPT ![c] = None]
    /\ UNCHANGED <<mainVars, regVars, dbVars, remVars, syncVars, send, psend, proxyOf,
                   workerOf, stored, late, told, hungup, proxyVars>>

-----------------------------------------------------------------------------
(* workerSyncLoop / syncWorkersFromDB: the database decides the group.     *)

SyncIdle == mv = None /\ \A g \in Guids : snap[g] = None

\* loadWorkersFromDB; a failed load changes nothing.
SyncLoad ==
    /\ "sync" \in Events /\ SyncIdle /\ ~Shutting /\ rows # {}
    /\ snap' = [g \in Guids |-> IF g \in rows THEN assigned[g] ELSE None]
    /\ UNCHANGED <<mainVars, regVars, dbVars, remVars, mv, chanVars, sessVars, proxyVars>>

\* One row: getActiveWorker(guid).
SyncPick(g) ==
    /\ mv = None /\ snap[g] # None /\ ~Shutting
    /\ mv' = IF activeWorkers[g] = None THEN None
             ELSE [w |-> activeWorkers[g], g |-> snap[g]]
    /\ snap' = [snap EXCEPT ![g] = None]
    /\ UNCHANGED <<mainVars, regVars, dbVars, remVars, chanVars, sessVars, proxyVars>>

\* Mutant: w.groupName is not updated.
SyncMoveKeepsName ==
    /\ mv # None
    /\ mv' = None
    /\ groups' = IF mv.g = NoGroup THEN Delist(mv.w, groupName[mv.w])
                 ELSE [Delist(mv.w, groupName[mv.w]) EXCEPT ![mv.g] = Append(@, mv.w)]
    /\ rr' = DelistRR(mv.w, groupName[mv.w])
    /\ UNCHANGED <<mainVars, hs, old, groupName, activeWorkers, missed, misplaced, dbVars,
                   remVars, snap, chanVars, sessVars, proxyVars>>

\* Mutant: w is not taken out of its old group.
SyncMoveStays ==
    /\ mv # None
    /\ mv' = None
    /\ groups' = IF mv.g = NoGroup THEN groups ELSE [groups EXCEPT ![mv.g] = Append(@, mv.w)]
    /\ groupName' = [groupName EXCEPT ![mv.w] = mv.g]
    /\ UNCHANGED <<mainVars, hs, old, activeWorkers, rr, missed, misplaced, dbVars, remVars,
                   snap, chanVars, sessVars, proxyVars>>

\* moveWorkerToGroup.  It is not told whether w has been removed meanwhile.
SyncMove ==
    /\ mv # None
    /\ mv' = None
    /\ \/ /\ groupName[mv.w] # mv.g
          /\ groups' = IF mv.g = NoGroup THEN Delist(mv.w, groupName[mv.w])
                       ELSE [Delist(mv.w, groupName[mv.w]) EXCEPT ![mv.g] = Append(@, mv.w)]
          /\ rr' = DelistRR(mv.w, groupName[mv.w])
          /\ groupName' = [groupName EXCEPT ![mv.w] = mv.g]
          /\ misplaced' = IF hs[mv.w] \notin {"listed", "up"} \/ Delisted(mv.w)
                          THEN misplaced \cup {mv.w} ELSE misplaced
       \/ /\ groupName[mv.w] = mv.g \/ Shutting
          /\ UNCHANGED <<groupName, groups, rr, misplaced>>
    /\ UNCHANGED <<mainVars, hs, old, activeWorkers, missed, dbVars, remVars, snap,
                   chanVars, sessVars, proxyVars>>

\* The admin API (WorkerRetrieveUpdateDestroyAPIView).  PATCH reads the row,
\* changes the group and saves every column it read.
AdminRead(g, grp) ==
    /\ adm = None /\ g \in rows /\ edits < MaxEdits
    /\ edits' = edits + 1
    /\ adm' = [guid |-> g, group |-> grp, online |-> {g} \cap online]
    /\ UNCHANGED <<mainVars, regVars, rows, online, assigned, tainted, blanked, remVars,
                   syncVars, chanVars, sessVars, proxyVars>>

AdminSave ==
    /\ adm # None
    /\ adm' = None
    /\ rows' = rows \cup {adm.guid}
    /\ assigned' = [assigned EXCEPT ![adm.guid] = adm.group]
    /\ online' = (online \ {adm.guid}) \cup adm.online
    /\ tainted' = (tainted \cup (adm.online \ online)) \cap online'
    /\ blanked' = blanked \cup ({adm.guid} \ adm.online)
    /\ UNCHANGED <<mainVars, regVars, edits, remVars, syncVars, chanVars, sessVars,
                   proxyVars>>

AdminDelete(g) ==
    /\ g \in rows /\ edits < MaxEdits
    /\ edits' = edits + 1
    /\ rows' = rows \ {g} /\ online' = online \ {g} /\ tainted' = tainted \ {g}
    /\ blanked' = blanked \cup {g}
    /\ assigned' = [assigned EXCEPT ![g] = NoGroup]
    /\ UNCHANGED <<mainVars, regVars, adm, remVars, syncVars, chanVars, sessVars,
                   proxyVars>>

-----------------------------------------------------------------------------
(* proxyHandler: one Proxy connection, its reads strictly in sequence.     *)

ProxyUpgrade(p) ==
    /\ ph[p] = "idle" /\ ~Shutting
    /\ ph' = [ph EXCEPT ![p] = "accepted"]
    /\ UNCHANGED <<mainVars, regVars, dbVars, remVars, syncVars, chanVars, sessVars, req,
                   pcl, pdue, closers>>

\* newProxyConnection: registered in proxyConnections, writer started.
NewProxyConnection(p) ==
    /\ ph[p] = "accepted"
    /\ \/ ph' = [ph EXCEPT ![p] = "hello"]
       \/ Shutting /\ ph' = [ph EXCEPT ![p] = "gone"]
    /\ UNCHANGED <<mainVars, regVars, dbVars, remVars, syncVars, chanVars, sessVars, req,
                   pcl, pdue, closers>>

Registered(p) == ph[p] \notin {"idle", "accepted"} /\ pcl[p] = "idle"

ProxyHello(p) ==
    /\ ph[p] = "hello"
    /\ \/ ~Shutting /\ ph' = [ph EXCEPT ![p] = "serve"]
       \/ ph' = [ph EXCEPT ![p] = "closing"]
    /\ UNCHANGED <<mainVars, regVars, dbVars, remVars, syncVars, chanVars, sessVars, req,
                   pcl, pdue, closers>>

\* A read error, a message read while shutting down, or the close of the
\* connection by another goroutine ends the handler.
ProxyReadEnds(p) ==
    /\ ph[p] = "serve" /\ ("drop" \in Events \/ Shutting \/ pcl[p] # "idle")
    /\ ph' = [ph EXCEPT ![p] = "closing"]
    /\ UNCHANGED <<mainVars, regVars, dbVars, remVars, syncVars, chanVars, sessVars, req,
                   pcl, pdue, closers>>

\* getWorker: the next worker of the group in turn.
Turn(g) == groups[g][(rr[g] % Len(groups[g])) + 1]

\* openProxySession up to getWorker(req.Route).  Frames already buffered are
\* still read after the connection has been closed by another goroutine.  A
\* request with an id in use, or of no valid form, changes nothing; one read
\* before the signal is answered with CmdError.
ProxyRequest(p, id, route) ==
    /\ ph[p] = "serve" /\ proxyOf[id] = None
    /\ proxyOf' = [proxyOf EXCEPT ![id] = p]
    /\ req' = [req EXCEPT ![p] = id]
    /\ \/ /\ ~Shutting /\ groups[route] # <<>>
          /\ workerOf' = [workerOf EXCEPT ![id] = Turn(route)]
          /\ rr' = [rr EXCEPT ![route] = @ + 1]
          /\ ph' = [ph EXCEPT ![p] = "store"]
       \/ /\ Shutting \/ groups[route] = <<>>
          /\ ph' = [ph EXCEPT ![p] = "replyError"]
          /\ UNCHANGED <<rr, workerOf>>
    /\ UNCHANGED <<mainVars, hs, old, groupName, activeWorkers, groups, missed, misplaced,
                   dbVars, remVars, syncVars, chanVars, sessions, stored, late, told,
                   hungup, pcl, pdue, closers>>

\* The second isShuttingDown check and sessions.Store.  Once shutting down,
\* the sendToWorker that follows fails ("fail").
OpenStore(p) ==
    /\ ph[p] = "store"
    /\ \/ /\ sessions' = sessions \cup {req[p]}
          /\ stored' = stored \cup {req[p]}
          /\ late' = IF Delisted(workerOf[req[p]]) \/ pcl[p] \in {"range", "finished"}
                     THEN late \cup {req[p]} ELSE late
          /\ ph' = [ph EXCEPT ![p] = IF Shutting THEN "fail" ELSE "send"]
       \/ /\ Shutting
          /\ ph' = [ph EXCEPT ![p] = "replyError"]
          /\ UNCHANGED <<sessions, stored, late>>
    /\ UNCHANGED <<mainVars, regVars, dbVars, remVars, syncVars, chanVars, proxyOf,
                   workerOf, told, hungup, req, pcl, pdue, closers>>

\* CmdConnect to the Worker; on failure the session is deleted and the
\* error goes back to the Proxy.
OpenSend(p) ==
    /\ ph[p] \in {"send", "fail"}
    /\ \/ /\ ph[p] = "send"
          /\ SendToWorker(workerOf[req[p]], req[p], "Connect")
          /\ ph' = [ph EXCEPT ![p] = "serve"]
          /\ req' = [req EXCEPT ![p] = None]
          /\ UNCHANGED sessions
       \/ /\ SendFails(workerOf[req[p]])
          /\ sessions' = sessions \ {req[p]}
          /\ ph' = [ph EXCEPT ![p] = "replyError"]
          /\ UNCHANGED <<send, req>>
    /\ UNCHANGED <<mainVars, regVars, dbVars, remVars, syncVars, psend, rd, proxyOf,
                   workerOf, stored, late, told, hungup, pcl, pdue, closers>>

\* Mutant: the check s.proxy != p is dropped.
ProxyBinaryUnchecked(p, id, cmd) ==
    /\ ph[p] = "serve" /\ ~Shutting
    /\ id \in sessions
    /\ req' = [req EXCEPT ![p] = id]
    /\ ph' = [ph EXCEPT ![p] = IF cmd = "Data" THEN "fwdData" ELSE "fwdClose"]
    /\ UNCHANGED <<mainVars, regVars, dbVars, remVars, syncVars, chanVars, sessVars, pcl,
                   pdue, closers>>

\* A binary frame: sessions.Load and the ownership check.
ProxyBinary(p, id, cmd) ==
    /\ ph[p] = "serve" /\ ~Shutting
    /\ id \in sessions /\ proxyOf[id] = p
    /\ req' = [req EXCEPT ![p] = id]
    /\ ph' = [ph EXCEPT ![p] = IF cmd = "Data" THEN "fwdData" ELSE "fwdClose"]
    /\ UNCHANGED <<mainVars, regVars, dbVars, remVars, syncVars, chanVars, sessVars, pcl,
                   pdue, closers>>

ForwardData(p) ==
    /\ ph[p] = "fwdData"
    /\ \/ /\ SendToWorker(workerOf[req[p]], req[p], "Data")
          /\ ph' = [ph EXCEPT ![p] = "serve"]
          /\ req' = [req EXCEPT ![p] = None]
          /\ UNCHANGED sessions
       \/ /\ SendFails(workerOf[req[p]])
          /\ sessions' = sessions \ {req[p]}
          /\ ph' = [ph EXCEPT ![p] = "replyClose"]
          /\ UNCHANGED <<send, req>>
    /\ UNCHANGED <<mainVars, regVars, dbVars, remVars, syncVars, psend, rd, proxyOf,
                   workerOf, stored, late, told, hungup, pcl, pdue, closers>>

\* The Proxy's CmdClose: sent on if it can be, the session deleted anyway.
ForwardClose(p) ==
    /\ ph[p] = "fwdClose"
    /\ \/ SendToWorker(workerOf[req[p]], req[p], "Close")
       \/ SendFails(workerOf[req[p]]) /\ UNCHANGED send
    /\ ph' = [ph EXCEPT ![p] = "endClose"]
    /\ UNCHANGED <<mainVars, regVars, dbVars, remVars, syncVars, psend, rd, sessVars, req,
                   pcl, pdue, closers>>

EndClose(p) ==
    /\ ph[p] = "endClose"
    /\ sessions' = sessions \ {req[p]}
    /\ hungup' = hungup \cup {req[p]}
    /\ ph' = [ph EXCEPT ![p] = "serve"]
    /\ req' = [req EXCEPT ![p] = None]
    /\ UNCHANGED <<mainVars, regVars, dbVars, remVars, syncVars, chanVars, proxyOf,
                   workerOf, stored, late, told, pcl, pdue, closers>>

\* sendProxySessionError, or the CmdClose after a failed forward.
ProxyReply(p) ==
    /\ ph[p] \in {"replyClose", "replyError"}
    /\ TellProxy(req[p], IF ph[p] = "replyClose" THEN "Close" ELSE "Error")
    /\ ph' = [ph EXCEPT ![p] = "serve"]
    /\ req' = [req EXCEPT ![p] = None]
    /\ UNCHANGED <<mainVars, regVars, dbVars, remVars, syncVars, send, rd, sessions,
                   proxyOf, workerOf, stored, late, hungup, pcl, pdue, closers>>

-----------------------------------------------------------------------------
(* ProxyConnection.close: closeOnce.Do, called by the handler's defer, the *)
(* writer on a failed write, or closeAllProxyConnections.                  *)

\* The writer can fail only on a message it has taken from the channel.
ProxyCloseCalled(p) ==
    ph[p] = "closing" \/ (psend[p] # <<>> /\ "drop" \in Events) \/ cur = p

\* unregisterProxyConnection, close(p.done), conn.Close().
ProxyCloseBegin(p) ==
    /\ pcl[p] = "idle" /\ ProxyCloseCalled(p)
    /\ pcl' = [pcl EXCEPT ![p] = "done"]
    /\ UNCHANGED <<mainVars, regVars, dbVars, remVars, syncVars, chanVars, sessVars, ph,
                   req, pdue, closers>>

\* The start of sessions.Range.
ProxyCloseRange(p) ==
    /\ pcl[p] = "done"
    /\ pcl' = [pcl EXCEPT ![p] = "range"]
    /\ pdue' = [pdue EXCEPT ![p] = {i \in sessions : proxyOf[i] = p}]
    /\ UNCHANGED <<mainVars, regVars, dbVars, remVars, syncVars, chanVars, sessVars, ph,
                   req, closers>>

\* One session of p: a goroutine is started to send CmdClose; Delete.
ProxyCloseVisit(p, id) ==
    /\ pcl[p] = "range" /\ id \in sessions /\ proxyOf[id] = p
    /\ sessions' = sessions \ {id}
    /\ closers' = IF Shutting THEN closers ELSE closers \cup {id}
    /\ UNCHANGED <<mainVars, regVars, dbVars, remVars, syncVars, chanVars, proxyOf,
                   workerOf, stored, late, told, hungup, ph, req, pcl, pdue>>

ProxyCloseEnd(p) ==
    /\ pcl[p] = "range" /\ pdue[p] \cap sessions = {}
    /\ pcl' = [pcl EXCEPT ![p] = "finished"]
    /\ UNCHANGED <<mainVars, regVars, dbVars, remVars, syncVars, chanVars, sessVars, ph,
                   req, pdue, closers>>

CloserSend(id) ==
    /\ id \in closers
    /\ closers' = closers \ {id}
    /\ \/ SendToWorker(workerOf[id], id, "Close")
       \/ SendFails(workerOf[id]) /\ UNCHANGED send
    /\ UNCHANGED <<mainVars, regVars, dbVars, remVars, syncVars, psend, rd, sessVars, ph,
                   req, pcl, pdue>>

\* The deferred close has returned.
ProxyHandlerExit(p) ==
    /\ ph[p] = "closing" /\ pcl[p] = "finished"
    /\ ph' = [ph EXCEPT ![p] = "gone"]
    /\ UNCHANGED <<mainVars, regVars, dbVars, remVars, syncVars, chanVars, sessVars, req,
                   pcl, pdue, closers>>

-----------------------------------------------------------------------------
(* main: the signal, then Workers, Proxies and sessions in that order.     *)

\* SIGTERM or SIGINT: setShuttingDown.
ShutdownSignal ==
    /\ "stop" \in Events /\ phase = "serving"
    /\ phase' = "draining"
    /\ UNCHANGED <<todo, cur, regVars, dbVars, remVars, syncVars, chanVars, sessVars,
                   proxyVars>>

\* ListenAndServe fails: main returns without closing anything.
ServerFails ==
    /\ "stop" \in Events /\ phase = "serving"
    /\ phase' = "exited"
    /\ UNCHANGED <<todo, cur, regVars, dbVars, remVars, syncVars, chanVars, sessVars,
                   proxyVars>>

\* server.Shutdown has returned (hijacked connections are not its business);
\* closeAllWorkers takes its snapshot.
CloseAllWorkers ==
    /\ phase = "draining"
    /\ phase' = "workers"
    /\ todo' = {c \in Conns : activeWorkers[GuidOf[c]] = c}
    /\ UNCHANGED <<cur, regVars, dbVars, remVars, syncVars, chanVars, sessVars, proxyVars>>

\* The next element of the snapshot: removeWorker(w) or p.close(nil).
CloseNext(x) ==
    /\ cur = None /\ x \in todo
    /\ cur' = x
    /\ todo' = todo \ {x}
    /\ UNCHANGED <<phase, regVars, dbVars, remVars, syncVars, chanVars, sessVars,
                   proxyVars>>

\* The call has returned: done by main, or awaited in once.Do.
CloseReturns ==
    /\ cur # None
    /\ \/ cur \in Conns /\ rem[cur] = "finished"
       \/ cur \in Proxies /\ pcl[cur] = "finished"
    /\ cur' = None
    /\ UNCHANGED <<phase, todo, regVars, dbVars, remVars, syncVars, chanVars, sessVars,
                   proxyVars>>

CloseAllProxyConnections ==
    /\ phase = "workers" /\ todo = {} /\ cur = None
    /\ phase' = "proxies"
    /\ todo' = {p \in Proxies : Registered(p)}
    /\ UNCHANGED <<cur, regVars, dbVars, remVars, syncVars, chanVars, sessVars, proxyVars>>

\* closeAllSessions, pool.Close() and the end of the process.
CloseAllSessions ==
    /\ phase = "proxies" /\ todo = {} /\ cur = None
    /\ phase' = "exited"
    /\ sessions' = {}
    /\ UNCHANGED <<todo, cur, regVars, dbVars, remVars, syncVars, chanVars, proxyOf,
                   workerOf, stored, late, told, hungup, proxyVars>>

Exited == phase = "exited" /\ UNCHANGED vars

-----------------------------------------------------------------------------
WorkerHandler(c) ==
    \/ WorkerUpgrade(c) \/ WorkerHello(c) \/ RegisterWorker(c) \/ GetWorkerGroup(c)
    \/ LookupOld(c) \/ SetActiveWorker(c) \/ AddWorkerToGroup(c) \/ HandlerUp(c)

RemoveWorker(c) ==
    \/ RemoveBegin(c) \/ RemoveFromGroup(c) \/ (\E id \in Ids : RemoveVisit(c, id))
    \/ RemoveDelete(c) \/ RemoveDone(c) \/ RemoveOffline(c)

WorkerReader(c) ==
    \/ \E id \in Ids, cmd \in {"Data", "Close"} : WorkerRead(c, id, cmd)
    \/ WorkerForward(c) \/ WorkerDelete(c)

SyncWorkersFromDB == SyncLoad \/ (\E g \in Guids : SyncPick(g)) \/ SyncMove

Admin ==
    \/ \E g \in Guids, grp \in AllGroups : AdminRead(g, grp)
    \/ AdminSave
    \/ \E g \in Guids : AdminDelete(g)

ProxyHandler(p) ==
    \/ ProxyUpgrade(p) \/ NewProxyConnection(p) \/ ProxyHello(p) \/ ProxyReadEnds(p)
    \/ \E id \in Ids, g \in Groups : ProxyRequest(p, id, g)
    \/ OpenStore(p) \/ OpenSend(p)
    \/ \E id \in Ids, cmd \in {"Data", "Close"} : ProxyBinary(p, id, cmd)
    \/ ForwardData(p) \/ ForwardClose(p) \/ EndClose(p) \/ ProxyReply(p) \/ ProxyHandlerExit(p)

ProxyClose(p) ==
    \/ ProxyCloseBegin(p) \/ ProxyCloseRange(p)
    \/ (\E id \in Ids : ProxyCloseVisit(p, id)) \/ ProxyCloseEnd(p)

Main ==
    \/ ShutdownSignal \/ ServerFails \/ CloseAllWorkers
    \/ (\E x \in Conns \cup Proxies : CloseNext(x)) \/ CloseReturns
    \/ CloseAllProxyConnections \/ CloseAllSessions

\* When main returns the process ends with every goroutine in it.
Running ==
    /\ phase # "exited"
    /\ \/ Main \/ SyncWorkersFromDB \/ Admin
       \/ \E c \in Conns :
            WorkerHandler(c) \/ RemoveWorker(c) \/ WorkerReader(c) \/ WorkerWrite(c)
       \/ \E p \in Proxies : ProxyHandler(p) \/ ProxyClose(p) \/ ProxyWrite(p)
       \/ \E id \in Ids : CloserSend(id)

Next == Running \/ Exited

Spec == Init /\ [][Next]_vars

-----------------------------------------------------------------------------
MainType ==
    /\ phase \in {"serving", "draining", "workers", "proxies", "exited"}
    /\ todo \in SUBSET (Conns \cup Proxies) /\ cur \in Conns \cup Proxies \cup {None}

RegType ==
    /\ hs \in [Conns -> HandlerStages] /\ old \in [Conns -> Conns \cup {None}]
    /\ groupName \in [Conns -> AllGroups]
    /\ activeWorkers \in [Guids -> Conns \cup {None}]
    /\ groups \in [AllGroups -> Seq(Conns)] /\ rr \in [AllGroups -> Nat]
    /\ missed \in SUBSET Conns /\ misplaced \in SUBSET Conns

DbType ==
    /\ rows \in SUBSET Guids /\ online \in SUBSET rows /\ tainted \in SUBSET online
    /\ blanked \in SUBSET Guids
    /\ assigned \in [Guids -> AllGroups]
    /\ adm \in [guid : Guids, group : AllGroups, online : SUBSET Guids] \cup {None}
    /\ adm # None => adm.online \subseteq {adm.guid}
    /\ edits \in 0 .. MaxEdits

RemType ==
    /\ rem \in [Conns -> RemStages] /\ wasActive \in SUBSET Conns
    /\ due \in [Conns -> SUBSET Ids] /\ visit \in [Conns -> Ids \cup {None}]

SyncType ==
    /\ snap \in [Guids -> AllGroups \cup {None}]
    /\ mv \in [w : Conns, g : AllGroups] \cup {None}

ChanType ==
    /\ send \in [Conns -> Seq(ToWorker)] /\ psend \in [Proxies -> Seq(ToProxy)]
    /\ \A c \in Conns : Len(send[c]) <= SendCap
    /\ \A p \in Proxies : Len(psend[p]) <= ProxyCap
    /\ rd \in [Conns -> FromWorker \cup ToDelete \cup {None}]

SessType ==
    /\ sessions \in SUBSET Ids /\ stored \in SUBSET Ids /\ late \in SUBSET Ids
    /\ told \in SUBSET Ids /\ hungup \in SUBSET Ids
    /\ proxyOf \in [Ids -> Proxies \cup {None}] /\ workerOf \in [Ids -> Conns \cup {None}]

ProxyType ==
    /\ ph \in [Proxies -> ProxyStages] /\ req \in [Proxies -> Ids \cup {None}]
    /\ pcl \in [Proxies -> PclStages] /\ pdue \in [Proxies -> SUBSET Ids]
    /\ closers \in SUBSET Ids

\* The values of the variables; the channels stay within their capacity.
TypeOK ==
    /\ MainType /\ RegType /\ DbType /\ RemType
    /\ SyncType /\ ChanType /\ SessType /\ ProxyType

-----------------------------------------------------------------------------
(* Safety.                                                                 *)

\* The stages of a handler that has called setActiveWorker.
PastSetActive == {"active", "skip", "listed", "up"}

\* The registry never names a connection that removeWorker has begun to
\* remove or that has not reached setActiveWorker, and every entry is under
\* its own GUID: what getActiveWorker returns is always a live Worker.
ActiveNotRemoved ==
    \A g \in Guids : activeWorkers[g] # None =>
        /\ GuidOf[activeWorkers[g]] = g
        /\ rem[activeWorkers[g]] = "idle"
        /\ hs[activeWorkers[g]] \in PastSetActive

\* Someone answers for online=TRUE of g: a connection is active, a handler is
\* between registerWorker and setActiveWorker, or the removeWorker that took
\* the entry has yet to write online=FALSE.
Accounted(g) ==
    \/ activeWorkers[g] # None
    \/ \E c \in Conns : GuidOf[c] = g /\ hs[c] \in {"registered", "grouped", "made"}
    \/ \E c \in Conns : GuidOf[c] = g /\ c \in wasActive /\ rem[c] \in {"group", "range", "db"}

\* While the broker serves, no row is left online by accident: whatever the
\* order of registerWorker, setActiveWorker and removeWorker on connections of
\* one GUID, online=TRUE is accounted for.  Exempt are rows last written by a
\* failed query, a stale PATCH or a crashed broker.
OnlineAccounted == ~Shutting => \A g \in online \ tainted : Accounted(g)

\* What makes ActiveNotRemoved inductive: only a connection that has passed
\* setActiveWorker can be another handler's old, be in main's snapshot, or
\* be removed.
RegistryInv ==
    /\ ActiveNotRemoved
    /\ \A c \in Conns : rem[c] # "idle" => hs[c] \in PastSetActive
    /\ \A c \in Conns : old[c] # None => hs[old[c]] \in PastSetActive
    /\ \A c \in Conns : c \in todo \/ cur = c => hs[c] \in PastSetActive

\* A connected Worker that has a group name can be chosen for that group,
\* whatever the order of its handler, the sync loop and other connections:
\* addWorkerToGroup and moveWorkerToGroup never lose it.
ActiveIsRoutable ==
    ~Shutting => \A c \in Conns :
        (hs[c] \in {"listed", "up"} /\ rem[c] \in {"idle", "group"} /\ groupName[c] # NoGroup)
            => \E i \in 1 .. Len(groups[groupName[c]]) : groups[groupName[c]][i] = c

\* No connected Worker is forgotten by the registry: it is the active one of its
\* GUID, or the handler of the one that replaced it has yet to remove it.  Exempt
\* is one replaced by a handler that called getActiveWorker too early to see it.
UpIsRegistered ==
    ~Shutting => \A c \in Conns \ missed :
        hs[c] \in {"active", "listed", "up"} /\ rem[c] = "idle" =>
            \/ activeWorkers[GuidOf[c]] = c
            \/ \E d \in Conns : hs[d] \in {"active", "listed"} /\ old[d] = c

\* The registered Worker of a GUID is shown online: the removal of an earlier
\* connection writes FALSE only if that one was still registered when its
\* removal began.  Exempt are rows that the admin API, or such a removal, has
\* written since the Worker registered.
ActiveIsOnline ==
    \A g \in Guids : activeWorkers[g] # None => g \in online \cup blanked

\* What makes ActiveIsOnline inductive: the row is online from registerWorker
\* on, and only who was active gets to the UPDATE.
OnlineInv ==
    /\ ActiveIsOnline
    /\ \A c \in Conns : hs[c] \in {"registered", "grouped", "made"} =>
          GuidOf[c] \in online \cup blanked
    /\ \A c \in Conns : rem[c] = "db" => c \in wasActive

\* A Worker is in one list once, that of its group's name, and in none after
\* removeWorkerFromGroup: getWorker gives every Worker its turn and never a
\* removed one.  Exempt is one that was moved before addWorkerToGroup, or that
\* was moved or added after removeWorkerFromGroup.
ListedOnce ==
    \A c \in Conns \ misplaced : \A g \in AllGroups : \A i \in 1 .. Len(groups[g]) :
        groups[g][i] = c =>
            /\ g = groupName[c] /\ ~Delisted(c)
            /\ \A j \in 1 .. Len(groups[g]) : groups[g][j] = c => j = i

\* What makes ListedOnce inductive: before addWorkerToGroup it is in no list.
ListInv ==
    /\ ListedOnce
    /\ \A c \in Conns \ misplaced : hs[c] \notin {"listed", "up"} =>
          \A g \in AllGroups : \A i \in 1 .. Len(groups[g]) : groups[g][i] # c

\* Multiplexed sessions do not leak into one another: whatever is queued for
\* a Worker or a Proxy, or is about to be forwarded by a reader, concerns a
\* session between that Worker and that Proxy.
Isolation ==
    /\ \A c \in Conns : \A i \in 1 .. Len(send[c]) : workerOf[send[c][i].id] = c
    /\ \A p \in Proxies : \A i \in 1 .. Len(psend[p]) : proxyOf[psend[p][i].id] = p
    /\ \A c \in Conns : rd[c] # None => workerOf[rd[c].id] = c
    /\ \A p \in Proxies : req[p] # None => proxyOf[req[p]] = p

\* What the stages imply about the session in hand: the strengthening under
\* which the type invariant, Isolation and EndIsAnnounced are inductive.
SessionsBound ==
    /\ \A id \in Ids : workerOf[id] # None => proxyOf[id] # None
    /\ sessions \subseteq stored
    /\ \A id \in stored \cup closers : proxyOf[id] # None /\ workerOf[id] # None
    /\ \A c \in Conns : rd[c] # None => workerOf[rd[c].id] # None
    /\ \A p \in Proxies : ph[p] \in {"store", "send", "fail", "fwdData", "fwdClose", "endClose"} =>
          req[p] # None /\ proxyOf[req[p]] = p /\ workerOf[req[p]] # None
    /\ \A p \in Proxies : ph[p] \in {"replyClose", "replyError"} =>
          req[p] # None /\ proxyOf[req[p]] = p

\* A session stored before the Range of its Worker's removal and that of its
\* Proxy's close began does not outlive either: the two Ranges miss only
\* sessions stored while they were already under way.
SweptSessions ==
    \A id \in sessions \ late : ~Done(workerOf[id]) /\ pcl[proxyOf[id]] # "finished"

\* What makes SweptSessions inductive: until a Range is over, every such
\* session still in the table is one it has yet to visit.
SweptInv ==
    \A id \in sessions \ late :
        /\ \/ rem[workerOf[id]] \in {"idle", "group"}
           \/ rem[workerOf[id]] = "range" /\ id \in due[workerOf[id]]
        /\ \/ pcl[proxyOf[id]] \in {"idle", "done"}
           \/ pcl[proxyOf[id]] = "range" /\ id \in pdue[proxyOf[id]]

\* No session ends behind its Proxy's back: once it has left the table, its
\* Proxy has been sent CmdClose or CmdError, is about to be, closed the
\* session itself or is closed, or the whole process is gone.
EndIsAnnounced ==
    \A id \in stored \ sessions :
        \/ id \in told \cup hungup
        \/ pcl[proxyOf[id]] # "idle"
        \/ req[proxyOf[id]] = id /\ ph[proxyOf[id]] \in {"replyClose", "replyError"}
        \/ phase = "exited"

\* The Proxy of session id has been told of its end, or is closed.
Told(id) == id \in told \/ pcl[proxyOf[id]] # "idle"

\* What makes EndIsAnnounced inductive: who is about to delete a session has
\* told its Proxy.
EndInv ==
    /\ EndIsAnnounced
    /\ \A c \in Conns : visit[c] # None => visit[c] \in stored /\ Told(visit[c])
    /\ \A c \in Conns : rd[c] # None /\ rd[c].cmd = "Delete" => Told(rd[c].id)

-----------------------------------------------------------------------------
(* Liveness.  Goroutines that are ready run; a blocked channel send is     *)
(* served in FIFO order (strong fairness of RemoveVisit); the Proxy at the *)
(* other end reads its WebSocket.  No failure is ever forced.              *)

Fairness ==
    /\ WF_vars(phase # "exited" /\ CloseAllWorkers)
    /\ WF_vars(phase # "exited" /\ \E x \in Conns \cup Proxies : CloseNext(x))
    /\ WF_vars(phase # "exited" /\ CloseReturns)
    /\ WF_vars(phase # "exited" /\ CloseAllProxyConnections)
    /\ WF_vars(phase # "exited" /\ CloseAllSessions)
    /\ WF_vars(phase # "exited" /\ SyncLoad)
    /\ WF_vars(phase # "exited" /\ SyncMove)
    /\ \A g \in Guids : WF_vars(phase # "exited" /\ SyncPick(g))
    /\ \A c \in Conns :
          /\ WF_vars(phase # "exited" /\ AddWorkerToGroup(c))
          /\ WF_vars(phase # "exited" /\ cur = c /\ RemoveBegin(c))
          /\ WF_vars(phase # "exited" /\ RemoveFromGroup(c))
          /\ \A id \in Ids : SF_vars(phase # "exited" /\ RemoveVisit(c, id))
          /\ WF_vars(phase # "exited" /\ RemoveDelete(c))
          /\ WF_vars(phase # "exited" /\ RemoveDone(c))
          /\ WF_vars(phase # "exited" /\ RemoveOffline(c))
    /\ \A p \in Proxies :
          /\ WF_vars(phase # "exited" /\ cur = p /\ ProxyCloseBegin(p))
          /\ WF_vars(phase # "exited" /\ ProxyCloseRange(p))
          /\ \A id \in Ids : WF_vars(phase # "exited" /\ ProxyCloseVisit(p, id))
          /\ WF_vars(phase # "exited" /\ ProxyCloseEnd(p))
          /\ WF_vars(phase # "exited" /\ ProxyWrite(p))

FairSpec == Spec /\ Fairness

\* The ordered shutdown ends: main is never left waiting in once.Do or in a
\* write to a Proxy.
ShutdownCompletes == phase = "draining" ~> phase = "exited"

=============================================================================
