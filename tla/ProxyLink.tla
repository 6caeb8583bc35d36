----------------------------- MODULE ProxyLink -----------------------------
(***************************************************************************)
(* The Proxy's side of the broker (proxy/cmd/proxy/broker.go): the one     *)
(* shared BrokerConnection, dialled on demand by whichever client needs it *)
(* first, the sessions multiplexed over it and the goroutines around them. *)
(*                                                                         *)
(* A client is a goroutine in handleBroker (or handleUDPBroker, which has  *)
(* the same steps up to the tunnel).  It opens one session, so a client    *)
(* also stands for its BrokerSession.  The broker behind the WebSocket is  *)
(* external: it answers a request it has read with any frames in any order *)
(* until it sends CmdClose or CmdError.                                    *)
(***************************************************************************)
EXTENDS Naturals, Sequences, FiniteSets

CONSTANTS
    Clients,   \* requests routed through the broker
    Talkers,   \* those among them whose tunnel carries data
    None,      \* nil
    MaxLinks,  \* bound on the successful dials of a run
    WriteCap,  \* capacity of BrokerConnection.writeCh (4096 in the code)
    DataCap    \* capacity of BrokerSession.data (32 in the code)

Links == 1 .. MaxLinks

ASSUME LinkClients == Talkers \subseteq Clients /\ None \notin Clients \cup Links
ASSUME LinkCaps == MaxLinks \in Nat /\ WriteCap \in Nat \ {0} /\ DataCap \in Nat \ {0}

VARIABLES
    brokerConn,  \* the shared connection
    dialing,     \* brokerDialing: a brokerWaitCh is open
    links,       \* number of connections dialled so far
    cl,          \* BrokerConnection.close: "open", "range", "closed"
    due,         \* sessions its Range must visit: present when it started
    reading,     \* connections whose readLoop still runs
    writeCh,     \* BrokerConnection.writeCh
    st,          \* stage of handleBroker
    conn,        \* the connection it was given
    sessions,    \* keys of the connections' session tables
    closed,      \* sessions whose done is closed
    connected,   \* BrokerSession.connected: None, "ok" or "err"
    data,        \* length of BrokerSession.data
    snd,         \* the goroutine that reads the client: "none", "run", "ended"
    asked,       \* ids whose request the broker has read
    ended,       \* ids the broker has closed
    late,        \* history: ids stored after their connection's close began
    said,        \* history: ids for which CmdClose was queued
    overrun      \* history: ids closed because their data queue was full

stateVars == <<brokerConn, dialing, links>>
linkVars  == <<cl, due, reading>>
sessVars  == <<sessions, closed, connected, data>>
envVars   == <<asked, ended>>
histVars  == <<late, said, overrun>>
vars == <<stateVars, linkVars, writeCh, st, conn, sessVars, snd, envVars, histVars>>

ClientStages == {"start", "wait", "dial", "publish", "got", "ask", "await", "up",
                 "hang", "bye", "drop", "ended"}
Frame == [id : Clients, cmd : {"Open", "Data", "Close"}]

Init ==
    /\ brokerConn = None /\ dialing = FALSE /\ links = 0
    /\ cl = [c \in Links |-> "open"] /\ due = [c \in Links |-> {}]
    /\ reading = Links
    /\ writeCh = [c \in Links |-> <<>>]
    /\ st = [h \in Clients |-> "start"] /\ conn = [h \in Clients |-> None]
    /\ sessions = {} /\ closed = {}
    /\ connected = [h \in Clients |-> None] /\ data = [h \in Clients |-> 0]
    /\ snd = [h \in Clients |-> "none"]
    /\ asked = {} /\ ended = {} /\ late = {} /\ said = {} /\ overrun = {}

Done(c) == cl[c] # "open"

\* BrokerConnection.send: a random choice when there is room and done is
\* closed.
Send(c, h, cmd) ==
    /\ Len(writeCh[c]) < WriteCap
    /\ writeCh' = [writeCh EXCEPT ![c] = Append(@, [id |-> h, cmd |-> cmd])]

SendFails(c) == Done(c) /\ UNCHANGED writeCh

\* BrokerSession.close(err): once.Do offers the error to connected and closes
\* done.  WaitConnected may run between the two.
CloseWithError(h) ==
    /\ closed' = closed \cup {h}
    /\ connected' = [connected EXCEPT ![h] = IF h \notin closed /\ @ = None THEN "err" ELSE @]

-----------------------------------------------------------------------------
(* getBrokerConnection and dialBroker.                                     *)

\* Mutant: brokerDialing is not consulted.
GetConnNoWait(h) ==
    /\ st[h] = "start"
    /\ \/ /\ brokerConn # None
          /\ conn' = [conn EXCEPT ![h] = brokerConn]
          /\ st' = [st EXCEPT ![h] = "got"]
          /\ UNCHANGED dialing
       \/ /\ brokerConn = None
          /\ dialing' = TRUE
          /\ st' = [st EXCEPT ![h] = "dial"]
          /\ UNCHANGED conn
    /\ UNCHANGED <<brokerConn, links, linkVars, writeCh, sessVars, snd, envVars, histVars>>

\* One critical section: the shared connection, a wait for the client that is
\* dialling, or the duty to dial.
GetConn(h) ==
    /\ st[h] = "start"
    /\ \/ /\ brokerConn # None
          /\ conn' = [conn EXCEPT ![h] = brokerConn]
          /\ st' = [st EXCEPT ![h] = "got"]
          /\ UNCHANGED dialing
       \/ /\ brokerConn = None /\ dialing
          /\ st' = [st EXCEPT ![h] = "wait"]
          /\ UNCHANGED <<conn, dialing>>
       \/ /\ brokerConn = None /\ ~dialing
          /\ dialing' = TRUE
          /\ st' = [st EXCEPT ![h] = "dial"]
          /\ UNCHANGED conn
    /\ UNCHANGED <<brokerConn, links, linkVars, writeCh, sessVars, snd, envVars, histVars>>

\* dialBroker: on success the read and write loops are already running when
\* it returns.
DialBroker(h) ==
    /\ st[h] = "dial"
    /\ st' = [st EXCEPT ![h] = "publish"]
    /\ \/ /\ links < MaxLinks
          /\ links' = links + 1
          /\ conn' = [conn EXCEPT ![h] = links + 1]
       \/ UNCHANGED <<links, conn>>
    /\ UNCHANGED <<brokerConn, dialing, linkVars, writeCh, sessVars, snd, envVars, histVars>>

\* Mutant: a failed dial returns without closing waitCh.
PublishFailureSilent(h) ==
    /\ st[h] = "publish"
    /\ brokerConn' = IF conn[h] # None THEN conn[h] ELSE brokerConn
    /\ dialing' = FALSE
    /\ st' = [x \in Clients |->
                IF x = h THEN (IF conn[h] # None THEN "got" ELSE "ended")
                ELSE IF st[x] = "wait" /\ conn[h] # None THEN "start" ELSE st[x]]
    /\ UNCHANGED <<links, linkVars, writeCh, conn, sessVars, snd, envVars, histVars>>

\* brokerConn is set without a look at c.done; close(waitCh) wakes the others.
Publish(h) ==
    /\ st[h] = "publish"
    /\ brokerConn' = IF conn[h] # None THEN conn[h] ELSE brokerConn
    /\ dialing' = FALSE
    /\ st' = [x \in Clients |->
                IF x = h THEN (IF conn[h] # None THEN "got" ELSE "ended")
                ELSE IF st[x] = "wait" THEN "start" ELSE st[x]]
    /\ UNCHANGED <<links, linkVars, writeCh, conn, sessVars, snd, envVars, histVars>>

-----------------------------------------------------------------------------
(* openSession, waitConnected and the tunnel of handleBroker.              *)

OpenStore(h) ==
    /\ st[h] = "got"
    /\ sessions' = sessions \cup {h}
    /\ late' = IF Done(conn[h]) THEN late \cup {h} ELSE late
    /\ st' = [st EXCEPT ![h] = "ask"]
    /\ UNCHANGED <<stateVars, linkVars, writeCh, conn, closed, connected, data, snd, envVars,
                   said, overrun>>

\* The request; if it cannot be sent, Delete and close(err).
OpenSend(h) ==
    /\ st[h] = "ask"
    /\ \/ /\ Send(conn[h], h, "Open")
          /\ st' = [st EXCEPT ![h] = "await"]
          /\ UNCHANGED <<sessions, closed, connected>>
       \/ /\ SendFails(conn[h])
          /\ sessions' = sessions \ {h}
          /\ CloseWithError(h)
          /\ st' = [st EXCEPT ![h] = "ended"]
    /\ UNCHANGED <<stateVars, linkVars, conn, data, snd, envVars, histVars>>

\* waitConnected, which has no timeout, and onConnected, which may fail.  With
\* an error taken before done is closed, closeBrokerSession finds the session
\* open ("bye").
WaitConnected(h) ==
    /\ st[h] = "await" /\ (connected[h] # None \/ h \in closed)
    /\ connected' = [connected EXCEPT ![h] = None]
    /\ \/ /\ connected[h] = "ok"
          /\ st' = [st EXCEPT ![h] = "up"] /\ snd' = [snd EXCEPT ![h] = "run"]
       \/ st' = [st EXCEPT ![h] = "hang"] /\ UNCHANGED snd
       \/ /\ connected[h] = "err"
          /\ st' = [st EXCEPT ![h] = "bye"] /\ UNCHANGED snd
    /\ UNCHANGED <<stateVars, linkVars, writeCh, conn, sessions, closed, data, envVars, histVars>>

\* A payload for the client, or the client's write error.
Deliver(h) ==
    /\ st[h] = "up" /\ data[h] > 0
    /\ data' = [data EXCEPT ![h] = @ - 1]
    /\ \/ UNCHANGED st
       \/ st' = [st EXCEPT ![h] = "hang"]
    /\ UNCHANGED <<stateVars, linkVars, writeCh, conn, sessions, closed, connected, snd, envVars,
                   histVars>>

\* clientDone or s.done, whatever is still queued in s.data.
TunnelEnds(h) ==
    /\ st[h] = "up" /\ (snd[h] = "ended" \/ h \in closed)
    /\ st' = [st EXCEPT ![h] = "hang"]
    /\ UNCHANGED <<stateVars, linkVars, writeCh, conn, sessVars, snd, envVars, histVars>>

\* The goroutine from the client to the broker.
ClientRead(h) ==
    /\ snd[h] = "run"
    /\ \/ h \in Talkers /\ Send(conn[h], h, "Data") /\ UNCHANGED snd
       \/ SendFails(conn[h]) /\ snd' = [snd EXCEPT ![h] = "ended"]
       \/ UNCHANGED writeCh /\ snd' = [snd EXCEPT ![h] = "ended"]
    /\ UNCHANGED <<stateVars, linkVars, st, conn, sessVars, envVars, histVars>>

\* Mutant: the session is dropped without CmdClose.
HangUpSilent(h) ==
    /\ st[h] = "hang"
    /\ st' = [st EXCEPT ![h] = IF h \in closed THEN "ended" ELSE "drop"]
    /\ UNCHANGED <<stateVars, linkVars, writeCh, conn, sessVars, snd, envVars, histVars>>

\* closeBrokerSession: nothing if the session is closed already, else
\* CmdClose, Delete and close(nil).
HangUp(h) ==
    /\ st[h] = "hang"
    /\ st' = [st EXCEPT ![h] = IF h \in closed THEN "ended" ELSE "bye"]
    /\ UNCHANGED <<stateVars, linkVars, writeCh, conn, sessVars, snd, envVars, histVars>>

SendClose(h) ==
    /\ st[h] = "bye"
    /\ \/ Send(conn[h], h, "Close") /\ said' = said \cup {h}
       \/ SendFails(conn[h]) /\ UNCHANGED said
    /\ st' = [st EXCEPT ![h] = "drop"]
    /\ UNCHANGED <<stateVars, linkVars, conn, sessVars, snd, envVars, late, overrun>>

Drop(h) ==
    /\ st[h] = "drop"
    /\ sessions' = sessions \ {h}
    /\ closed' = closed \cup {h}
    /\ st' = [st EXCEPT ![h] = "ended"]
    /\ UNCHANGED <<stateVars, linkVars, writeCh, conn, connected, data, snd, envVars, histVars>>

-----------------------------------------------------------------------------
(* BrokerConnection: readLoop, writeLoop and close.                        *)

Up(c) == c <= links

\* writeLoop: a message reaches the broker.
WriteLoop(c) ==
    /\ Up(c) /\ ~Done(c) /\ writeCh[c] # <<>>
    /\ LET m == Head(writeCh[c]) IN
         asked' = IF m.cmd = "Open" THEN asked \cup {m.id} ELSE asked
    /\ writeCh' = [writeCh EXCEPT ![c] = Tail(@)]
    /\ UNCHANGED <<stateVars, linkVars, st, conn, sessVars, snd, ended, histVars>>

\* readLoop: a frame for a known session.  Frames already buffered are read
\* even after the socket has been closed by the write loop.  CmdError does
\* what CmdClose does; "Close" is either.
ReadFrame(c, h, cmd) ==
    /\ Up(c) /\ c \in reading /\ h \in asked \ ended /\ conn[h] = c /\ h \in sessions
    /\ \/ /\ cmd = "Connected"
          /\ connected' = [connected EXCEPT ![h] = IF @ = None THEN "ok" ELSE @]
          /\ UNCHANGED <<sessions, closed, data, ended, overrun>>
       \/ /\ cmd = "Data" /\ h \in Talkers /\ data[h] < DataCap
          /\ data' = [data EXCEPT ![h] = @ + 1]
          /\ UNCHANGED <<sessions, closed, connected, ended, overrun>>
       \/ /\ cmd = "Data" /\ data[h] = DataCap
          /\ overrun' = overrun \cup {h}
          /\ sessions' = sessions \ {h} /\ CloseWithError(h)
          /\ UNCHANGED <<data, ended>>
       \/ /\ cmd = "Close"
          /\ ended' = ended \cup {h}
          /\ sessions' = sessions \ {h} /\ CloseWithError(h)
          /\ UNCHANGED <<data, overrun>>
    /\ UNCHANGED <<stateVars, linkVars, writeCh, st, conn, snd, asked, late, said>>

\* A failing read ends readLoop, a failing write or ping ends writeLoop; each
\* calls close: close(c.done), ws.Close() and the start of Range.
LinkFails(c) ==
    /\ Up(c)
    /\ \/ c \in reading /\ reading' = reading \ {c}
       \/ ~Done(c) /\ UNCHANGED reading
    /\ IF Done(c) THEN UNCHANGED <<cl, due>>
       ELSE /\ cl' = [cl EXCEPT ![c] = "range"]
            /\ due' = [due EXCEPT ![c] = {h \in sessions : conn[h] = c}]
    /\ UNCHANGED <<stateVars, writeCh, st, conn, sessVars, snd, envVars, histVars>>

\* Mutant: the Range forgets the sessions without closing them.
RangeVisitForgets(c, h) ==
    /\ cl[c] = "range" /\ h \in sessions /\ conn[h] = c
    /\ sessions' = sessions \ {h}
    /\ UNCHANGED <<stateVars, linkVars, writeCh, st, conn, closed, connected, data, snd, envVars,
                   histVars>>

RangeVisit(c, h) ==
    /\ cl[c] = "range" /\ h \in sessions /\ conn[h] = c
    /\ sessions' = sessions \ {h}
    /\ CloseWithError(h)
    /\ UNCHANGED <<stateVars, linkVars, writeCh, st, conn, data, snd, envVars, histVars>>

\* Mutant: the Range ends before it has visited everything.
CloseLinkEarly(c) ==
    /\ cl[c] = "range"
    /\ cl' = [cl EXCEPT ![c] = "closed"]
    /\ brokerConn' = IF brokerConn = c THEN None ELSE brokerConn
    /\ UNCHANGED <<dialing, links, due, reading, writeCh, st, conn, sessVars, snd, envVars,
                   histVars>>

\* The end of close: the shared connection is forgotten if it is this one.
CloseLink(c) ==
    /\ cl[c] = "range" /\ due[c] \cap sessions = {}
    /\ cl' = [cl EXCEPT ![c] = "closed"]
    /\ brokerConn' = IF brokerConn = c THEN None ELSE brokerConn
    /\ UNCHANGED <<dialing, links, due, reading, writeCh, st, conn, sessVars, snd, envVars,
                   histVars>>

-----------------------------------------------------------------------------
GetBrokerConnection(h) == GetConn(h) \/ DialBroker(h) \/ Publish(h)

HandleBroker(h) ==
    \/ GetBrokerConnection(h) \/ OpenStore(h) \/ OpenSend(h) \/ WaitConnected(h)
    \/ Deliver(h) \/ TunnelEnds(h) \/ ClientRead(h) \/ HangUp(h) \/ SendClose(h) \/ Drop(h)

Closer(c) == CloseLink(c) \/ \E h \in Clients : RangeVisit(c, h)

Link(c) ==
    \/ WriteLoop(c) \/ LinkFails(c) \/ Closer(c)
    \/ \E h \in Clients, cmd \in {"Connected", "Data", "Close"} : ReadFrame(c, h, cmd)

Next ==
    \/ \E h \in Clients : HandleBroker(h)
    \/ \E c \in Links : Link(c)

Spec == Init /\ [][Next]_vars

-----------------------------------------------------------------------------
\* The values of the variables; the queues stay within their capacity.
TypeOK ==
    /\ brokerConn \in Links \cup {None} /\ dialing \in BOOLEAN /\ links \in 0 .. MaxLinks
    /\ cl \in [Links -> {"open", "range", "closed"}] /\ due \in [Links -> SUBSET Clients]
    /\ reading \in SUBSET Links
    /\ writeCh \in [Links -> Seq(Frame)] /\ \A c \in Links : Len(writeCh[c]) <= WriteCap
    /\ st \in [Clients -> ClientStages] /\ conn \in [Clients -> Links \cup {None}]
    /\ sessions \in SUBSET Clients /\ closed \in SUBSET Clients
    /\ connected \in [Clients -> {None, "ok", "err"}] /\ data \in [Clients -> 0 .. DataCap]
    /\ snd \in [Clients -> {"none", "run", "ended"}]
    /\ asked \in SUBSET Clients /\ ended \in SUBSET Clients
    /\ late \in SUBSET Clients /\ said \in SUBSET Clients /\ overrun \in SUBSET Clients

\* At most one live connection to the broker, and never a stray one: it is
\* the shared connection or the one its dialler is about to publish.
OneLink ==
    /\ \A c \in 1 .. links : cl[c] = "open" =>
          brokerConn = c \/ \E h \in Clients : st[h] = "publish" /\ conn[h] = c
    /\ Cardinality({c \in 1 .. links : cl[c] = "open"}) <= 1

\* A connection that has closed leaves no session behind except those stored
\* after its close began.
SessionsSwept ==
    \A h \in sessions \ late : cl[conn[h]] # "closed"

\* No session ends behind the broker's back while the connection is up:
\* CmdClose is queued, or the broker closed it first, or its data queue was
\* full, the one case in which the code drops a session silently.
HangupIsSent ==
    \A h \in asked \ ended : (h \in closed /\ ~Done(conn[h])) => h \in said \cup overrun

-----------------------------------------------------------------------------
(* Liveness.  Goroutines that can run do; the dial has a timeout; blocked  *)
(* senders are served in turn (strong fairness).  The broker need not      *)
(* answer and the connection need not fail.                                *)

Fairness ==
    /\ \A h \in Clients :
          /\ WF_vars(\/ GetBrokerConnection(h) \/ OpenStore(h) \/ WaitConnected(h)
                     \/ HangUp(h) \/ Drop(h))
          /\ SF_vars(OpenSend(h) \/ SendClose(h))
          /\ WF_vars(TunnelEnds(h))
    /\ \A c \in Links :
          /\ WF_vars(WriteLoop(c))
          /\ WF_vars(Closer(c))

FairSpec == Spec /\ Fairness

\* A client that waits for another client's dial is always woken, however the
\* dial ends.
WaitersWake == \A h \in Clients : st[h] = "wait" ~> st[h] # "wait"

\* When the connection fails, a client that waits for its target on it gives
\* up, unless it had stored its session after the close began.
FailureReachesClients ==
    \A h \in Clients :
        (st[h] \in {"await", "up"} /\ h \notin late /\ Done(conn[h])) ~> st[h] = "ended"
=============================================================================
