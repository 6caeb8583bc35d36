------------------------------- MODULE Worker -------------------------------
(***************************************************************************)
(* The worker process (worker/worker.go): the connection to the broker and *)
(* its reconnection loop, the table of sessions that outlives a connection *)
(* and the goroutines of a session: openTCP or openUDP, sessionWriter and  *)
(* remoteReader or remoteUDPReader.  TCP and UDP have the same control.    *)
(*                                                                         *)
(* Session ids are fresh UUIDs, one CmdConnect each, so an id stands for   *)
(* its *Session.  Load and the close(s.done) that follows it are one step. *)
(***************************************************************************)
EXTENDS Naturals, Sequences

CONSTANTS
    Ids,                     \* session ids
    None,                    \* nil
    MaxConns,                \* bound on the broker connections of a run
    BrokerWriteQueue,        \* capacity of a connection's send (8192 in the code)
    SessionWriteQueue,       \* capacity of Session.writeCh (512 in the code)
    BrokerReconnectInitial,  \* 500 ms
    BrokerReconnectMax       \* 30 s

Conns == 1 .. MaxConns

ASSUME WorkerNone  == None \notin Ids \cup Conns
ASSUME WorkerCaps  == /\ MaxConns \in Nat
                      /\ BrokerWriteQueue \in Nat \ {0} /\ SessionWriteQueue \in Nat \ {0}
ASSUME WorkerDelay == /\ BrokerReconnectInitial \in Nat \ {0} /\ BrokerReconnectMax \in Nat
                      /\ BrokerReconnectInitial <= BrokerReconnectMax

VARIABLES
    ctx,       \* ctx.Err() # nil: SIGTERM or SIGINT has arrived
    main,      \* stage of the main goroutine
    k,         \* the current (or last) broker connection
    hand,      \* the session main is closing
    due,       \* sessions a Range must visit: present when it started
    backoff,   \* delay before the next dial
    done,      \* per connection: its done channel is closed
    send,      \* per connection: its send channel
    sessions,  \* keys of the session table
    ep,        \* the connection that asked for the session
    sd,        \* Session.close: "open", "closing" (done is closed), "closed"
    conn,      \* sessions whose conn field is set
    target,    \* the socket to the target: "none", "open", "closed"
    wq,        \* length of Session.writeCh
    op,        \* stage of openTCP or openUDP
    wr,        \* stage of sessionWriter
    rdr,       \* stage of remoteReader or remoteUDPReader
    seen,      \* ids whose CmdConnected has been written to the broker
    answered,  \* history: ids for which CmdConnected or CmdClose was queued
    told,      \* history: ids for which CmdClose was queued
    hungup     \* history: ids the broker has closed

mainVars == <<ctx, main, k, hand, due, backoff>>
linkVars == <<done, send>>
sessVars == <<sessions, ep, sd, conn, target, wq>>
goVars   == <<op, wr, rdr>>
histVars == <<seen, answered, told, hungup>>
vars == <<mainVars, linkVars, sessVars, goVars, histVars>>

MainStages == {"dial", "serve", "closing", "overflow", "reply", "range", "visit",
               "sleep", "final", "finalVisit", "exited"}
OpenStages == {"none", "spawned", "stored", "held", "failed", "setup", "abort", "ended"}
WriterStages == {"none", "run", "closing", "ended"}
ReaderStages == {"none", "spawned", "read", "send", "close", "closing", "report",
                 "missed", "ended"}

Packet == [id : Ids, cmd : {"Connected", "Data", "Close"}]

Init ==
    /\ ctx = FALSE /\ main = "dial" /\ k = 0 /\ hand = None /\ due = {}
    /\ backoff = BrokerReconnectInitial
    /\ done = [c \in Conns |-> FALSE] /\ send = [c \in Conns |-> <<>>]
    /\ sessions = {} /\ ep = [i \in Ids |-> None] /\ sd = [i \in Ids |-> "open"]
    /\ conn = {} /\ target = [i \in Ids |-> "none"] /\ wq = [i \in Ids |-> 0]
    /\ op = [i \in Ids |-> "none"] /\ wr = [i \in Ids |-> "none"]
    /\ rdr = [i \in Ids |-> "none"]
    /\ seen = {} /\ answered = {} /\ told = {} /\ hungup = {}

-----------------------------------------------------------------------------
(* Session.close: once.Do around close(s.done), then taking conn under the *)
(* lock and closing it.  A second caller waits until it is "closed".       *)

CloseBegin(id) == sd' = [sd EXCEPT ![id] = IF @ = "open" THEN "closing" ELSE @]

\* Mutant: the conn is taken but not closed.
CloseEndKeepsSocket(id) ==
    /\ sd[id] = "closing"
    /\ sd' = [sd EXCEPT ![id] = "closed"]
    /\ conn' = conn \ {id}
    /\ UNCHANGED <<mainVars, linkVars, sessions, ep, target, wq, goVars, histVars>>

CloseEnd(id) ==
    /\ sd[id] = "closing"
    /\ sd' = [sd EXCEPT ![id] = "closed"]
    /\ conn' = conn \ {id}
    /\ target' = [target EXCEPT ![id] = IF id \in conn THEN "closed" ELSE @]
    /\ UNCHANGED <<mainVars, linkVars, sessions, ep, wq, goVars, histVars>>

\* Mutant: setConn does not look at s.done.
SetConnUnchecked(id) == TRUE

\* Session.setConn succeeds: the check of s.done and the assignment are one
\* critical section.
SetConnOK(id) == sd[id] = "open"

\* sendPacket: queued, or given up because done is closed; a random choice
\* when both are possible.
Queued(c, id, cmd) ==
    /\ Len(send[c]) < BrokerWriteQueue
    /\ send' = [send EXCEPT ![c] = Append(@, [id |-> id, cmd |-> cmd])]
    /\ answered' = IF cmd = "Data" THEN answered ELSE answered \cup {id}
    /\ told' = IF cmd = "Close" THEN told \cup {id} ELSE told

\* Mutant: sendPacket does not select on done.
GiveUpNever(c) == FALSE

GiveUp(c) == done[c] /\ UNCHANGED <<send, answered, told>>

-----------------------------------------------------------------------------
(* main: dial, serve, clean up, sleep, again; and the end of the process.  *)

\* SIGTERM or SIGINT.
Cancel ==
    /\ ~ctx
    /\ ctx' = TRUE
    /\ UNCHANGED <<main, k, hand, due, backoff, linkVars, sessVars, goVars, histVars>>

\* runBrokerConnection: the dial and the hello.
Dial ==
    /\ main = "dial"
    /\ \/ /\ k < MaxConns
          /\ k' = k + 1 /\ main' = "serve"
       \/ main' = "sleep" /\ UNCHANGED k
    /\ UNCHANGED <<ctx, hand, due, backoff, linkVars, sessVars, goVars, histVars>>

\* nextReconnectBackoff
NextBackoff(b) ==
    IF b >= BrokerReconnectMax \/ 2 * b > BrokerReconnectMax THEN BrokerReconnectMax ELSE 2 * b

\* sleepWithContext after a connection ended; a cancelled context goes on to
\* closeAllSessions.
Sleep ==
    /\ main \in {"sleep", "dial"}
    /\ \/ /\ main = "sleep" /\ ~ctx
          /\ main' = "dial" /\ backoff' = NextBackoff(backoff)
          /\ UNCHANGED due
       \/ /\ ctx
          /\ main' = "final" /\ due' = sessions
          /\ UNCHANGED backoff
    /\ UNCHANGED <<ctx, k, hand, linkVars, sessVars, goVars, histVars>>

\* The goroutine that waits for ctx.Done.
Watch ==
    /\ ctx /\ k > 0 /\ ~done[k]
    /\ done' = [done EXCEPT ![k] = TRUE]
    /\ UNCHANGED <<mainVars, send, sessVars, goVars, histVars>>

\* ReadMessage fails, or a message arrives after the cancellation: closeDone,
\* and the deferred Range over the session table starts.
ReadFails ==
    /\ main = "serve"
    /\ done' = [done EXCEPT ![k] = TRUE]
    /\ main' = "range" /\ due' = sessions
    /\ UNCHANGED <<ctx, k, hand, backoff, send, sessVars, goVars, histVars>>

\* CmdConnect or CmdUDPConnect: go openTCP or go openUDP.
Connect(id) ==
    /\ main = "serve" /\ ~ctx /\ ep[id] = None
    /\ ep' = [ep EXCEPT ![id] = k]
    /\ op' = [op EXCEPT ![id] = "spawned"]
    /\ UNCHANGED <<mainVars, linkVars, sessions, sd, conn, target, wq, wr, rdr, histVars>>

\* CmdData or CmdUDPData, which the Proxy sends only once connected:
\* enqueueSessionWrite never blocks; a full queue closes the session and the
\* broker is not told (send = nil).
Data(id) ==
    /\ main = "serve" /\ ~ctx /\ ep[id] = k /\ id \in seen \ hungup /\ id \in sessions
    /\ \/ /\ wq[id] < SessionWriteQueue
          /\ wq' = [wq EXCEPT ![id] = @ + 1]
          /\ UNCHANGED <<main, hand, sd>>
       \/ /\ wq[id] = SessionWriteQueue /\ ~done[k] /\ sd[id] = "open"
          /\ CloseBegin(id) /\ hand' = id /\ main' = "overflow"
          /\ UNCHANGED wq
    /\ UNCHANGED <<ctx, k, due, backoff, linkVars, sessions, ep, conn, target, goVars, histVars>>

\* CmdClose: closeSession.  Nothing happens when the table has no such
\* session, not even if its openTCP has yet to store it.
Close(id) ==
    /\ main = "serve" /\ ~ctx /\ ep[id] = k
    /\ hungup' = hungup \cup {id}
    /\ IF id \in sessions
       THEN CloseBegin(id) /\ hand' = id /\ main' = "closing"
       ELSE UNCHANGED <<sd, hand, main>>
    /\ UNCHANGED <<ctx, k, due, backoff, linkVars, sessions, ep, conn, target, wq, goVars,
                   seen, answered, told>>

\* closeSession in the reader: close has returned, Delete.
MainDelete ==
    /\ main \in {"closing", "overflow"} /\ sd[hand] = "closed"
    /\ sessions' = sessions \ {hand}
    /\ main' = IF main = "closing" THEN "reply" ELSE "serve"
    /\ UNCHANGED <<ctx, k, hand, due, backoff, linkVars, ep, sd, conn, target, wq, goVars, histVars>>

MainReply ==
    /\ main = "reply"
    /\ Queued(k, hand, "Close") \/ GiveUp(k)
    /\ main' = "serve"
    /\ UNCHANGED <<ctx, k, hand, due, backoff, done, sessVars, goVars, seen, hungup>>

\* One session of the Range after a disconnect, or of closeAllSessions.
RangeVisit(id) ==
    /\ main \in {"range", "final"} /\ id \in sessions
    /\ CloseBegin(id) /\ hand' = id
    /\ main' = IF main = "range" THEN "visit" ELSE "finalVisit"
    /\ UNCHANGED <<ctx, k, due, backoff, linkVars, sessions, ep, conn, target, wq, goVars, histVars>>

RangeDelete ==
    /\ main \in {"visit", "finalVisit"} /\ sd[hand] = "closed"
    /\ sessions' = sessions \ {hand}
    /\ main' = IF main = "visit" THEN "range" ELSE "final"
    /\ UNCHANGED <<ctx, k, hand, due, backoff, linkVars, ep, sd, conn, target, wq, goVars, histVars>>

RangeEnd ==
    /\ main \in {"range", "final"} /\ due \cap sessions = {}
    /\ main' = IF main = "range" THEN "sleep" ELSE "exited"
    /\ UNCHANGED <<ctx, k, hand, due, backoff, linkVars, sessVars, goVars, histVars>>

\* brokerWriter: one packet written to the broker; a failing write or ping
\* closes done and the socket.
BrokerWrite(c) ==
    /\ ~done[c] /\ send[c] # <<>>
    /\ send' = [send EXCEPT ![c] = Tail(@)]
    /\ seen' = IF Head(send[c]).cmd = "Connected" THEN seen \cup {Head(send[c]).id} ELSE seen
    /\ UNCHANGED <<mainVars, done, sessVars, goVars, answered, told, hungup>>

BrokerWriteFails(c) ==
    /\ c <= k /\ ~done[c]
    /\ done' = [done EXCEPT ![c] = TRUE]
    /\ UNCHANGED <<mainVars, send, sessVars, goVars, histVars>>

-----------------------------------------------------------------------------
(* openTCP and openUDP.                                                    *)

\* LoadOrStore of a new session, unless the process is stopping.
OpenStore(id) ==
    /\ op[id] = "spawned"
    /\ \/ /\ sessions' = sessions \cup {id}
          /\ op' = [op EXCEPT ![id] = "stored"]
       \/ /\ ctx
          /\ op' = [op EXCEPT ![id] = "ended"]
          /\ UNCHANGED sessions
    /\ UNCHANGED <<mainVars, linkVars, ep, sd, conn, target, wq, wr, rdr, histVars>>

\* The cancellation is noticed before the dial: session.close(), Delete.
OpenCancelled(id) ==
    /\ op[id] = "stored" /\ ctx
    /\ CloseBegin(id)
    /\ op' = [op EXCEPT ![id] = "abort"]
    /\ UNCHANGED <<mainVars, linkVars, sessions, ep, conn, target, wq, wr, rdr, histVars>>

\* net.DialTimeout.  On an error the session leaves the table, unclosed, and
\* the broker is sent CmdClose.
OpenDial(id) ==
    /\ op[id] = "stored"
    /\ \/ /\ target' = [target EXCEPT ![id] = "open"]
          /\ op' = [op EXCEPT ![id] = "held"]
          /\ UNCHANGED sessions
       \/ /\ sessions' = sessions \ {id}
          /\ op' = [op EXCEPT ![id] = IF ctx THEN "ended" ELSE "failed"]
          /\ UNCHANGED target
    /\ UNCHANGED <<mainVars, linkVars, ep, sd, conn, wq, wr, rdr, histVars>>

\* Mutant: a failed dial is not reported.
OpenFailedSilent(id) ==
    /\ op[id] = "failed"
    /\ op' = [op EXCEPT ![id] = "ended"]
    /\ UNCHANGED <<mainVars, linkVars, sessVars, wr, rdr, histVars>>

OpenFailed(id) ==
    /\ op[id] = "failed"
    /\ Queued(ep[id], id, "Close") \/ GiveUp(ep[id])
    /\ op' = [op EXCEPT ![id] = "ended"]
    /\ UNCHANGED <<mainVars, done, sessVars, wr, rdr, seen, hungup>>

\* The cancellation is noticed after the dial: the new socket is closed,
\* then session.close() and Delete.
OpenDropped(id) ==
    /\ op[id] = "held" /\ ctx
    /\ target' = [target EXCEPT ![id] = "closed"]
    /\ CloseBegin(id)
    /\ op' = [op EXCEPT ![id] = "abort"]
    /\ UNCHANGED <<mainVars, linkVars, sessions, ep, conn, wq, wr, rdr, histVars>>

\* setConn.  On success the writer and the reader start; a session closed
\* meanwhile closes the socket instead.
OpenSetConn(id) ==
    /\ op[id] = "held"
    /\ \/ /\ SetConnOK(id)
          /\ conn' = conn \cup {id}
          /\ op' = [op EXCEPT ![id] = "setup"]
          /\ wr' = [wr EXCEPT ![id] = "run"] /\ rdr' = [rdr EXCEPT ![id] = "spawned"]
          /\ UNCHANGED <<sessions, target>>
       \/ /\ ~SetConnOK(id)
          /\ target' = [target EXCEPT ![id] = "closed"]
          /\ sessions' = sessions \ {id}
          /\ op' = [op EXCEPT ![id] = "ended"]
          /\ UNCHANGED <<conn, wr, rdr>>
    /\ UNCHANGED <<mainVars, linkVars, ep, sd, wq, histVars>>

\* CmdConnected; if the connection is gone, session.close() and Delete.
OpenConnected(id) ==
    /\ op[id] = "setup"
    /\ \/ /\ Queued(ep[id], id, "Connected")
          /\ op' = [op EXCEPT ![id] = "ended"]
          /\ UNCHANGED sd
       \/ /\ GiveUp(ep[id])
          /\ CloseBegin(id)
          /\ op' = [op EXCEPT ![id] = "abort"]
    /\ UNCHANGED <<mainVars, done, sessions, ep, conn, target, wq, wr, rdr, seen, hungup>>

OpenAbort(id) ==
    /\ op[id] = "abort" /\ sd[id] = "closed"
    /\ sessions' = sessions \ {id}
    /\ op' = [op EXCEPT ![id] = "ended"]
    /\ UNCHANGED <<mainVars, linkVars, ep, sd, conn, target, wq, wr, rdr, histVars>>

-----------------------------------------------------------------------------
(* sessionWriter: the queue to the target.                                 *)

\* One payload: written, or the write fails and the session is closed
\* without telling the broker (send = nil), or conn is nil already.
SessionWrite(id) ==
    /\ wr[id] = "run" /\ wq[id] > 0
    /\ wq' = [wq EXCEPT ![id] = @ - 1]
    /\ \/ id \in conn /\ UNCHANGED <<wr, sd>>
       \/ /\ id \in conn
          /\ IF id \in sessions
             THEN CloseBegin(id) /\ wr' = [wr EXCEPT ![id] = "closing"]
             ELSE UNCHANGED sd /\ wr' = [wr EXCEPT ![id] = "ended"]
       \/ /\ id \notin conn
          /\ wr' = [wr EXCEPT ![id] = "ended"] /\ UNCHANGED sd
    /\ UNCHANGED <<mainVars, linkVars, sessions, ep, conn, target, op, rdr, histVars>>

SessionWriterDelete(id) ==
    /\ wr[id] = "closing" /\ sd[id] = "closed"
    /\ sessions' = sessions \ {id}
    /\ wr' = [wr EXCEPT ![id] = "ended"]
    /\ UNCHANGED <<mainVars, linkVars, ep, sd, conn, target, wq, op, rdr, histVars>>

SessionWriterStop(id) ==
    /\ wr[id] = "run"
    /\ done[ep[id]] \/ sd[id] # "open"
    /\ wr' = [wr EXCEPT ![id] = "ended"]
    /\ UNCHANGED <<mainVars, linkVars, sessVars, op, rdr, histVars>>

-----------------------------------------------------------------------------
(* remoteReader and remoteUDPReader.                                       *)

\* getConn: a session closed already ends the reader before its defer.
ReaderStart(id) ==
    /\ rdr[id] = "spawned"
    /\ rdr' = [rdr EXCEPT ![id] = IF id \in conn THEN "read" ELSE "missed"]
    /\ UNCHANGED <<mainVars, linkVars, sessVars, op, wr, histVars>>

\* conn.Read: data, or an error (always once the socket is closed).
ReaderRead(id) ==
    /\ rdr[id] = "read"
    /\ \/ target[id] = "open" /\ rdr' = [rdr EXCEPT ![id] = "send"]
       \/ rdr' = [rdr EXCEPT ![id] = "close"]
    /\ UNCHANGED <<mainVars, linkVars, sessVars, op, wr, histVars>>

\* CmdData; then the reader goes on unless done or the session is closed.
ReaderSend(id) ==
    /\ rdr[id] = "send"
    /\ \/ /\ Queued(ep[id], id, "Data")
          /\ rdr' = [rdr EXCEPT ![id] = IF done[ep[id]] \/ sd[id] # "open"
                                        THEN "close" ELSE "read"]
       \/ /\ GiveUp(ep[id])
          /\ rdr' = [rdr EXCEPT ![id] = "close"]
    /\ UNCHANGED <<mainVars, done, sessVars, op, wr, seen, hungup>>

\* The deferred function: session.close(), Delete, CmdClose.
ReaderClose(id) ==
    /\ rdr[id] = "close"
    /\ CloseBegin(id)
    /\ rdr' = [rdr EXCEPT ![id] = "closing"]
    /\ UNCHANGED <<mainVars, linkVars, sessions, ep, conn, target, wq, op, wr, histVars>>

\* Mutant: the deferred function returns after Delete.
ReaderDeleteOnly(id) ==
    /\ rdr[id] = "closing" /\ sd[id] = "closed"
    /\ sessions' = sessions \ {id}
    /\ rdr' = [rdr EXCEPT ![id] = "ended"]
    /\ UNCHANGED <<mainVars, linkVars, ep, sd, conn, target, wq, op, wr, histVars>>

ReaderDelete(id) ==
    /\ rdr[id] = "closing" /\ sd[id] = "closed"
    /\ sessions' = sessions \ {id}
    /\ rdr' = [rdr EXCEPT ![id] = "report"]
    /\ UNCHANGED <<mainVars, linkVars, ep, sd, conn, target, wq, op, wr, histVars>>

ReaderReport(id) ==
    /\ rdr[id] = "report"
    /\ Queued(ep[id], id, "Close") \/ GiveUp(ep[id])
    /\ rdr' = [rdr EXCEPT ![id] = "ended"]
    /\ UNCHANGED <<mainVars, done, sessVars, op, wr, seen, hungup>>

-----------------------------------------------------------------------------
Main ==
    \/ Dial \/ Sleep \/ ReadFails \/ MainDelete \/ MainReply \/ RangeDelete \/ RangeEnd
    \/ \E id \in Ids : Connect(id) \/ Data(id) \/ Close(id) \/ RangeVisit(id)

Open(id) ==
    \/ OpenStore(id) \/ OpenCancelled(id) \/ OpenDial(id) \/ OpenFailed(id)
    \/ OpenDropped(id) \/ OpenSetConn(id) \/ OpenConnected(id) \/ OpenAbort(id)

SessionWriter(id) == SessionWrite(id) \/ SessionWriterDelete(id) \/ SessionWriterStop(id)

RemoteReader(id) ==
    \/ ReaderStart(id) \/ ReaderRead(id) \/ ReaderSend(id) \/ ReaderClose(id)
    \/ ReaderDelete(id) \/ ReaderReport(id)

Running ==
    /\ main # "exited"
    /\ \/ Cancel \/ Watch \/ Main
       \/ \E c \in Conns : BrokerWrite(c) \/ BrokerWriteFails(c)
       \/ \E id \in Ids : CloseEnd(id) \/ Open(id) \/ SessionWriter(id) \/ RemoteReader(id)

Exited == main = "exited" /\ UNCHANGED vars

Next == Running \/ Exited

Spec == Init /\ [][Next]_vars

-----------------------------------------------------------------------------
\* The values of the variables; the queues stay within their capacity and the
\* backoff within its limits.
TypeOK ==
    /\ ctx \in BOOLEAN /\ main \in MainStages /\ k \in 0 .. MaxConns
    /\ hand \in Ids \cup {None} /\ due \in SUBSET Ids
    /\ backoff \in BrokerReconnectInitial .. BrokerReconnectMax
    /\ done \in [Conns -> BOOLEAN] /\ send \in [Conns -> Seq(Packet)]
    /\ \A c \in Conns : Len(send[c]) <= BrokerWriteQueue
    /\ sessions \in SUBSET Ids /\ ep \in [Ids -> Conns \cup {None}]
    /\ sd \in [Ids -> {"open", "closing", "closed"}] /\ conn \in SUBSET Ids
    /\ target \in [Ids -> {"none", "open", "closed"}]
    /\ wq \in [Ids -> 0 .. SessionWriteQueue]
    /\ op \in [Ids -> OpenStages] /\ wr \in [Ids -> WriterStages]
    /\ rdr \in [Ids -> ReaderStages]
    /\ seen \in SUBSET Ids /\ answered \in SUBSET Ids
    /\ told \in SUBSET Ids /\ hungup \in SUBSET Ids

\* The stages in which main and the goroutines of a session have a
\* connection, or a session in hand: without it TypeOK is not inductive.
StageInv ==
    /\ main \in {"serve", "closing", "overflow", "reply"} => k \in Conns
    /\ main \in {"closing", "overflow", "reply", "visit", "finalVisit"} => hand \in Ids
    /\ \A id \in Ids : op[id] # "none" \/ rdr[id] # "none" => ep[id] # None

\* No target socket is lost: an open one is openTCP's local variable, or the
\* conn of a session that is still in the table, where CmdClose, a disconnect
\* and the end of the process find it.
TargetHasOwner ==
    \A id \in Ids : target[id] = "open" => op[id] = "held" \/ id \in conn \cap sessions

\* What makes TargetHasOwner inductive: a session leaves the table only after
\* it has been closed or before it has a conn.
OwnerInv ==
    \A id \in Ids :
        /\ target[id] = "open" => op[id] = "held" \/ id \in conn
        /\ id \in conn => id \in sessions /\ sd[id] # "closed"
        /\ op[id] \in {"none", "spawned", "stored", "held", "failed"} => id \notin conn
        /\ op[id] \in {"stored", "held"} => id \in sessions \/ sd[id] = "closed"

\* While the connection that asked for it is up, a session that has left the
\* table is reported: CmdClose is queued or some goroutine is about to queue
\* it.  Exempt is a session closed before its reader had called getConn.
EndIsReported ==
    \A id \in Ids :
        (ep[id] # None /\ op[id] # "spawned" /\ id \notin sessions /\ ~done[ep[id]] /\ ~ctx)
            => \/ id \in told \cup hungup
               \/ op[id] = "failed"
               \/ rdr[id] \in {"spawned", "read", "send", "close", "closing", "report", "missed"}

\* What makes EndIsReported inductive.  First, the link: every connection but
\* the one main serves is down, and no session is ahead of main.
LinkInv ==
    /\ \A c \in Conns :
          c < k \/ (c = k /\ main \notin {"serve", "closing", "overflow", "reply"}) => done[c]
    /\ \A id \in Ids : ep[id] # None => ep[id] <= k
    /\ \A id \in sessions : ep[id] # None

\* A session whose CmdConnected is queued or written has had a reader.
ConnectedInv ==
    /\ \A id \in Ids : op[id] = "setup" \/ wr[id] # "none" \/ id \in seen => rdr[id] # "none"
    /\ \A c \in Conns : \A i \in 1 .. Len(send[c]) :
          send[c][i].cmd = "Connected" => rdr[send[c][i].id] # "none"
    /\ main = "overflow" => rdr[hand] # "none"

\* Nobody has to tell the broker about the session any more.
Excused(id) == ctx \/ done[ep[id]] \/ id \in told \cup hungup

\* Every way to close a session or to take it out of the table leaves a
\* reader that will report it, or is excused.
ReportInv ==
    /\ main = "closing" => hand \in hungup
    /\ \A id \in Ids : rdr[id] = "ended" => Excused(id)
    /\ \A id \in Ids : sd[id] # "open" => ep[id] # None /\ (Excused(id) \/ rdr[id] # "none")
    /\ \A id \in Ids : ep[id] # None /\ id \notin sessions =>
          op[id] \in {"spawned", "failed"} \/ Excused(id) \/ rdr[id] # "none"

-----------------------------------------------------------------------------
(* Liveness.  Every goroutine that can run does, and a channel serves its  *)
(* blocked senders in turn (strong fairness of the steps that send); a     *)
(* dial and a write end within their timeouts; a read of a closed socket   *)
(* returns.                                                                *)

Fairness ==
    /\ WF_vars(main # "exited" /\ Watch)
    /\ WF_vars(main # "exited" /\ Sleep)
    /\ WF_vars(main # "exited" /\ ctx /\ (Dial \/ ReadFails))
    /\ SF_vars(main # "exited" /\ (MainDelete \/ MainReply \/ RangeDelete \/ RangeEnd))
    /\ \A c \in Conns : WF_vars(main # "exited" /\ BrokerWrite(c))
    /\ \A id \in Ids :
          /\ WF_vars(main # "exited" /\ RangeVisit(id))
          /\ WF_vars(main # "exited" /\ CloseEnd(id))
          /\ SF_vars(main # "exited" /\ Open(id))
          /\ WF_vars(main # "exited" /\ (SessionWriterDelete(id) \/ SessionWriterStop(id)))
          /\ SF_vars(main # "exited" /\ (ReaderSend(id) \/ ReaderReport(id)))
          /\ WF_vars(main # "exited" /\ (ReaderStart(id) \/ ReaderClose(id) \/ ReaderDelete(id)))
          /\ WF_vars(main # "exited" /\ target[id] # "open" /\ ReaderRead(id))

FairSpec == Spec /\ Fairness

\* The connection that asked for the session is gone.
LinkDown(id) == ep[id] # None /\ done[ep[id]]

\* Every request is answered: openTCP ends in CmdConnected or CmdClose, or
\* the connection that asked is gone.
RequestAnswered ==
    \A id \in Ids : op[id] = "spawned" ~> (id \in answered \/ LinkDown(id) \/ ctx)

\* A closed session leaves no goroutine behind.
GoroutinesEnd ==
    \A id \in Ids : sd[id] = "closed" ~>
        \/ main = "exited"
        \/ /\ op[id] \in {"none", "ended"} /\ wr[id] \in {"none", "ended"}
           /\ rdr[id] \in {"none", "missed", "ended"}

\* A signal ends the process, whatever its goroutines wait for.
SignalEnds == ctx ~> main = "exited"

=============================================================================
