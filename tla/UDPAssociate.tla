---------------------------- MODULE UDPAssociate ----------------------------
(***************************************************************************)
(* One SOCKS5 UDP association of the Proxy (handleSOCKS5UDPAssociate in    *)
(* proxy/cmd/proxy/socks5_udp.go): a loop reads the client's datagrams and *)
(* sends each to a target, through a socket of its own or through a broker *)
(* session; per target a reader goroutine takes the replies back.  The     *)
(* loop and the readers share two maps of sessions, under sessionsMu, and  *)
(* each session's closed flag, under its own mutex.                        *)
(*                                                                         *)
(* What a datagram says is the list of keys to try in turn: the allowed    *)
(* addresses of a direct target, one broker target, or nothing if all of   *)
(* it is rejected.  Routes and DNS answers change, so any list may come.   *)
(* The broker connection below is external: its sends end, one way or the  *)
(* other, and it may end a session at any time (see ProxyLink).            *)
(***************************************************************************)
EXTENDS Integers, Sequences

CONSTANTS
    DirectKeys,   \* keys of directSessions: address and port
    BrokerKeys,   \* keys of brokerSessions: route, host and port
    Plans,        \* what a datagram may lead to: sequences of keys
    Sources,      \* addresses that datagrams come from
    None,
    MaxSessions   \* bound on the sessions opened

Keys == DirectKeys \cup BrokerKeys
Sessions == 1 .. MaxSessions

ASSUME UdpKeys == DirectKeys \cap BrokerKeys = {} /\ Plans \subseteq Seq(Keys)
ASSUME UdpNone == None \notin Keys \cup Sources \cup Sessions /\ None \notin {"loop", "reader"}
ASSUME UdpBound == MaxSessions \in Nat

VARIABLES
    loop,      \* stage of the loop; in "look", "sweep", "sweeping" it holds sessionsMu
    relay,     \* udpConn is open
    control,   \* the TCP connection of the association is open
    client,    \* clientUDPAddr
    rest,      \* keys the current datagram has yet to try, the current one first
    cur,       \* the session in the loop's hands
    table,     \* directSessions and brokerSessions
    made,      \* sessions opened so far
    keyOf,     \* their keys
    closed,    \* those whose closed flag is set
    mu,        \* who waits for the broker connection with the session's mutex held
    done,      \* broker sessions whose done is closed
    rd         \* stage of the reader

loopVars == <<loop, rest, cur>>
sessVars == <<closed, mu, done>>
vars == <<loopVars, relay, control, client, table, made, keyOf, sessVars, rd>>

LoopStages == {"listen", "reply", "check", "read", "look", "open", "insert", "send", "sending",
               "drop", "dropping", "forget", "sweep", "sweeping", "ended"}
ReaderStages == {"none", "run", "close", "closing", "forget", "ended"}

Init ==
    /\ loop = "listen" /\ rest = <<>> /\ cur = None
    /\ relay = FALSE /\ control = TRUE /\ client = None
    /\ table = [k \in Keys |-> None]
    /\ made = 0 /\ keyOf = [s \in Sessions |-> None]
    /\ closed = {} /\ mu = [s \in Sessions |-> None] /\ done = {}
    /\ rd = [s \in Sessions |-> "none"]

Direct(s) == keyOf[s] \in DirectKeys

-----------------------------------------------------------------------------
(* UDPDirectSession.close and UDPBrokerSession.close.  The latter keeps    *)
(* the mutex while closeBrokerSession sends CmdClose.                      *)

\* Nothing is left to do once the flag is set, a socket is closed at once, and
\* so is a broker session that has ended already.
ClosesAtOnce(s) == s \in closed \/ Direct(s) \/ s \in done

CloseNow(s) ==
    /\ mu[s] = None /\ ClosesAtOnce(s)
    /\ closed' = closed \cup {s}
    /\ UNCHANGED <<mu, done>>

CloseBegin(s, who) ==
    /\ mu[s] = None /\ ~ClosesAtOnce(s)
    /\ closed' = closed \cup {s}
    /\ mu' = [mu EXCEPT ![s] = who]
    /\ UNCHANGED done

\* CmdClose is queued, or the connection is gone; BrokerSession.close.
CloseEnd(s, who) ==
    /\ mu[s] = who
    /\ mu' = [mu EXCEPT ![s] = None]
    /\ done' = done \cup {s}
    /\ UNCHANGED closed

SessionsMuFree == loop \notin {"look", "sweep", "sweeping"}

-----------------------------------------------------------------------------
(* The loop.                                                               *)

\* listenUDPInRange finds a free port or none.
Listen ==
    /\ loop = "listen"
    /\ \/ loop' = "reply" /\ relay' = TRUE
       \/ loop' = "ended" /\ UNCHANGED relay
    /\ UNCHANGED <<rest, cur, control, client, table, made, keyOf, sessVars, rd>>

\* writeSOCKS5UDPAssociateSuccess
Reply ==
    /\ loop = "reply"
    /\ \/ loop' = "check" /\ UNCHANGED relay
       \/ loop' = "ended" /\ relay' = FALSE
    /\ UNCHANGED <<rest, cur, control, client, table, made, keyOf, sessVars, rd>>

\* The control connection ends, and with it the goroutine that reads it.
ControlEnds ==
    /\ control /\ control' = FALSE
    /\ UNCHANGED <<loopVars, relay, client, table, made, keyOf, sessVars, rd>>

\* select on tcpDone
Check ==
    /\ loop = "check"
    /\ loop' = IF control THEN "read" ELSE "sweep"
    /\ UNCHANGED <<rest, cur, relay, control, client, table, made, keyOf, sessVars, rd>>

\* A second without a datagram, or one that cannot be parsed.
ReadNothing ==
    /\ loop = "read" /\ loop' = "check"
    /\ UNCHANGED <<rest, cur, relay, control, client, table, made, keyOf, sessVars, rd>>

RelayFails ==
    /\ loop = "read" /\ loop' = "sweep"
    /\ UNCHANGED <<rest, cur, relay, control, client, table, made, keyOf, sessVars, rd>>

\* bindClientUDPAddr: the first sender stays the client.
Bound(src) == IF client = None THEN src ELSE client

\* resolveDirectUDPTargets finds no address, or none that is allowed.
Refused(plan) == plan = <<>>

Datagram(src, plan) ==
    /\ loop = "read"
    /\ client' = Bound(src)
    /\ \/ /\ Bound(src) = src /\ ~Refused(plan)
          /\ rest' = plan /\ loop' = "look"
       \/ /\ Bound(src) # src \/ Refused(plan)
          /\ loop' = "check" /\ UNCHANGED rest
    /\ UNCHANGED <<cur, relay, control, table, made, keyOf, sessVars, rd>>

\* The next address of a direct target, or the next datagram.
TryNext ==
    /\ rest' = Tail(rest)
    /\ loop' = IF Tail(rest) = <<>> THEN "check" ELSE "look"
    /\ cur' = None

DatagramOver == loop' = "check" /\ rest' = <<>> /\ cur' = None

\* The first half of getOrCreate: isClosed waits for the session's mutex.
Look ==
    /\ loop = "look"
    /\ LET s == table[Head(rest)] IN
         \/ /\ s = None
            /\ loop' = "open" /\ UNCHANGED <<cur, table>>
         \/ /\ s # None /\ mu[s] = None /\ s \notin closed
            /\ loop' = "send" /\ cur' = s /\ UNCHANGED table
         \/ /\ s # None /\ mu[s] = None /\ s \in closed
            /\ loop' = "open" /\ UNCHANGED cur
            /\ table' = [table EXCEPT ![Head(rest)] = None]
    /\ UNCHANGED <<rest, relay, control, client, made, keyOf, sessVars, rd>>

\* A session for the current key.
Opened ==
    /\ made < MaxSessions
    /\ made' = made + 1 /\ cur' = made + 1
    /\ keyOf' = [keyOf EXCEPT ![made + 1] = Head(rest)]
    /\ loop' = "insert" /\ UNCHANGED rest

\* DialUDP; an address that is not allowed or port 0 is an error too.
OpenDirect ==
    /\ loop = "open" /\ Head(rest) \in DirectKeys
    /\ Opened \/ (TryNext /\ UNCHANGED <<made, keyOf>>)
    /\ UNCHANGED <<relay, control, client, table, sessVars, rd>>

\* handleUDPBroker: the loop waits for the answer of the Worker.
OpenBroker ==
    /\ loop = "open" /\ Head(rest) \in BrokerKeys
    /\ Opened \/ (TryNext /\ UNCHANGED <<made, keyOf>>)
    /\ UNCHANGED <<relay, control, client, table, sessVars, rd>>

\* The second half of getOrCreate.  Nobody else inserts: the branch for a
\* session opened in the meantime is dead (OpenIsListed).
Insert ==
    /\ loop = "insert"
    /\ table' = [table EXCEPT ![Head(rest)] = cur]
    /\ rd' = [rd EXCEPT ![cur] = "run"]
    /\ loop' = "send"
    /\ UNCHANGED <<rest, cur, relay, control, client, made, keyOf, sessVars>>

\* sendDirectUDP, the whole of it under the mutex.
SendDirect ==
    /\ loop = "send" /\ Direct(cur)
    /\ \/ cur \notin closed /\ DatagramOver
       \/ loop' = "drop" /\ UNCHANGED <<rest, cur>>
    /\ UNCHANGED <<relay, control, client, table, made, keyOf, sessVars, rd>>

\* A broker session that is closed swallows the datagram; otherwise the
\* mutex is held until broker.send returns.
SendBroker ==
    /\ loop = "send" /\ ~Direct(cur) /\ mu[cur] = None
    /\ \/ cur \in closed /\ DatagramOver /\ UNCHANGED mu
       \/ /\ cur \notin closed
          /\ mu' = [mu EXCEPT ![cur] = "loop"]
          /\ loop' = "sending" /\ UNCHANGED <<rest, cur>>
    /\ UNCHANGED <<relay, control, client, table, made, keyOf, closed, done, rd>>

\* The frame is queued, even for a session that has ended, or the connection
\* is gone.
Sent ==
    /\ loop = "sending"
    /\ mu' = [mu EXCEPT ![cur] = None]
    /\ \/ DatagramOver
       \/ loop' = "drop" /\ UNCHANGED <<rest, cur>>
    /\ UNCHANGED <<relay, control, client, table, made, keyOf, closed, done, rd>>

\* After a failed send: session.close() ...
Drop ==
    /\ \/ loop = "drop" /\ CloseNow(cur) /\ loop' = "forget"
       \/ loop = "drop" /\ CloseBegin(cur, "loop") /\ loop' = "dropping"
       \/ loop = "dropping" /\ CloseEnd(cur, "loop") /\ loop' = "forget"
    /\ UNCHANGED <<rest, cur, relay, control, client, table, made, keyOf, rd>>

\* ... and out of the map, unless another session has taken its place.
Forgotten(s) ==
    [table EXCEPT ![keyOf[s]] = IF @ = s THEN None ELSE @]

LoopForgets ==
    /\ loop = "forget"
    /\ table' = Forgotten(cur)
    /\ TryNext
    /\ UNCHANGED <<relay, control, client, made, keyOf, sessVars, rd>>

\* closeAllSessions, with sessionsMu held from its start to its end: first the
\* broker sessions, then the direct ones.
Sweep(k) ==
    /\ loop = "sweep" /\ table[k] # None
    /\ k \in DirectKeys => \A b \in BrokerKeys : table[b] = None
    /\ \/ /\ CloseNow(table[k])
          /\ table' = [table EXCEPT ![k] = None]
          /\ UNCHANGED <<loop, cur>>
       \/ /\ CloseBegin(table[k], "loop")
          /\ loop' = "sweeping" /\ cur' = table[k] /\ UNCHANGED table
    /\ UNCHANGED <<rest, relay, control, client, made, keyOf, rd>>

Sweeping ==
    /\ loop = "sweeping" /\ CloseEnd(cur, "loop")
    /\ table' = [table EXCEPT ![keyOf[cur]] = None]
    /\ loop' = "sweep" /\ cur' = None
    /\ UNCHANGED <<rest, relay, control, client, made, keyOf, rd>>

\* Mutant: the broker sessions are not closed.
EndSweepDirect ==
    /\ loop = "sweep" /\ \A k \in DirectKeys : table[k] = None
    /\ loop' = "ended" /\ relay' = FALSE
    /\ UNCHANGED <<rest, cur, control, client, table, made, keyOf, sessVars, rd>>

\* The maps are empty; then the deferred udpConn.Close.
EndSweep ==
    /\ loop = "sweep" /\ \A k \in Keys : table[k] = None
    /\ loop' = "ended" /\ relay' = FALSE
    /\ UNCHANGED <<rest, cur, control, client, table, made, keyOf, sessVars, rd>>

-----------------------------------------------------------------------------
(* The readers.                                                            *)

\* A broker session ends from the other side: CmdClose, CmdError, a full queue
\* of replies or the end of the connection.
BrokerEnds(s) ==
    /\ s <= made /\ ~Direct(s) /\ s \notin done
    /\ done' = done \cup {s}
    /\ UNCHANGED <<loopVars, relay, control, client, table, made, keyOf, closed, mu, rd>>

\* A socket reports an error, or a reply cannot be written to the client.  A
\* reply that is relayed leaves the state as it is.
ReaderFails(s) ==
    /\ rd[s] = "run"
    /\ rd' = [rd EXCEPT ![s] = "close"]
    /\ UNCHANGED <<loopVars, relay, control, client, table, made, keyOf, sessVars>>

\* Mutant: the reader does not select on broker.done.
NoticesClosedOnly(s) == IF Direct(s) THEN s \in closed ELSE s \in closed \cap done

\* Reading from a closed socket fails; done ends the select.
Notices(s) == IF Direct(s) THEN s \in closed ELSE s \in done

ReaderEnds(s) ==
    /\ rd[s] = "run" /\ Notices(s)
    /\ rd' = [rd EXCEPT ![s] = "close"]
    /\ UNCHANGED <<loopVars, relay, control, client, table, made, keyOf, sessVars>>

\* The deferred function: session.close() ...
ReaderCloses(s) ==
    /\ \/ rd[s] = "close" /\ CloseNow(s) /\ rd' = [rd EXCEPT ![s] = "forget"]
       \/ rd[s] = "close" /\ CloseBegin(s, "reader") /\ rd' = [rd EXCEPT ![s] = "closing"]
       \/ rd[s] = "closing" /\ CloseEnd(s, "reader") /\ rd' = [rd EXCEPT ![s] = "forget"]
    /\ UNCHANGED <<loopVars, relay, control, client, table, made, keyOf>>

\* Mutant: whatever is in the map under the key is removed.
ReaderForgetsKey(s) ==
    /\ rd[s] = "forget" /\ SessionsMuFree
    /\ table' = [table EXCEPT ![keyOf[s]] = None]
    /\ rd' = [rd EXCEPT ![s] = "ended"]
    /\ UNCHANGED <<loopVars, relay, control, client, made, keyOf, sessVars>>

\* ... and the removal from the map.
ReaderForgets(s) ==
    /\ rd[s] = "forget" /\ SessionsMuFree
    /\ table' = Forgotten(s)
    /\ rd' = [rd EXCEPT ![s] = "ended"]
    /\ UNCHANGED <<loopVars, relay, control, client, made, keyOf, sessVars>>

-----------------------------------------------------------------------------
\* The steps the loop takes by itself.
LoopStep ==
    \/ Listen \/ Reply \/ Check \/ Look \/ OpenDirect \/ OpenBroker \/ Insert
    \/ SendDirect \/ SendBroker \/ Sent \/ Drop \/ LoopForgets \/ Sweeping \/ EndSweep
    \/ \E k \in Keys : Sweep(k)

ReaderStep(s) == ReaderEnds(s) \/ ReaderCloses(s) \/ ReaderForgets(s)

Next ==
    \/ LoopStep \/ ReadNothing \/ RelayFails \/ ControlEnds
    \/ \E src \in Sources, plan \in Plans : Datagram(src, plan)
    \/ \E s \in Sessions : BrokerEnds(s) \/ ReaderFails(s) \/ ReaderStep(s)

Spec == Init /\ [][Next]_vars

\* Goroutines run; a read returns after a second; sends on the broker
\* connection and handleUDPBroker return; a goroutine that waits for a mutex
\* gets it (sync.Mutex hands it over to one that has waited for long).
Fairness ==
    /\ WF_vars(LoopStep) /\ WF_vars(ReadNothing)
    /\ \A s \in Sessions : SF_vars(ReaderStep(s))

FairSpec == Spec /\ Fairness

-----------------------------------------------------------------------------
\* The values of the variables; a mutex is held only by who waits with it.
TypeOK ==
    /\ loop \in LoopStages /\ relay \in BOOLEAN /\ control \in BOOLEAN
    /\ client \in Sources \cup {None} /\ rest \in Seq(Keys)
    /\ cur \in 1 .. made \cup {None}
    /\ made \in 0 .. MaxSessions
    /\ table \in [Keys -> 1 .. made \cup {None}] /\ keyOf \in [Sessions -> Keys \cup {None}]
    /\ closed \subseteq 1 .. made /\ done \subseteq 1 .. made
    /\ mu \in [Sessions -> {None, "loop", "reader"}]
    /\ rd \in [Sessions -> ReaderStages]
    /\ \A s \in Sessions : mu[s] = "reader" <=> rd[s] = "closing"
    /\ \A s \in Sessions : mu[s] = "loop" <=> cur = s /\ loop \in {"sending", "dropping", "sweeping"}

\* No socket and no broker session is lost: as long as one is open it is in
\* the map, under its key, where the next datagram and closeAllSessions find
\* it.  The reader of an earlier session for the key does not take it out, and
\* when a new session is put in, none is under its key, not even an ended one.
OpenIsListed ==
    \A s \in 1 .. made : s \notin closed =>
        \/ table[keyOf[s]] = s
        \/ cur = s /\ loop = "insert" /\ table[Head(rest)] = None

\* What the loop and the readers have in hand at each stage: without it TypeOK
\* is not inductive.
StageInv ==
    /\ loop \in {"look", "open", "insert", "send", "sending", "drop", "dropping", "forget"}
          => rest # <<>>
    /\ loop \in {"insert", "send", "sending", "drop", "dropping", "forget", "sweeping"}
          => cur \in 1 .. made
    /\ \A s \in 1 .. made : keyOf[s] \in Keys
    /\ \A s \in Sessions : rd[s] # "none" => s \in 1 .. made
    /\ loop = "insert" => rd[cur] = "none"

\* What makes OpenIsListed inductive: a key leads to a session of that key,
\* nothing is found for it while one is opened, and what the loop or a reader
\* takes out of the map has its closed flag set.
ListInv ==
    /\ \A k \in Keys : table[k] # None => keyOf[table[k]] = k
    /\ loop \in {"open", "insert"} => table[Head(rest)] = None
    /\ loop = "insert" => keyOf[cur] = Head(rest)
    /\ loop \in {"dropping", "forget", "sweeping"} => cur \in closed
    /\ loop = "sweeping" => table[keyOf[cur]] = cur
    /\ \A s \in Sessions : rd[s] \in {"closing", "forget"} => s \in closed

\* A session that has ended on either side leaves the map, so that the next
\* datagram for its target opens another one.
DeadIsForgotten ==
    \A s \in Sessions : (s \in closed \cup done) ~> (\A k \in Keys : table[k] # s)

\* When the control connection or the relay socket ends, the association ends:
\* its port is free again, all sessions are closed and no reader is left.
AssociationEnds ==
    (~control \/ loop = "sweep") ~>
        /\ loop = "ended" /\ ~relay
        /\ \A s \in 1 .. made : s \in closed /\ rd[s] = "ended"

=============================================================================
