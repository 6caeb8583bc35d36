----------------------------- MODULE LinkProofs -----------------------------
(***************************************************************************)
(* TypeOK, OneLink, SessionsSwept and HangupIsSent of ProxyLink, proved    *)
(* for any number of clients and connections and any capacity of the      *)
(* queues.                                                                 *)
(***************************************************************************)
EXTENDS ProxyLink, FiniteSetTheorems, TLAPS

-----------------------------------------------------------------------------
(* Types, and what the stage of a client says of its connection.           *)

\* The stages before the session is stored.
Early == {"start", "wait", "dial", "publish", "got"}

StageInv ==
    /\ \A h \in Clients : st[h] \in {"start", "wait", "dial"} => conn[h] = None
    /\ \A h \in Clients : st[h] \in {"got", "ask", "await", "up", "hang", "bye", "drop"}
                          \/ snd[h] = "run" => conn[h] \in Links
    /\ \A h \in sessions \cup closed : st[h] \notin Early

\* A message queued by send keeps the type and the bound of the channel.
LEMMA SendType ==
    ASSUME TypeOK, NEW c \in Links, NEW h \in Clients, NEW cmd \in {"Open", "Data", "Close"},
           Send(c, h, cmd) \/ SendFails(c) \/ UNCHANGED writeCh
    PROVE  /\ writeCh' \in [Links -> Seq(Frame)]
           /\ \A d \in Links : Len(writeCh'[d]) <= WriteCap
<1>1. CASE UNCHANGED writeCh
  BY <1>1 DEF TypeOK
<1>2. CASE Send(c, h, cmd)
  <2> DEFINE m == [id |-> h, cmd |-> cmd]
  <2>1. writeCh[c] \in Seq(Frame) /\ m \in Frame /\ Len(writeCh[c]) < WriteCap
    BY <1>2 DEF Send, TypeOK, Frame
  <2>2. writeCh' = [writeCh EXCEPT ![c] = Append(writeCh[c], m)]
    BY <1>2 DEF Send
  <2> HIDE DEF m
  <2>3. Append(writeCh[c], m) \in Seq(Frame) /\ Len(writeCh[c]) \in Nat
        /\ Len(Append(writeCh[c], m)) = Len(writeCh[c]) + 1
    BY <2>1
  <2>4. Len(writeCh[c]) + 1 <= WriteCap
    BY <2>1, <2>3, LinkCaps
  <2> QED
    BY <2>2, <2>3, <2>4 DEF TypeOK
<1> QED
  BY <1>1, <1>2 DEF SendFails

\* TypeOK is preserved by every step.
LEMMA TypeStep == TypeOK /\ StageInv /\ [Next]_vars => TypeOK'
<1> SUFFICES ASSUME TypeOK, StageInv, [Next]_vars PROVE TypeOK'
  OBVIOUS
<1> USE LinkClients, LinkCaps
<1> USE DEF stateVars, linkVars, sessVars, envVars, histVars
<1>t. /\ conn \in [Clients -> Links \cup {None}] /\ st \in [Clients -> ClientStages]
      /\ brokerConn \in Links \cup {None} /\ dialing \in BOOLEAN /\ links \in 0 .. MaxLinks
  BY DEF TypeOK
<1>u. /\ cl \in [Links -> {"open", "range", "closed"}] /\ due \in [Links -> SUBSET Clients]
      /\ reading \in SUBSET Links /\ data \in [Clients -> 0 .. DataCap]
      /\ snd \in [Clients -> {"none", "run", "ended"}]
  BY DEF TypeOK
<1>v. /\ sessions \in SUBSET Clients /\ closed \in SUBSET Clients /\ said \in SUBSET Clients
      /\ connected \in [Clients -> {None, "ok", "err"}]
      /\ ended \in SUBSET Clients /\ overrun \in SUBSET Clients
  BY DEF TypeOK
<1>0. CASE UNCHANGED vars
  BY <1>0 DEF vars, TypeOK
<1>1. ASSUME NEW h \in Clients, GetConn(h) PROVE TypeOK'
  <2>0. /\ conn' = conn \/ conn' = [conn EXCEPT ![h] = brokerConn]
        /\ dialing' = dialing \/ dialing' = TRUE
    BY <1>1 DEF GetConn
  <2>1. conn' \in [Clients -> Links \cup {None}] /\ dialing' \in BOOLEAN
    <3>1. conn' \in [Clients -> Links \cup {None}]
      BY <2>0, <1>t
    <3>2. dialing' \in BOOLEAN
      BY <2>0, <1>t
    <3> QED
      BY <3>1, <3>2
  <2>2. st' \in [Clients -> ClientStages]
    BY <1>1, <1>t DEF GetConn, ClientStages
  <2> QED
    BY <1>1, <2>1, <2>2 DEF GetConn, TypeOK
<1>2. ASSUME NEW h \in Clients, DialBroker(h) PROVE TypeOK'
  <2>1. links' \in 0 .. MaxLinks /\ conn' \in [Clients -> Links \cup {None}]
    BY <1>2, <1>t DEF DialBroker, Links
  <2>2. st' \in [Clients -> ClientStages]
    BY <1>2, <1>t DEF DialBroker, ClientStages
  <2> QED
    BY <1>2, <2>1, <2>2 DEF DialBroker, TypeOK
<1>3. ASSUME NEW h \in Clients, Publish(h) PROVE TypeOK'
  BY <1>3 DEF Publish, TypeOK, ClientStages
<1>4. ASSUME NEW h \in Clients, OpenStore(h) PROVE TypeOK'
  BY <1>4 DEF OpenStore, TypeOK, ClientStages
<1>5. ASSUME NEW h \in Clients, OpenSend(h) PROVE TypeOK'
  <2>1. conn[h] \in Links
    BY <1>5 DEF OpenSend, StageInv
  <2>2. writeCh' \in [Links -> Seq(Frame)] /\ \A d \in Links : Len(writeCh'[d]) <= WriteCap
    BY <1>5, <2>1, SendType DEF OpenSend
  <2>3. /\ st' \in [Clients -> ClientStages] /\ sessions' \in SUBSET Clients
        /\ closed' \in SUBSET Clients /\ connected' \in [Clients -> {None, "ok", "err"}]
    BY <1>5, <1>t, <1>v DEF OpenSend, CloseWithError, ClientStages
  <2> QED
    BY <1>5, <2>2, <2>3 DEF OpenSend, TypeOK
<1>6. ASSUME NEW h \in Clients, WaitConnected(h) PROVE TypeOK'
  <2>1. st' \in [Clients -> ClientStages]
    BY <1>6 DEF WaitConnected, TypeOK, ClientStages
  <2>2. /\ connected' \in [Clients -> {None, "ok", "err"}]
        /\ snd' \in [Clients -> {"none", "run", "ended"}]
    BY <1>6 DEF WaitConnected, TypeOK
  <2> QED
    BY <1>6, <2>1, <2>2 DEF WaitConnected, TypeOK
<1>7. ASSUME NEW h \in Clients, Deliver(h) PROVE TypeOK'
  BY <1>7 DEF Deliver, TypeOK, ClientStages
<1>8. ASSUME NEW h \in Clients, TunnelEnds(h) PROVE TypeOK'
  BY <1>8 DEF TunnelEnds, TypeOK, ClientStages
<1>9. ASSUME NEW h \in Clients, ClientRead(h) PROVE TypeOK'
  <2>1. conn[h] \in Links
    BY <1>9 DEF ClientRead, StageInv
  <2>2. writeCh' \in [Links -> Seq(Frame)] /\ \A d \in Links : Len(writeCh'[d]) <= WriteCap
    BY <1>9, <2>1, SendType DEF ClientRead
  <2>3. snd' \in [Clients -> {"none", "run", "ended"}]
    BY <1>9 DEF ClientRead, TypeOK
  <2> QED
    BY <1>9, <2>2, <2>3 DEF ClientRead, TypeOK
<1>10. ASSUME NEW h \in Clients, HangUp(h) PROVE TypeOK'
  BY <1>10 DEF HangUp, TypeOK, ClientStages
<1>11. ASSUME NEW h \in Clients, SendClose(h) PROVE TypeOK'
  <2>1. conn[h] \in Links
    BY <1>11 DEF SendClose, StageInv
  <2>2. writeCh' \in [Links -> Seq(Frame)] /\ \A d \in Links : Len(writeCh'[d]) <= WriteCap
    BY <1>11, <2>1, SendType DEF SendClose
  <2>3. st' \in [Clients -> ClientStages] /\ said' \in SUBSET Clients
    BY <1>11 DEF SendClose, TypeOK, ClientStages
  <2> QED
    BY <1>11, <2>2, <2>3 DEF SendClose, TypeOK
<1>12. ASSUME NEW h \in Clients, Drop(h) PROVE TypeOK'
  BY <1>12 DEF Drop, TypeOK, ClientStages
<1>13. ASSUME NEW c \in Links, CloseLink(c) PROVE TypeOK'
  BY <1>13 DEF CloseLink, TypeOK
<1>14. ASSUME NEW c \in Links, NEW h \in Clients, RangeVisit(c, h) PROVE TypeOK'
  BY <1>14 DEF RangeVisit, TypeOK, CloseWithError
<1>15. ASSUME NEW c \in Links, WriteLoop(c) PROVE TypeOK'
  <2>1. writeCh[c] \in Seq(Frame) /\ writeCh[c] # <<>> /\ Len(writeCh[c]) <= WriteCap
    BY <1>15 DEF WriteLoop, TypeOK
  <2>2. /\ Tail(writeCh[c]) \in Seq(Frame) /\ Len(Tail(writeCh[c])) = Len(writeCh[c]) - 1
        /\ Head(writeCh[c]) \in Frame /\ Len(writeCh[c]) \in Nat
    BY <2>1
  <2>3. writeCh' = [writeCh EXCEPT ![c] = Tail(writeCh[c])]
    BY <1>15 DEF WriteLoop
  <2>4. writeCh' \in [Links -> Seq(Frame)] /\ \A d \in Links : Len(writeCh'[d]) <= WriteCap
    BY <2>1, <2>2, <2>3 DEF TypeOK
  <2>5. asked' \in SUBSET Clients
    BY <1>15, <2>2 DEF WriteLoop, TypeOK, Frame
  <2> QED
    BY <1>15, <2>4, <2>5 DEF WriteLoop, TypeOK
<1>16. ASSUME NEW c \in Links, LinkFails(c) PROVE TypeOK'
  <2>1. cl' \in [Links -> {"open", "range", "closed"}] /\ due' \in [Links -> SUBSET Clients]
    BY <1>16, <1>u, <1>v DEF LinkFails
  <2>2. reading' \in SUBSET Links
    BY <1>16, <1>u DEF LinkFails
  <2> QED
    BY <1>16, <2>1, <2>2 DEF LinkFails, TypeOK
<1>17. ASSUME NEW c \in Links, NEW h \in Clients, 
             NEW cmd \in {"Connected", "Data", "Close"}, ReadFrame(c, h, cmd)
      PROVE  TypeOK'
  <2>1. /\ sessions' \in SUBSET Clients /\ closed' \in SUBSET Clients
        /\ ended' \in SUBSET Clients /\ overrun' \in SUBSET Clients
    BY <1>17, <1>v DEF ReadFrame, CloseWithError
  <2>2. connected' \in [Clients -> {None, "ok", "err"}]
    BY <1>17, <1>v DEF ReadFrame, CloseWithError
  <2>3. data' \in [Clients -> 0 .. DataCap]
    BY <1>17, <1>u, LinkCaps DEF ReadFrame
  <2> QED
    BY <1>17, <2>1, <2>2, <2>3 DEF ReadFrame, TypeOK
<1> QED
  BY <1>0, <1>1, <1>2, <1>3, <1>4, <1>5, <1>6, <1>7, <1>8, <1>9, <1>10, <1>11, <1>12,
     <1>13, <1>14, <1>15, <1>16, <1>17 DEF Next, HandleBroker, GetBrokerConnection,
     Link, Closer

\* StageInv is preserved by every step.
LEMMA StageStep == TypeOK /\ StageInv /\ [Next]_vars => StageInv'
<1> SUFFICES ASSUME TypeOK, StageInv, [Next]_vars PROVE StageInv'
  OBVIOUS
<1> USE LinkClients, LinkCaps
<1> USE DEF stateVars, linkVars, sessVars, envVars, histVars
<1>0. CASE UNCHANGED vars
  BY <1>0 DEF vars, TypeOK, StageInv, Early
<1>1. ASSUME NEW h \in Clients, GetConn(h) PROVE StageInv'
  <2>1. \A g \in Clients : g # h => st'[g] = st[g] /\ conn'[g] = conn[g]
    BY <1>1 DEF GetConn, TypeOK
  <2>2. /\ st'[h] \in {"wait", "dial"} => conn'[h] = None
        /\ st'[h] = "got" => conn'[h] \in Links
        /\ st'[h] \in {"got", "wait", "dial"} /\ conn[h] = None
    BY <1>1 DEF GetConn, TypeOK, StageInv
  <2>3. sessions' = sessions /\ closed' = closed /\ snd' = snd /\ h \notin sessions \cup closed
    BY <1>1 DEF GetConn, StageInv, Early
  <2>4. sessions \cup closed \subseteq Clients
    BY DEF TypeOK
  <2>5. \A g \in sessions \cup closed : st'[g] \notin Early
    BY <2>1, <2>3, <2>4 DEF StageInv
  <2> QED
    BY <2>1, <2>2, <2>3, <2>5 DEF StageInv
<1>2. ASSUME NEW h \in Clients, DialBroker(h) PROVE StageInv'
  <2>1. links < MaxLinks => links + 1 \in Links
    BY DEF TypeOK, Links
  <2> QED
    BY <1>2, <2>1 DEF DialBroker, TypeOK, StageInv, Early
<1>3. ASSUME NEW h \in Clients, Publish(h) PROVE StageInv'
  BY <1>3 DEF Publish, TypeOK, StageInv, Early
<1>4. ASSUME NEW h \in Clients, OpenStore(h) PROVE StageInv'
  BY <1>4 DEF OpenStore, TypeOK, StageInv, Early
<1>5. ASSUME NEW h \in Clients, OpenSend(h) PROVE StageInv'
  BY <1>5 DEF OpenSend, TypeOK, StageInv, Early, CloseWithError
<1>6. ASSUME NEW h \in Clients, WaitConnected(h) PROVE StageInv'
  BY <1>6 DEF WaitConnected, TypeOK, StageInv, Early
<1>7. ASSUME NEW h \in Clients, Deliver(h) PROVE StageInv'
  BY <1>7 DEF Deliver, TypeOK, StageInv, Early
<1>8. ASSUME NEW h \in Clients, TunnelEnds(h) PROVE StageInv'
  BY <1>8 DEF TunnelEnds, TypeOK, StageInv, Early
<1>9. ASSUME NEW h \in Clients, ClientRead(h) PROVE StageInv'
  BY <1>9 DEF ClientRead, TypeOK, StageInv, Early
<1>10. ASSUME NEW h \in Clients, HangUp(h) PROVE StageInv'
  BY <1>10 DEF HangUp, TypeOK, StageInv, Early
<1>11. ASSUME NEW h \in Clients, SendClose(h) PROVE StageInv'
  BY <1>11 DEF SendClose, TypeOK, StageInv, Early
<1>12. ASSUME NEW h \in Clients, Drop(h) PROVE StageInv'
  BY <1>12 DEF Drop, TypeOK, StageInv, Early
<1>13. ASSUME NEW c \in Links, CloseLink(c) PROVE StageInv'
  BY <1>13 DEF CloseLink, TypeOK, StageInv, Early
<1>14. ASSUME NEW c \in Links, NEW h \in Clients, RangeVisit(c, h) PROVE StageInv'
  BY <1>14 DEF RangeVisit, TypeOK, StageInv, Early, CloseWithError
<1>15. ASSUME NEW c \in Links, WriteLoop(c) PROVE StageInv'
  BY <1>15 DEF WriteLoop, TypeOK, StageInv, Early
<1>16. ASSUME NEW c \in Links, LinkFails(c) PROVE StageInv'
  BY <1>16 DEF LinkFails, TypeOK, StageInv, Early
<1>17. ASSUME NEW c \in Links, NEW h \in Clients, 
             NEW cmd \in {"Connected", "Data", "Close"}, ReadFrame(c, h, cmd)
      PROVE  StageInv'
  BY <1>17 DEF ReadFrame, TypeOK, StageInv, Early, CloseWithError
<1> QED
  BY <1>0, <1>1, <1>2, <1>3, <1>4, <1>5, <1>6, <1>7, <1>8, <1>9, <1>10, <1>11, <1>12,
     <1>13, <1>14, <1>15, <1>16, <1>17 DEF Next, HandleBroker, GetBrokerConnection,
     Link, Closer

-----------------------------------------------------------------------------
(* One connection.                                                         *)

\* One client dials at a time, and only while no connection is shared.
DialInv ==
    /\ \A g, h \in Clients :
          st[g] \in {"dial", "publish"} /\ st[h] \in {"dial", "publish"} => g = h
    /\ \A h \in Clients : st[h] \in {"dial", "publish"} => dialing
    /\ dialing => brokerConn = None
    /\ \A c \in 1 .. links : cl[c] = "open" =>
          brokerConn = c \/ \E h \in Clients : st[h] = "publish" /\ conn[h] = c

\* DialInv is preserved by every step.
LEMMA DialStep == TypeOK /\ StageInv /\ DialInv /\ [Next]_vars => DialInv'
<1> SUFFICES ASSUME TypeOK, StageInv, DialInv, [Next]_vars PROVE DialInv'
  OBVIOUS
<1> USE LinkClients, LinkCaps
<1> USE DEF stateVars, linkVars, sessVars, envVars, histVars
<1>0. CASE UNCHANGED vars
  BY <1>0 DEF vars, TypeOK, DialInv
<1>1. ASSUME NEW h \in Clients, GetConn(h) PROVE DialInv'
  BY <1>1 DEF GetConn, TypeOK, StageInv, DialInv
<1>2. ASSUME NEW h \in Clients, DialBroker(h) PROVE DialInv'
  BY <1>2 DEF DialBroker, TypeOK, StageInv, DialInv
<1>3. ASSUME NEW h \in Clients, Publish(h) PROVE DialInv'
  <2>1. dialing /\ brokerConn = None /\ \A g \in Clients : st[g] \in {"dial", "publish"} => g = h
    BY <1>3 DEF Publish, DialInv
  <2>2. \A g \in Clients : st'[g] \notin {"dial", "publish"}
    BY <1>3, <2>1 DEF Publish
  <2>3. \A c \in 1 .. links : cl[c] = "open" => conn[h] = c
    BY <2>1, LinkClients DEF DialInv, TypeOK, Links
  <2>4. \A c \in 1 .. links : cl[c] = "open" => brokerConn' = c
    BY <1>3, <2>3, LinkClients DEF Publish, TypeOK, Links
  <2> QED
    BY <1>3, <2>2, <2>4 DEF Publish, DialInv
<1>4. ASSUME NEW h \in Clients, OpenStore(h) PROVE DialInv'
  <2>1. \A g \in Clients : st'[g] \in {"dial", "publish"} <=> st[g] \in {"dial", "publish"}
    BY <1>4 DEF OpenStore, TypeOK
  <2>2. \A g \in Clients : st'[g] = "publish" <=> st[g] = "publish"
    BY <1>4 DEF OpenStore, TypeOK
  <2>3. UNCHANGED <<dialing, brokerConn, links, cl, conn>>
    BY <1>4 DEF OpenStore
  <2> QED
    BY <2>1, <2>2, <2>3 DEF DialInv
<1>5. ASSUME NEW h \in Clients, OpenSend(h) PROVE DialInv'
  BY <1>5 DEF OpenSend, TypeOK, DialInv
<1>6. ASSUME NEW h \in Clients, WaitConnected(h) PROVE DialInv'
  BY <1>6 DEF WaitConnected, TypeOK, DialInv
<1>7. ASSUME NEW h \in Clients, Deliver(h) PROVE DialInv'
  BY <1>7 DEF Deliver, TypeOK, DialInv
<1>8. ASSUME NEW h \in Clients, TunnelEnds(h) PROVE DialInv'
  BY <1>8 DEF TunnelEnds, TypeOK, DialInv
<1>9. ASSUME NEW h \in Clients, ClientRead(h) PROVE DialInv'
  BY <1>9 DEF ClientRead, TypeOK, DialInv
<1>10. ASSUME NEW h \in Clients, HangUp(h) PROVE DialInv'
  BY <1>10 DEF HangUp, TypeOK, DialInv
<1>11. ASSUME NEW h \in Clients, SendClose(h) PROVE DialInv'
  BY <1>11 DEF SendClose, TypeOK, DialInv
<1>12. ASSUME NEW h \in Clients, Drop(h) PROVE DialInv'
  BY <1>12 DEF Drop, TypeOK, DialInv
<1>13. ASSUME NEW c \in Links, CloseLink(c) PROVE DialInv'
  BY <1>13 DEF CloseLink, TypeOK, DialInv
<1>14. ASSUME NEW c \in Links, NEW h \in Clients, RangeVisit(c, h) PROVE DialInv'
  BY <1>14 DEF RangeVisit, TypeOK, DialInv
<1>15. ASSUME NEW c \in Links, WriteLoop(c) PROVE DialInv'
  BY <1>15 DEF WriteLoop, TypeOK, DialInv
<1>16. ASSUME NEW c \in Links, LinkFails(c) PROVE DialInv'
  <2>1. \A d \in Links : cl'[d] = "open" => cl[d] = "open"
    BY <1>16 DEF LinkFails, TypeOK
  <2>2. 1 .. links \subseteq Links
    BY DEF TypeOK, Links
  <2> QED
    BY <1>16, <2>1, <2>2 DEF LinkFails, DialInv
<1>17. ASSUME NEW c \in Links, NEW h \in Clients, 
             NEW cmd \in {"Connected", "Data", "Close"}, ReadFrame(c, h, cmd)
      PROVE  DialInv'
  BY <1>17 DEF ReadFrame, TypeOK, DialInv
<1> QED
  BY <1>0, <1>1, <1>2, <1>3, <1>4, <1>5, <1>6, <1>7, <1>8, <1>9, <1>10, <1>11, <1>12,
     <1>13, <1>14, <1>15, <1>16, <1>17 DEF Next, HandleBroker, GetBrokerConnection,
     Link, Closer

\* DialInv implies OneLink: an open connection is the shared one, or that of
\* the only client that dials.
LEMMA DialInvOneLink == TypeOK /\ DialInv => OneLink
<1> SUFFICES ASSUME TypeOK, DialInv
             PROVE  Cardinality({c \in 1 .. links : cl[c] = "open"}) <= 1
  BY DEF DialInv, OneLink
<1> DEFINE Open == {c \in 1 .. links : cl[c] = "open"}
<1>0. \A c \in 1 .. links : c # None
  <2>1. links \in 0 .. MaxLinks
    BY DEF TypeOK
  <2> QED
    BY <2>1, LinkClients, LinkCaps DEF Links
<1>1. \A c, d \in Open : c = d
  <2> SUFFICES ASSUME NEW c \in Open, NEW d \in Open PROVE c = d
    OBVIOUS
  <2>1. CASE brokerConn = None
    BY <1>0, <2>1 DEF DialInv
  <2>2. CASE brokerConn # None
    <3>1. \A h \in Clients : st[h] # "publish"
      BY <2>2 DEF DialInv
    <3> QED
      BY <3>1 DEF DialInv
  <2> QED
    BY <2>1, <2>2
<1>2. CASE Open = {}
  BY <1>2, FS_EmptySet
<1>3. CASE Open # {}
  <2>1. PICK x : Open = {x}
    BY <1>1, <1>3
  <2>2. Cardinality(Open) = 1
    BY <2>1, FS_Singleton
  <2> QED
    BY <2>2
<1> QED
  BY <1>2, <1>3

-----------------------------------------------------------------------------
(* The end of the sessions.                                                *)

\* What the Range of close has yet to visit, what a client about to drop its
\* session has told the broker, and what closed a session.
SweepInv ==
    /\ \A c \in Links : cl[c] = "range" =>
          \A h \in sessions \ late : conn[h] = c => h \in due[c]
    /\ SessionsSwept
    /\ \A h \in Clients : st[h] = "drop" => h \in said \/ Done(conn[h])
    /\ \A h \in closed \ ended : ~Done(conn[h]) => h \in said \cup overrun

\* SweepInv is preserved by every step.
LEMMA SweepStep == TypeOK /\ StageInv /\ SweepInv /\ [Next]_vars => SweepInv'
<1> SUFFICES ASSUME TypeOK, StageInv, SweepInv, [Next]_vars PROVE SweepInv'
  OBVIOUS
<1> USE LinkClients, LinkCaps
<1> USE DEF stateVars, linkVars, sessVars, envVars, histVars
<1>v. sessions \in SUBSET Clients /\ closed \in SUBSET Clients
  BY DEF TypeOK
<1>0. CASE UNCHANGED vars
  BY <1>0 DEF vars, TypeOK, SweepInv, SessionsSwept, Done
<1>1. ASSUME NEW h \in Clients, GetConn(h) PROVE SweepInv'
  <2>1. /\ h \notin sessions \cup closed
        /\ \A g \in Clients : g # h => st'[g] = st[g] /\ conn'[g] = conn[g]
        /\ st'[h] # "drop"
    BY <1>1 DEF GetConn, TypeOK, StageInv, Early
  <2>2. UNCHANGED <<linkVars, sessVars, envVars, histVars>>
    BY <1>1 DEF GetConn
  <2>3. SessionsSwept'
    BY <2>1, <2>2, <1>v DEF SweepInv, SessionsSwept
  <2>4. \A g \in (closed \cup sessions) : conn'[g] = conn[g]
    BY <2>1, <1>v
  <2> QED
    BY <2>1, <2>2, <2>3, <2>4, <1>v DEF SweepInv, Done
<1>2. ASSUME NEW h \in Clients, DialBroker(h) PROVE SweepInv'
  <2>1. /\ h \notin sessions \cup closed
        /\ \A g \in Clients : g # h => st'[g] = st[g] /\ conn'[g] = conn[g]
        /\ st'[h] # "drop"
    BY <1>2 DEF DialBroker, TypeOK, StageInv, Early
  <2>2. UNCHANGED <<linkVars, sessVars, envVars, histVars>>
    BY <1>2 DEF DialBroker
  <2>3. SessionsSwept'
    BY <2>1, <2>2, <1>v DEF SweepInv, SessionsSwept
  <2>4. \A g \in (closed \cup sessions) : conn'[g] = conn[g]
    BY <2>1, <1>v
  <2> QED
    BY <2>1, <2>2, <2>3, <2>4, <1>v DEF SweepInv, Done
<1>3. ASSUME NEW h \in Clients, Publish(h) PROVE SweepInv'
  BY <1>3 DEF Publish, TypeOK, StageInv, SweepInv, SessionsSwept, Done, Early
<1>4. ASSUME NEW h \in Clients, OpenStore(h) PROVE SweepInv'
  BY <1>4 DEF OpenStore, TypeOK, StageInv, SweepInv, SessionsSwept, Done, Early
<1>5. ASSUME NEW h \in Clients, OpenSend(h) PROVE SweepInv'
  BY <1>5 DEF OpenSend, TypeOK, StageInv, SweepInv, SessionsSwept, Done, Early, CloseWithError,
              SendFails
<1>6. ASSUME NEW h \in Clients, WaitConnected(h) PROVE SweepInv'
  BY <1>6 DEF WaitConnected, TypeOK, SweepInv, SessionsSwept, Done
<1>7. ASSUME NEW h \in Clients, Deliver(h) PROVE SweepInv'
  BY <1>7 DEF Deliver, TypeOK, SweepInv, SessionsSwept, Done
<1>8. ASSUME NEW h \in Clients, TunnelEnds(h) PROVE SweepInv'
  BY <1>8 DEF TunnelEnds, TypeOK, SweepInv, SessionsSwept, Done
<1>9. ASSUME NEW h \in Clients, ClientRead(h) PROVE SweepInv'
  BY <1>9 DEF ClientRead, TypeOK, SweepInv, SessionsSwept, Done, SendFails
<1>10. ASSUME NEW h \in Clients, HangUp(h) PROVE SweepInv'
  BY <1>10 DEF HangUp, TypeOK, SweepInv, SessionsSwept, Done
<1>11. ASSUME NEW h \in Clients, SendClose(h) PROVE SweepInv'
  BY <1>11 DEF SendClose, TypeOK, StageInv, SweepInv, SessionsSwept, Done, Early, SendFails
<1>12. ASSUME NEW h \in Clients, Drop(h) PROVE SweepInv'
  BY <1>12 DEF Drop, TypeOK, StageInv, SweepInv, SessionsSwept, Done, Early
<1>13. ASSUME NEW c \in Links, CloseLink(c) PROVE SweepInv'
  BY <1>13 DEF CloseLink, TypeOK, SweepInv, SessionsSwept, Done
<1>14. ASSUME NEW c \in Links, NEW h \in Clients, RangeVisit(c, h) PROVE SweepInv'
  BY <1>14 DEF RangeVisit, TypeOK, StageInv, SweepInv, SessionsSwept, Done, Early, CloseWithError
<1>15. ASSUME NEW c \in Links, WriteLoop(c) PROVE SweepInv'
  BY <1>15 DEF WriteLoop, TypeOK, SweepInv, SessionsSwept, Done
<1>16. ASSUME NEW c \in Links, LinkFails(c) PROVE SweepInv'
  <2>1. CASE Done(c)
    BY <1>16, <2>1 DEF LinkFails, SweepInv, SessionsSwept, Done
  <2>2. CASE ~Done(c)
    <3>1. /\ cl'[c] = "range" /\ due'[c] = {h \in sessions : conn[h] = c} /\ cl[c] = "open"
          /\ \A d \in Links \ {c} : cl'[d] = cl[d] /\ due'[d] = due[d]
      BY <1>16, <2>2 DEF LinkFails, TypeOK, Done
    <3>2. cl' = [cl EXCEPT ![c] = "range"]
      BY <1>16, <2>2 DEF LinkFails
    <3>3. UNCHANGED <<st, conn, sessVars, envVars, histVars>>
      BY <1>16 DEF LinkFails
    <3>4. \A d : cl[d] # "open" => cl'[d] # "open"
      BY <3>2 DEF TypeOK
    <3>5. \A h \in sessions \ late : cl'[conn[h]] # "closed"
      BY <3>2 DEF TypeOK, SweepInv, SessionsSwept
    <3> QED
      BY <3>1, <3>3, <3>4, <3>5 DEF SweepInv, SessionsSwept, Done
  <2> QED
    BY <2>1, <2>2
<1>17. ASSUME NEW c \in Links, NEW h \in Clients, 
             NEW cmd \in {"Connected", "Data", "Close"}, ReadFrame(c, h, cmd)
      PROVE  SweepInv'
  BY <1>17 DEF ReadFrame, TypeOK, StageInv, SweepInv, SessionsSwept, Done, Early, CloseWithError
<1> QED
  BY <1>0, <1>1, <1>2, <1>3, <1>4, <1>5, <1>6, <1>7, <1>8, <1>9, <1>10, <1>11, <1>12,
     <1>13, <1>14, <1>15, <1>16, <1>17 DEF Next, HandleBroker, GetBrokerConnection,
     Link, Closer

-----------------------------------------------------------------------------
(* The theorems.                                                           *)

\* The invariant holds initially.
LEMMA LinkInit == Init => TypeOK /\ StageInv /\ DialInv /\ SweepInv
<1> SUFFICES ASSUME Init PROVE TypeOK /\ StageInv /\ DialInv /\ SweepInv
  OBVIOUS
<1> USE LinkClients, LinkCaps
<1>1. /\ 0 \in 0 .. MaxLinks /\ 0 \in 0 .. DataCap
      /\ writeCh \in [Links -> Seq(Frame)] /\ \A c \in Links : Len(writeCh[c]) <= WriteCap
  BY DEF Init
<1>2. TypeOK
  BY <1>1 DEF Init, TypeOK, ClientStages
<1>3. StageInv
  BY DEF Init, StageInv
<1>4. DialInv
  BY DEF Init, DialInv
<1>5. SweepInv
  BY DEF Init, SweepInv, SessionsSwept
<1> QED
  BY <1>2, <1>3, <1>4, <1>5

\* The invariant always holds.
LEMMA LinkInvariant == Spec => [](TypeOK /\ StageInv /\ DialInv /\ SweepInv)
  BY LinkInit, TypeStep, StageStep, DialStep, SweepStep, PTL DEF Spec

\* Every variable keeps its type, and no queue exceeds its capacity.
THEOREM LinkTypeCorrect == Spec => []TypeOK
  BY LinkInvariant, PTL

\* OneLink always holds: brokerDialing and brokerWaitCh let one client dial,
\* and no connection is ever open that nobody can reach.
THEOREM LinkUnique == Spec => []OneLink
  BY LinkInvariant, DialInvOneLink, PTL

\* SessionsSwept always holds: close reaches every session stored before it.
THEOREM LinkSweeps == Spec => []SessionsSwept
<1>1. SweepInv => SessionsSwept
  BY DEF SweepInv
<1> QED
  BY <1>1, LinkInvariant, PTL

\* HangupIsSent always holds: a session that ends while the connection is up
\* has its CmdClose queued, was closed by the broker, or overran its queue.
THEOREM LinkHangsUp == Spec => []HangupIsSent
<1>1. TypeOK /\ SweepInv => HangupIsSent
  BY DEF SweepInv, HangupIsSent, TypeOK
<1> QED
  BY <1>1, LinkInvariant, PTL

=============================================================================
