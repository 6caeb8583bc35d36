---------------------------- MODULE WorkerProofs ----------------------------
(***************************************************************************)
(* TypeOK, TargetHasOwner and EndIsReported of Worker, proved for any      *)
(* number of sessions and connections and any capacity of the queues.      *)
(***************************************************************************)
EXTENDS Worker, TLAPS

\* A packet queued by sendPacket keeps the type and the bound of the channel.
LEMMA QueuedType ==
    ASSUME TypeOK, NEW c \in Conns, NEW id \in Ids, NEW cmd \in {"Connected", "Data", "Close"},
           Queued(c, id, cmd) \/ GiveUp(c)
    PROVE  /\ send' \in [Conns -> Seq(Packet)]
           /\ \A d \in Conns : Len(send'[d]) <= BrokerWriteQueue
           /\ answered' \in SUBSET Ids /\ told' \in SUBSET Ids
<1>1. CASE GiveUp(c)
  BY <1>1 DEF GiveUp, TypeOK
<1>2. CASE Queued(c, id, cmd)
  <2> DEFINE m == [id |-> id, cmd |-> cmd]
  <2>1. send[c] \in Seq(Packet) /\ m \in Packet /\ Len(send[c]) < BrokerWriteQueue
    BY <1>2 DEF Queued, TypeOK, Packet
  <2>2. send' = [send EXCEPT ![c] = Append(send[c], m)]
    BY <1>2 DEF Queued
  <2> HIDE DEF m
  <2>3. Append(send[c], m) \in Seq(Packet) /\ Len(Append(send[c], m)) = Len(send[c]) + 1
        /\ Len(send[c]) \in Nat
    BY <2>1
  <2>4. Len(send[c]) + 1 <= BrokerWriteQueue
    BY <2>1, <2>3, WorkerCaps
  <2>5. answered' \in SUBSET Ids /\ told' \in SUBSET Ids
    BY <1>2 DEF Queued, TypeOK
  <2> QED
    BY <2>2, <2>3, <2>4, <2>5 DEF TypeOK
<1> QED
  BY <1>1, <1>2

\* TypeOK, with StageInv, is preserved by every step.
LEMMA TypeStep == TypeOK /\ StageInv /\ [Next]_vars => TypeOK' /\ StageInv'
<1> SUFFICES ASSUME TypeOK, StageInv, [Next]_vars PROVE TypeOK' /\ StageInv'
  OBVIOUS
<1> USE WorkerNone, WorkerCaps, WorkerDelay
<1> USE DEF mainVars, linkVars, sessVars, goVars, histVars
<1>0. CASE UNCHANGED vars
  BY <1>0 DEF vars, TypeOK, StageInv
<1>1. ASSUME Cancel
      PROVE  TypeOK' /\ StageInv'
  BY <1>1 DEF Cancel, TypeOK, StageInv
<1>2. ASSUME Watch
      PROVE  TypeOK' /\ StageInv'
  BY <1>2 DEF Watch, TypeOK, StageInv
<1>3. ASSUME Dial
      PROVE  TypeOK' /\ StageInv'
  <2>1. k' \in 0 .. MaxConns /\ main' \in {"serve", "sleep"}
        /\ (main' = "serve" => k' \in Conns)
    BY <1>3 DEF Dial, TypeOK, Conns
  <2> QED
    BY <1>3, <2>1 DEF Dial, TypeOK, StageInv, MainStages
<1>4. ASSUME Sleep
      PROVE  TypeOK' /\ StageInv'
  <2>1. backoff' \in BrokerReconnectInitial .. BrokerReconnectMax
    BY <1>4 DEF Sleep, NextBackoff, TypeOK
  <2>2. main' \in {"dial", "final"} /\ due' \in SUBSET Ids
    BY <1>4 DEF Sleep, TypeOK
  <2> QED
    BY <1>4, <2>1, <2>2 DEF Sleep, TypeOK, StageInv, MainStages
<1>5. ASSUME ReadFails
      PROVE  TypeOK' /\ StageInv'
  BY <1>5 DEF ReadFails, TypeOK, StageInv, MainStages
<1>6. ASSUME MainDelete
      PROVE  TypeOK' /\ StageInv'
  BY <1>6 DEF MainDelete, TypeOK, StageInv, MainStages
<1>7. ASSUME MainReply
      PROVE  TypeOK' /\ StageInv'
  BY <1>7, QueuedType DEF MainReply, TypeOK, StageInv, MainStages
<1>8. ASSUME RangeDelete
      PROVE  TypeOK' /\ StageInv'
  BY <1>8 DEF RangeDelete, TypeOK, StageInv, MainStages
<1>9. ASSUME RangeEnd
      PROVE  TypeOK' /\ StageInv'
  BY <1>9 DEF RangeEnd, TypeOK, StageInv, MainStages
<1>10. ASSUME NEW id \in Ids, Connect(id)
      PROVE  TypeOK' /\ StageInv'
  BY <1>10 DEF Connect, TypeOK, StageInv, OpenStages
<1>11. ASSUME NEW id \in Ids, Data(id)
      PROVE  TypeOK' /\ StageInv'
  <2>1. wq' \in [Ids -> 0 .. SessionWriteQueue]
    BY <1>11 DEF Data, TypeOK
  <2>2. main' \in {"serve", "overflow"} /\ hand' \in Ids \cup {None}
        /\ (main' = "overflow" => hand' \in Ids)
        /\ sd' \in [Ids -> {"open", "closing", "closed"}]
    BY <1>11 DEF Data, CloseBegin, TypeOK
  <2>3. k \in Conns
    BY <1>11 DEF Data, StageInv
  <2> QED
    BY <1>11, <2>1, <2>2, <2>3 DEF Data, TypeOK, StageInv, MainStages
<1>12. ASSUME NEW id \in Ids, Close(id)
      PROVE  TypeOK' /\ StageInv'
  BY <1>12, ZenonT(60) DEF Close, TypeOK, StageInv, CloseBegin, MainStages
<1>13. ASSUME NEW id \in Ids, RangeVisit(id)
      PROVE  TypeOK' /\ StageInv'
  BY <1>13 DEF RangeVisit, TypeOK, StageInv, CloseBegin, MainStages
<1>14. ASSUME NEW c \in Conns, BrokerWrite(c)
      PROVE  TypeOK' /\ StageInv'
  <2>1. send[c] \in Seq(Packet) /\ send[c] # <<>> /\ Len(send[c]) <= BrokerWriteQueue
    BY <1>14 DEF BrokerWrite, TypeOK
  <2>2. Tail(send[c]) \in Seq(Packet) /\ Len(Tail(send[c])) = Len(send[c]) - 1
        /\ Head(send[c]) \in Packet /\ Len(send[c]) \in Nat
    BY <2>1
  <2>3. Len(Tail(send[c])) <= BrokerWriteQueue
    BY <2>1, <2>2
  <2>4. send' = [send EXCEPT ![c] = Tail(send[c])]
    BY <1>14 DEF BrokerWrite
  <2>5. send' \in [Conns -> Seq(Packet)] /\ \A d \in Conns : Len(send'[d]) <= BrokerWriteQueue
    BY <2>2, <2>3, <2>4 DEF TypeOK
  <2>6. seen' \in SUBSET Ids
    BY <1>14, <2>2 DEF BrokerWrite, TypeOK, Packet
  <2> QED
    BY <1>14, <2>5, <2>6 DEF BrokerWrite, TypeOK, StageInv
<1>15. ASSUME NEW c \in Conns, BrokerWriteFails(c)
      PROVE  TypeOK' /\ StageInv'
  BY <1>15 DEF BrokerWriteFails, TypeOK, StageInv
<1>16. ASSUME NEW id \in Ids, CloseEnd(id)
      PROVE  TypeOK' /\ StageInv'
  BY <1>16 DEF CloseEnd, TypeOK, StageInv
<1>17. ASSUME NEW id \in Ids, OpenStore(id)
      PROVE  TypeOK' /\ StageInv'
  BY <1>17 DEF OpenStore, TypeOK, StageInv, OpenStages
<1>18. ASSUME NEW id \in Ids, OpenCancelled(id)
      PROVE  TypeOK' /\ StageInv'
  BY <1>18 DEF OpenCancelled, TypeOK, StageInv, CloseBegin, OpenStages
<1>19. ASSUME NEW id \in Ids, OpenDial(id)
      PROVE  TypeOK' /\ StageInv'
  BY <1>19 DEF OpenDial, TypeOK, StageInv, OpenStages
<1>20. ASSUME NEW id \in Ids, OpenFailed(id)
      PROVE  TypeOK' /\ StageInv'
  BY <1>20, QueuedType DEF OpenFailed, TypeOK, StageInv, OpenStages
<1>21. ASSUME NEW id \in Ids, OpenDropped(id)
      PROVE  TypeOK' /\ StageInv'
  BY <1>21 DEF OpenDropped, TypeOK, StageInv, CloseBegin, OpenStages
<1>22. ASSUME NEW id \in Ids, OpenSetConn(id)
      PROVE  TypeOK' /\ StageInv'
  <2>1. /\ conn' \in SUBSET Ids /\ sessions' \in SUBSET Ids
        /\ target' \in [Ids -> {"none", "open", "closed"}]
    BY <1>22 DEF OpenSetConn, TypeOK
  <2>2. op' \in [Ids -> OpenStages]
    <3>1. op' = [op EXCEPT ![id] = "setup"] \/ op' = [op EXCEPT ![id] = "ended"]
      BY <1>22 DEF OpenSetConn
    <3>2. op \in [Ids -> OpenStages] /\ "setup" \in OpenStages /\ "ended" \in OpenStages
      BY DEF TypeOK, OpenStages
    <3> QED
      BY <3>1, <3>2
  <2>3. wr' \in [Ids -> WriterStages]
    <3>1. wr' = [wr EXCEPT ![id] = "run"] \/ wr' = wr
      BY <1>22 DEF OpenSetConn
    <3>2. wr \in [Ids -> WriterStages] /\ "run" \in WriterStages
      BY DEF TypeOK, WriterStages
    <3> QED
      BY <3>1, <3>2
  <2>4. rdr' \in [Ids -> ReaderStages]
    <3>1. rdr' = [rdr EXCEPT ![id] = "spawned"] \/ rdr' = rdr
      BY <1>22 DEF OpenSetConn
    <3>2. rdr \in [Ids -> ReaderStages] /\ "spawned" \in ReaderStages
      BY DEF TypeOK, ReaderStages
    <3> QED
      BY <3>1, <3>2
  <2>5. ep[id] # None
    BY <1>22 DEF OpenSetConn, StageInv
  <2>6. \A i \in Ids \ {id} : op'[i] = op[i] /\ rdr'[i] = rdr[i]
    BY <1>22 DEF OpenSetConn, TypeOK
  <2>7. UNCHANGED <<mainVars, linkVars, ep, sd, wq, histVars>>
    BY <1>22 DEF OpenSetConn
  <2>8. TypeOK'
    BY <2>1, <2>2, <2>3, <2>4, <2>7 DEF TypeOK
  <2> QED
    BY <2>5, <2>6, <2>7, <2>8 DEF StageInv
<1>23. ASSUME NEW id \in Ids, OpenConnected(id)
      PROVE  TypeOK' /\ StageInv'
  <2>1. ep[id] \in Conns
    BY <1>23 DEF OpenConnected, StageInv, TypeOK
  <2>2. Queued(ep[id], id, "Connected") \/ GiveUp(ep[id])
    BY <1>23 DEF OpenConnected
  <2>3. op' \in [Ids -> OpenStages]
    BY <1>23, ZenonT(60) DEF OpenConnected, TypeOK, OpenStages
  <2>4. sd' \in [Ids -> {"open", "closing", "closed"}]
    BY <1>23 DEF OpenConnected, CloseBegin, TypeOK
  <2>5. \A i \in Ids \ {id} : op'[i] = op[i]
    BY <1>23 DEF OpenConnected, TypeOK
  <2>6. UNCHANGED <<mainVars, done, sessions, ep, conn, target, wq, wr, rdr, seen, hungup>>
    BY <1>23 DEF OpenConnected
  <2>7. TypeOK'
    BY <2>1, <2>2, <2>3, <2>4, <2>6, QueuedType DEF TypeOK
  <2> QED
    BY <2>1, <2>5, <2>6, <2>7 DEF StageInv
<1>24. ASSUME NEW id \in Ids, OpenAbort(id)
      PROVE  TypeOK' /\ StageInv'
  BY <1>24 DEF OpenAbort, TypeOK, StageInv, OpenStages
<1>25. ASSUME NEW id \in Ids, SessionWrite(id)
      PROVE  TypeOK' /\ StageInv'
  <2>1. wq' \in [Ids -> 0 .. SessionWriteQueue]
    BY <1>25 DEF SessionWrite, TypeOK
  <2>2. sd' \in [Ids -> {"open", "closing", "closed"}]
    BY <1>25 DEF SessionWrite, CloseBegin, TypeOK
  <2>3. wr' \in [Ids -> WriterStages]
    BY <1>25 DEF SessionWrite, TypeOK, WriterStages
  <2> QED
    BY <1>25, <2>1, <2>2, <2>3 DEF SessionWrite, TypeOK, StageInv
<1>26. ASSUME NEW id \in Ids, SessionWriterDelete(id)
      PROVE  TypeOK' /\ StageInv'
  BY <1>26 DEF SessionWriterDelete, TypeOK, StageInv, WriterStages
<1>27. ASSUME NEW id \in Ids, SessionWriterStop(id)
      PROVE  TypeOK' /\ StageInv'
  BY <1>27 DEF SessionWriterStop, TypeOK, StageInv, WriterStages
<1>28. ASSUME NEW id \in Ids, ReaderStart(id)
      PROVE  TypeOK' /\ StageInv'
  BY <1>28 DEF ReaderStart, TypeOK, StageInv, ReaderStages
<1>29. ASSUME NEW id \in Ids, ReaderRead(id)
      PROVE  TypeOK' /\ StageInv'
  BY <1>29 DEF ReaderRead, TypeOK, StageInv, ReaderStages
<1>30. ASSUME NEW id \in Ids, ReaderSend(id)
      PROVE  TypeOK' /\ StageInv'
  <2>1. ep[id] \in Conns /\ (Queued(ep[id], id, "Data") \/ GiveUp(ep[id]))
    BY <1>30 DEF ReaderSend, TypeOK, StageInv
  <2>2. /\ send' \in [Conns -> Seq(Packet)] /\ \A d \in Conns : Len(send'[d]) <= BrokerWriteQueue
        /\ answered' \in SUBSET Ids /\ told' \in SUBSET Ids
    BY <2>1, QueuedType
  <2>3. rdr' \in [Ids -> ReaderStages] /\ \A i \in Ids : rdr'[i] # "none" <=> rdr[i] # "none"
    BY <1>30 DEF ReaderSend, TypeOK, ReaderStages
  <2> QED
    BY <1>30, <2>2, <2>3 DEF ReaderSend, TypeOK, StageInv
<1>31. ASSUME NEW id \in Ids, ReaderClose(id)
      PROVE  TypeOK' /\ StageInv'
  BY <1>31 DEF ReaderClose, TypeOK, StageInv, CloseBegin, ReaderStages
<1>32. ASSUME NEW id \in Ids, ReaderDelete(id)
      PROVE  TypeOK' /\ StageInv'
  BY <1>32 DEF ReaderDelete, TypeOK, StageInv, ReaderStages
<1>33. ASSUME NEW id \in Ids, ReaderReport(id)
      PROVE  TypeOK' /\ StageInv'
  BY <1>33, QueuedType DEF ReaderReport, TypeOK, StageInv, ReaderStages
<1> QED
  BY <1>0, <1>1, <1>2, <1>3, <1>4, <1>5, <1>6, <1>7, <1>8, <1>9, <1>10, <1>11, <1>12, <1>13,
     <1>14, <1>15, <1>16, <1>17, <1>18, <1>19, <1>20, <1>21, <1>22, <1>23, <1>24, <1>25, <1>26,
     <1>27, <1>28, <1>29, <1>30, <1>31, <1>32, <1>33 DEF Next, Running, Exited, Main, Open,
     SessionWriter, RemoteReader

\* OwnerInv is preserved by every step.
LEMMA OwnerStep == TypeOK /\ StageInv /\ OwnerInv /\ [Next]_vars => OwnerInv'
<1> SUFFICES ASSUME TypeOK, StageInv, OwnerInv, [Next]_vars PROVE OwnerInv'
  OBVIOUS
<1> USE DEF mainVars, linkVars, sessVars, goVars, histVars
<1>0. CASE UNCHANGED vars
  BY <1>0 DEF vars, OwnerInv
<1>1. ASSUME Cancel
      PROVE  OwnerInv'
  BY <1>1 DEF Cancel, TypeOK, OwnerInv
<1>2. ASSUME Watch
      PROVE  OwnerInv'
  BY <1>2 DEF Watch, TypeOK, OwnerInv
<1>3. ASSUME Dial
      PROVE  OwnerInv'
  BY <1>3 DEF Dial, TypeOK, OwnerInv
<1>4. ASSUME Sleep
      PROVE  OwnerInv'
  BY <1>4 DEF Sleep, TypeOK, OwnerInv
<1>5. ASSUME ReadFails
      PROVE  OwnerInv'
  BY <1>5 DEF ReadFails, TypeOK, OwnerInv
<1>6. ASSUME MainDelete
      PROVE  OwnerInv'
  BY <1>6 DEF MainDelete, TypeOK, OwnerInv
<1>7. ASSUME MainReply
      PROVE  OwnerInv'
  BY <1>7 DEF MainReply, TypeOK, OwnerInv
<1>8. ASSUME RangeDelete
      PROVE  OwnerInv'
  BY <1>8 DEF RangeDelete, TypeOK, OwnerInv
<1>9. ASSUME RangeEnd
      PROVE  OwnerInv'
  BY <1>9 DEF RangeEnd, TypeOK, OwnerInv
<1>10. ASSUME NEW id \in Ids, Connect(id)
      PROVE  OwnerInv'
  BY <1>10 DEF Connect, TypeOK, StageInv, OwnerInv
<1>11. ASSUME NEW id \in Ids, Data(id)
      PROVE  OwnerInv'
  BY <1>11 DEF Data, TypeOK, OwnerInv, CloseBegin
<1>12. ASSUME NEW id \in Ids, Close(id)
      PROVE  OwnerInv'
  BY <1>12 DEF Close, TypeOK, OwnerInv, CloseBegin
<1>13. ASSUME NEW id \in Ids, RangeVisit(id)
      PROVE  OwnerInv'
  BY <1>13 DEF RangeVisit, TypeOK, OwnerInv, CloseBegin
<1>14. ASSUME NEW c \in Conns, BrokerWrite(c)
      PROVE  OwnerInv'
  BY <1>14 DEF BrokerWrite, TypeOK, OwnerInv
<1>15. ASSUME NEW c \in Conns, BrokerWriteFails(c)
      PROVE  OwnerInv'
  BY <1>15 DEF BrokerWriteFails, TypeOK, OwnerInv
<1>16. ASSUME NEW id \in Ids, CloseEnd(id)
      PROVE  OwnerInv'
  BY <1>16 DEF CloseEnd, TypeOK, OwnerInv
<1>17. ASSUME NEW id \in Ids, OpenStore(id)
      PROVE  OwnerInv'
  BY <1>17 DEF OpenStore, TypeOK, OwnerInv
<1>18. ASSUME NEW id \in Ids, OpenCancelled(id)
      PROVE  OwnerInv'
  BY <1>18 DEF OpenCancelled, TypeOK, OwnerInv, CloseBegin
<1>19. ASSUME NEW id \in Ids, OpenDial(id)
      PROVE  OwnerInv'
  BY <1>19 DEF OpenDial, TypeOK, OwnerInv
<1>20. ASSUME NEW id \in Ids, OpenFailed(id)
      PROVE  OwnerInv'
  BY <1>20 DEF OpenFailed, TypeOK, OwnerInv
<1>21. ASSUME NEW id \in Ids, OpenDropped(id)
      PROVE  OwnerInv'
  BY <1>21 DEF OpenDropped, TypeOK, OwnerInv, CloseBegin
<1>22. ASSUME NEW id \in Ids, OpenSetConn(id)
      PROVE  OwnerInv'
  BY <1>22 DEF OpenSetConn, TypeOK, OwnerInv, SetConnOK
<1>23. ASSUME NEW id \in Ids, OpenConnected(id)
      PROVE  OwnerInv'
  BY <1>23 DEF OpenConnected, TypeOK, OwnerInv, CloseBegin
<1>24. ASSUME NEW id \in Ids, OpenAbort(id)
      PROVE  OwnerInv'
  BY <1>24 DEF OpenAbort, TypeOK, OwnerInv
<1>25. ASSUME NEW id \in Ids, SessionWrite(id)
      PROVE  OwnerInv'
  BY <1>25 DEF SessionWrite, TypeOK, OwnerInv, CloseBegin
<1>26. ASSUME NEW id \in Ids, SessionWriterDelete(id)
      PROVE  OwnerInv'
  BY <1>26 DEF SessionWriterDelete, TypeOK, OwnerInv
<1>27. ASSUME NEW id \in Ids, SessionWriterStop(id)
      PROVE  OwnerInv'
  BY <1>27 DEF SessionWriterStop, TypeOK, OwnerInv
<1>28. ASSUME NEW id \in Ids, ReaderStart(id)
      PROVE  OwnerInv'
  BY <1>28 DEF ReaderStart, TypeOK, OwnerInv
<1>29. ASSUME NEW id \in Ids, ReaderRead(id)
      PROVE  OwnerInv'
  BY <1>29 DEF ReaderRead, TypeOK, OwnerInv
<1>30. ASSUME NEW id \in Ids, ReaderSend(id)
      PROVE  OwnerInv'
  BY <1>30 DEF ReaderSend, TypeOK, OwnerInv
<1>31. ASSUME NEW id \in Ids, ReaderClose(id)
      PROVE  OwnerInv'
  BY <1>31 DEF ReaderClose, TypeOK, OwnerInv, CloseBegin
<1>32. ASSUME NEW id \in Ids, ReaderDelete(id)
      PROVE  OwnerInv'
  BY <1>32 DEF ReaderDelete, TypeOK, OwnerInv
<1>33. ASSUME NEW id \in Ids, ReaderReport(id)
      PROVE  OwnerInv'
  BY <1>33 DEF ReaderReport, TypeOK, OwnerInv
<1> QED
  BY <1>0, <1>1, <1>2, <1>3, <1>4, <1>5, <1>6, <1>7, <1>8, <1>9, <1>10, <1>11, <1>12, <1>13,
     <1>14, <1>15, <1>16, <1>17, <1>18, <1>19, <1>20, <1>21, <1>22, <1>23, <1>24, <1>25, <1>26,
     <1>27, <1>28, <1>29, <1>30, <1>31, <1>32, <1>33 DEF Next, Running, Exited, Main, Open,
     SessionWriter, RemoteReader

\* TypeOK and StageInv hold initially.
LEMMA WorkerTypeInit == Init => TypeOK /\ StageInv
<1> SUFFICES ASSUME Init PROVE TypeOK /\ StageInv
  OBVIOUS
<1>1. /\ ctx \in BOOLEAN /\ main \in MainStages /\ hand \in Ids \cup {None} /\ due \in SUBSET Ids
      /\ done \in [Conns -> BOOLEAN]
  BY DEF Init, MainStages
<1>2. k \in 0 .. MaxConns /\ backoff \in BrokerReconnectInitial .. BrokerReconnectMax
  BY WorkerCaps, WorkerDelay DEF Init
<1>3. send \in [Conns -> Seq(Packet)] /\ \A c \in Conns : Len(send[c]) <= BrokerWriteQueue
  BY WorkerCaps DEF Init
<1>4. wq \in [Ids -> 0 .. SessionWriteQueue]
  BY WorkerCaps DEF Init
<1>5. op \in [Ids -> OpenStages] /\ wr \in [Ids -> WriterStages] /\ rdr \in [Ids -> ReaderStages]
  BY DEF Init, OpenStages, WriterStages, ReaderStages
<1>6. StageInv
  BY DEF Init, StageInv
<1> QED
  BY <1>1, <1>2, <1>3, <1>4, <1>5, <1>6 DEF Init, TypeOK

\* TypeOK and StageInv always hold.
LEMMA WorkerTypeAndStage == Spec => [](TypeOK /\ StageInv)
  BY WorkerTypeInit, TypeStep, PTL DEF Spec

\* Every variable keeps its type; the queues never exceed their capacity and
\* the reconnection delay never exceeds its limit.
THEOREM WorkerTypeCorrect == Spec => []TypeOK
  BY WorkerTypeAndStage, PTL

\* TargetHasOwner always holds: setConn and close never lose a target socket,
\* however openTCP, CmdClose, a failing write, the end of the target's stream,
\* a disconnect and a signal interleave.
THEOREM TargetSafe == Spec => []TargetHasOwner
<1>1. Init => OwnerInv
  BY DEF Init, OwnerInv
<1>2. OwnerInv => TargetHasOwner
  BY DEF OwnerInv, TargetHasOwner
<1> QED
  BY <1>1, <1>2, WorkerTypeAndStage, OwnerStep, PTL DEF Spec

-----------------------------------------------------------------------------
(* EndIsReported.                                                          *)

\* LinkInv is preserved by every step.
LEMMA LinkStep ==
    TypeOK /\ StageInv /\ LinkInv /\ [Next]_vars => LinkInv'
<1> SUFFICES ASSUME TypeOK, StageInv, LinkInv, [Next]_vars PROVE LinkInv'
  OBVIOUS
<1> USE DEF mainVars, linkVars, sessVars, goVars, histVars, Conns
<1>0. CASE UNCHANGED vars
  BY <1>0 DEF vars, LinkInv, StageInv
<1>1. ASSUME Cancel
      PROVE  LinkInv'
  BY <1>1 DEF Cancel, TypeOK, LinkInv, StageInv
<1>2. ASSUME Watch
      PROVE  LinkInv'
  BY <1>2 DEF Watch, TypeOK, LinkInv, StageInv
<1>3. ASSUME Dial
      PROVE  LinkInv'
  BY <1>3 DEF Dial, TypeOK, LinkInv, StageInv
<1>4. ASSUME Sleep
      PROVE  LinkInv'
  BY <1>4 DEF Sleep, TypeOK, LinkInv, StageInv
<1>5. ASSUME ReadFails
      PROVE  LinkInv'
  BY <1>5 DEF ReadFails, TypeOK, LinkInv, StageInv
<1>6. ASSUME MainDelete
      PROVE  LinkInv'
  BY <1>6 DEF MainDelete, TypeOK, LinkInv, StageInv
<1>7. ASSUME MainReply
      PROVE  LinkInv'
  BY <1>7 DEF MainReply, TypeOK, LinkInv, StageInv
<1>8. ASSUME RangeDelete
      PROVE  LinkInv'
  BY <1>8 DEF RangeDelete, TypeOK, LinkInv, StageInv
<1>9. ASSUME RangeEnd
      PROVE  LinkInv'
  BY <1>9 DEF RangeEnd, TypeOK, LinkInv, StageInv
<1>10. ASSUME NEW id \in Ids, Connect(id)
      PROVE  LinkInv'
  BY <1>10 DEF Connect, TypeOK, LinkInv, StageInv
<1>11. ASSUME NEW id \in Ids, Data(id)
      PROVE  LinkInv'
  BY <1>11 DEF Data, TypeOK, LinkInv, StageInv, CloseBegin
<1>12. ASSUME NEW id \in Ids, Close(id)
      PROVE  LinkInv'
  BY <1>12 DEF Close, TypeOK, LinkInv, StageInv, CloseBegin
<1>13. ASSUME NEW id \in Ids, RangeVisit(id)
      PROVE  LinkInv'
  BY <1>13 DEF RangeVisit, TypeOK, LinkInv, StageInv, CloseBegin
<1>14. ASSUME NEW c \in Conns, BrokerWrite(c)
      PROVE  LinkInv'
  BY <1>14 DEF BrokerWrite, TypeOK, LinkInv, StageInv
<1>15. ASSUME NEW c \in Conns, BrokerWriteFails(c)
      PROVE  LinkInv'
  BY <1>15 DEF BrokerWriteFails, TypeOK, LinkInv, StageInv
<1>16. ASSUME NEW id \in Ids, CloseEnd(id)
      PROVE  LinkInv'
  BY <1>16 DEF CloseEnd, TypeOK, LinkInv, StageInv
<1>17. ASSUME NEW id \in Ids, OpenStore(id)
      PROVE  LinkInv'
  BY <1>17 DEF OpenStore, TypeOK, LinkInv, StageInv
<1>18. ASSUME NEW id \in Ids, OpenCancelled(id)
      PROVE  LinkInv'
  BY <1>18 DEF OpenCancelled, TypeOK, LinkInv, StageInv, CloseBegin
<1>19. ASSUME NEW id \in Ids, OpenDial(id)
      PROVE  LinkInv'
  BY <1>19 DEF OpenDial, TypeOK, LinkInv, StageInv
<1>20. ASSUME NEW id \in Ids, OpenFailed(id)
      PROVE  LinkInv'
  BY <1>20 DEF OpenFailed, TypeOK, LinkInv, StageInv
<1>21. ASSUME NEW id \in Ids, OpenDropped(id)
      PROVE  LinkInv'
  BY <1>21 DEF OpenDropped, TypeOK, LinkInv, StageInv, CloseBegin
<1>22. ASSUME NEW id \in Ids, OpenSetConn(id)
      PROVE  LinkInv'
  BY <1>22 DEF OpenSetConn, TypeOK, LinkInv, StageInv
<1>23. ASSUME NEW id \in Ids, OpenConnected(id)
      PROVE  LinkInv'
  BY <1>23 DEF OpenConnected, TypeOK, LinkInv, StageInv, CloseBegin
<1>24. ASSUME NEW id \in Ids, OpenAbort(id)
      PROVE  LinkInv'
  BY <1>24 DEF OpenAbort, TypeOK, LinkInv, StageInv
<1>25. ASSUME NEW id \in Ids, SessionWrite(id)
      PROVE  LinkInv'
  BY <1>25 DEF SessionWrite, TypeOK, LinkInv, StageInv, CloseBegin
<1>26. ASSUME NEW id \in Ids, SessionWriterDelete(id)
      PROVE  LinkInv'
  BY <1>26 DEF SessionWriterDelete, TypeOK, LinkInv, StageInv
<1>27. ASSUME NEW id \in Ids, SessionWriterStop(id)
      PROVE  LinkInv'
  BY <1>27 DEF SessionWriterStop, TypeOK, LinkInv, StageInv
<1>28. ASSUME NEW id \in Ids, ReaderStart(id)
      PROVE  LinkInv'
  BY <1>28 DEF ReaderStart, TypeOK, LinkInv, StageInv
<1>29. ASSUME NEW id \in Ids, ReaderRead(id)
      PROVE  LinkInv'
  BY <1>29 DEF ReaderRead, TypeOK, LinkInv, StageInv
<1>30. ASSUME NEW id \in Ids, ReaderSend(id)
      PROVE  LinkInv'
  BY <1>30 DEF ReaderSend, TypeOK, LinkInv, StageInv
<1>31. ASSUME NEW id \in Ids, ReaderClose(id)
      PROVE  LinkInv'
  BY <1>31 DEF ReaderClose, TypeOK, LinkInv, StageInv, CloseBegin
<1>32. ASSUME NEW id \in Ids, ReaderDelete(id)
      PROVE  LinkInv'
  BY <1>32 DEF ReaderDelete, TypeOK, LinkInv, StageInv
<1>33. ASSUME NEW id \in Ids, ReaderReport(id)
      PROVE  LinkInv'
  BY <1>33 DEF ReaderReport, TypeOK, LinkInv, StageInv
<1> QED
  BY <1>0, <1>1, <1>2, <1>3, <1>4, <1>5, <1>6, <1>7, <1>8, <1>9, <1>10, <1>11, <1>12, <1>13,
     <1>14, <1>15, <1>16, <1>17, <1>18, <1>19, <1>20, <1>21, <1>22, <1>23, <1>24, <1>25, <1>26,
     <1>27, <1>28, <1>29, <1>30, <1>31, <1>32, <1>33 DEF Next, Running, Exited, Main, Open,
     SessionWriter, RemoteReader

\* What a channel holds after sendPacket was there before, or is the new packet.
LEMMA QueuedElements ==
    ASSUME TypeOK, NEW c \in Conns, NEW id \in Ids, NEW cmd \in {"Connected", "Data", "Close"},
           Queued(c, id, cmd) \/ GiveUp(c), NEW d \in Conns, NEW i \in 1 .. Len(send'[d])
    PROVE  \/ i \in 1 .. Len(send[d]) /\ send'[d][i] = send[d][i]
           \/ send'[d][i] = [id |-> id, cmd |-> cmd]
<1> DEFINE m == [id |-> id, cmd |-> cmd]
<1>1. CASE GiveUp(c) \/ (Queued(c, id, cmd) /\ d # c)
  BY <1>1 DEF GiveUp, Queued, TypeOK
<1>2. CASE Queued(c, id, cmd) /\ d = c
  <2>1. send[c] \in Seq(Packet) /\ m \in Packet
    BY DEF TypeOK, Packet
  <2>2. send'[c] = Append(send[c], m)
    BY <1>2 DEF Queued, TypeOK
  <2> HIDE DEF m
  <2>3. (i \in 1 .. Len(send[c]) /\ send'[c][i] = send[c][i]) \/ send'[c][i] = m
    BY <1>2, <2>1, <2>2
  <2> QED
    BY <1>2, <2>3 DEF m
<1> QED
  BY <1>1, <1>2

\* sendPacket keeps ConnectedInv's promise about the channels, if the session
\* of a CmdConnected has had a reader.
LEMMA QueuedConnected ==
    ASSUME TypeOK, ConnectedInv, NEW c \in Conns, NEW id \in Ids,
           NEW cmd \in {"Connected", "Data", "Close"}, Queued(c, id, cmd) \/ GiveUp(c),
           cmd = "Connected" => rdr[id] # "none",
           \A j \in Ids : rdr[j] # "none" => rdr'[j] # "none"
    PROVE  \A d \in Conns : \A i \in 1 .. Len(send'[d]) :
             send'[d][i].cmd = "Connected" => rdr'[send'[d][i].id] # "none"
<1> SUFFICES ASSUME NEW d \in Conns, NEW i \in 1 .. Len(send'[d]),
                    send'[d][i].cmd = "Connected"
             PROVE  rdr'[send'[d][i].id] # "none"
  OBVIOUS
<1>1. CASE i \in 1 .. Len(send[d]) /\ send'[d][i] = send[d][i]
  <2>1. send[d] \in Seq(Packet)
    BY DEF TypeOK
  <2>2. send[d][i] \in Packet
    BY <1>1, <2>1
  <2> QED
    BY <1>1, <2>2 DEF ConnectedInv, Packet
<1>2. CASE send'[d][i] = [id |-> id, cmd |-> cmd]
  BY <1>2
<1> QED
  BY <1>1, <1>2, QueuedElements

\* Packets are about sessions.
LEMMA PacketIds ==
    ASSUME TypeOK, NEW d \in Conns, NEW i \in 1 .. Len(send[d])
    PROVE  send[d][i].id \in Ids
<1>1. send[d] \in Seq(Packet)
  BY DEF TypeOK
<1>2. send[d][i] \in Packet
  BY <1>1
<1> QED
  BY <1>2 DEF Packet

\* ConnectedInv is preserved by every step.
LEMMA ConnectedStep ==
    TypeOK /\ StageInv /\ ConnectedInv /\ [Next]_vars => ConnectedInv'
<1> SUFFICES ASSUME TypeOK, StageInv, ConnectedInv, [Next]_vars PROVE ConnectedInv'
  OBVIOUS
<1> USE DEF mainVars, linkVars, sessVars, goVars, histVars
<1>0. CASE UNCHANGED vars
  BY <1>0 DEF vars, ConnectedInv, StageInv
<1>1. ASSUME Cancel
      PROVE  ConnectedInv'
  BY <1>1 DEF Cancel, TypeOK, ConnectedInv, StageInv
<1>2. ASSUME Watch
      PROVE  ConnectedInv'
  BY <1>2 DEF Watch, TypeOK, ConnectedInv, StageInv
<1>3. ASSUME Dial
      PROVE  ConnectedInv'
  BY <1>3 DEF Dial, TypeOK, ConnectedInv, StageInv
<1>4. ASSUME Sleep
      PROVE  ConnectedInv'
  BY <1>4 DEF Sleep, TypeOK, ConnectedInv, StageInv
<1>5. ASSUME ReadFails
      PROVE  ConnectedInv'
  BY <1>5 DEF ReadFails, TypeOK, ConnectedInv, StageInv
<1>6. ASSUME MainDelete
      PROVE  ConnectedInv'
  BY <1>6 DEF MainDelete, TypeOK, ConnectedInv, StageInv
<1>7. ASSUME MainReply
      PROVE  ConnectedInv'
  <2>1. k \in Conns /\ hand \in Ids /\ (Queued(k, hand, "Close") \/ GiveUp(k))
    BY <1>7 DEF MainReply, TypeOK, StageInv
  <2>2. \A j \in Ids : rdr[j] # "none" => rdr'[j] # "none"
    BY <1>7 DEF MainReply, TypeOK
  <2>3. \A d \in Conns : \A i \in 1 .. Len(send'[d]) :
          send'[d][i].cmd = "Connected" => rdr'[send'[d][i].id] # "none"
    BY <2>1, <2>2, QueuedConnected
  <2> QED
    BY <1>7, <2>2, <2>3 DEF MainReply, TypeOK, StageInv, ConnectedInv
<1>8. ASSUME RangeDelete
      PROVE  ConnectedInv'
  BY <1>8 DEF RangeDelete, TypeOK, ConnectedInv, StageInv
<1>9. ASSUME RangeEnd
      PROVE  ConnectedInv'
  BY <1>9 DEF RangeEnd, TypeOK, ConnectedInv, StageInv
<1>10. ASSUME NEW id \in Ids, Connect(id)
      PROVE  ConnectedInv'
  BY <1>10 DEF Connect, TypeOK, ConnectedInv, StageInv
<1>11. ASSUME NEW id \in Ids, Data(id)
      PROVE  ConnectedInv'
  BY <1>11 DEF Data, TypeOK, ConnectedInv, StageInv, CloseBegin
<1>12. ASSUME NEW id \in Ids, Close(id)
      PROVE  ConnectedInv'
  BY <1>12 DEF Close, TypeOK, ConnectedInv, StageInv, CloseBegin
<1>13. ASSUME NEW id \in Ids, RangeVisit(id)
      PROVE  ConnectedInv'
  BY <1>13 DEF RangeVisit, TypeOK, ConnectedInv, StageInv, CloseBegin
<1>14. ASSUME NEW c \in Conns, BrokerWrite(c)
      PROVE  ConnectedInv'
  <2>1. send[c] \in Seq(Packet) /\ send[c] # <<>>
    BY <1>14 DEF BrokerWrite, TypeOK
  <2>2. 1 \in 1 .. Len(send[c]) /\ Head(send[c]) = send[c][1] /\ send[c][1] \in Packet
    BY <2>1
  <2>3. \A id \in seen' : rdr[id] # "none"
    BY <1>14, <2>2 DEF BrokerWrite, ConnectedInv, Packet, TypeOK
  <2>4. \A i \in 1 .. Len(Tail(send[c])) :
          i + 1 \in 1 .. Len(send[c]) /\ Tail(send[c])[i] = send[c][i + 1]
    BY <2>1
  <2>5. \A d \in Conns : send'[d] = IF d = c THEN Tail(send[c]) ELSE send[d]
    BY <1>14 DEF BrokerWrite, TypeOK
  <2>6. \A d \in Conns : \A i \in 1 .. Len(send'[d]) :
          send'[d][i].cmd = "Connected" => rdr[send'[d][i].id] # "none"
    <3> SUFFICES ASSUME NEW d \in Conns, NEW i \in 1 .. Len(send'[d]),
                        send'[d][i].cmd = "Connected"
                 PROVE  rdr[send'[d][i].id] # "none"
      OBVIOUS
    <3>1. CASE d = c
      <4>1. i \in 1 .. Len(Tail(send[c])) /\ send'[d][i] = Tail(send[c])[i]
        BY <2>5, <3>1
      <4>2. i + 1 \in 1 .. Len(send[c]) /\ send'[d][i] = send[c][i + 1]
        BY <2>4, <4>1
      <4> QED
        BY <4>2 DEF ConnectedInv
    <3>2. CASE d # c
      BY <2>5, <3>2 DEF ConnectedInv
    <3> QED
      BY <3>1, <3>2
  <2> QED
    BY <1>14, <2>3, <2>6 DEF BrokerWrite, ConnectedInv, TypeOK
<1>15. ASSUME NEW c \in Conns, BrokerWriteFails(c)
      PROVE  ConnectedInv'
  BY <1>15 DEF BrokerWriteFails, TypeOK, ConnectedInv, StageInv
<1>16. ASSUME NEW id \in Ids, CloseEnd(id)
      PROVE  ConnectedInv'
  BY <1>16 DEF CloseEnd, TypeOK, ConnectedInv, StageInv
<1>17. ASSUME NEW id \in Ids, OpenStore(id)
      PROVE  ConnectedInv'
  BY <1>17 DEF OpenStore, TypeOK, ConnectedInv, StageInv
<1>18. ASSUME NEW id \in Ids, OpenCancelled(id)
      PROVE  ConnectedInv'
  BY <1>18 DEF OpenCancelled, TypeOK, ConnectedInv, StageInv, CloseBegin
<1>19. ASSUME NEW id \in Ids, OpenDial(id)
      PROVE  ConnectedInv'
  BY <1>19 DEF OpenDial, TypeOK, ConnectedInv, StageInv
<1>20. ASSUME NEW id \in Ids, OpenFailed(id)
      PROVE  ConnectedInv'
  <2>1. ep[id] \in Conns /\ id \in Ids /\ (Queued(ep[id], id, "Close") \/ GiveUp(ep[id]))
    BY <1>20 DEF OpenFailed, TypeOK, StageInv
  <2>2. \A j \in Ids : rdr[j] # "none" => rdr'[j] # "none"
    BY <1>20 DEF OpenFailed, TypeOK
  <2>3. \A d \in Conns : \A i \in 1 .. Len(send'[d]) :
          send'[d][i].cmd = "Connected" => rdr'[send'[d][i].id] # "none"
    BY <2>1, <2>2, QueuedConnected
  <2> QED
    BY <1>20, <2>2, <2>3 DEF OpenFailed, TypeOK, StageInv, ConnectedInv
<1>21. ASSUME NEW id \in Ids, OpenDropped(id)
      PROVE  ConnectedInv'
  BY <1>21 DEF OpenDropped, TypeOK, ConnectedInv, StageInv, CloseBegin
<1>22. ASSUME NEW id \in Ids, OpenSetConn(id)
      PROVE  ConnectedInv'
  <2>1. \A j \in Ids : rdr[j] # "none" => rdr'[j] # "none"
    BY <1>22 DEF OpenSetConn, TypeOK
  <2>2. \A d \in Conns : \A i \in 1 .. Len(send[d]) : send[d][i].id \in Ids
    BY PacketIds
  <2> QED
    BY <1>22, <2>1, <2>2 DEF OpenSetConn, TypeOK, StageInv, ConnectedInv
<1>23. ASSUME NEW id \in Ids, OpenConnected(id)
      PROVE  ConnectedInv'
  <2>1. ep[id] \in Conns /\ id \in Ids /\ (Queued(ep[id], id, "Connected") \/ GiveUp(ep[id]))
    BY <1>23 DEF OpenConnected, TypeOK, StageInv
  <2>2. \A j \in Ids : rdr[j] # "none" => rdr'[j] # "none"
    BY <1>23 DEF OpenConnected, TypeOK
  <2>3. \A d \in Conns : \A i \in 1 .. Len(send'[d]) :
          send'[d][i].cmd = "Connected" => rdr'[send'[d][i].id] # "none"
    BY <1>23, <2>1, <2>2, QueuedConnected DEF OpenConnected, ConnectedInv
  <2> QED
    BY <1>23, <2>2, <2>3 DEF OpenConnected, TypeOK, StageInv, ConnectedInv
<1>24. ASSUME NEW id \in Ids, OpenAbort(id)
      PROVE  ConnectedInv'
  BY <1>24 DEF OpenAbort, TypeOK, ConnectedInv, StageInv
<1>25. ASSUME NEW id \in Ids, SessionWrite(id)
      PROVE  ConnectedInv'
  BY <1>25 DEF SessionWrite, TypeOK, ConnectedInv, StageInv, CloseBegin
<1>26. ASSUME NEW id \in Ids, SessionWriterDelete(id)
      PROVE  ConnectedInv'
  BY <1>26 DEF SessionWriterDelete, TypeOK, ConnectedInv, StageInv
<1>27. ASSUME NEW id \in Ids, SessionWriterStop(id)
      PROVE  ConnectedInv'
  BY <1>27 DEF SessionWriterStop, TypeOK, ConnectedInv, StageInv
<1>28. ASSUME NEW id \in Ids, ReaderStart(id)
      PROVE  ConnectedInv'
  <2>1. \A j \in Ids : rdr[j] # "none" => rdr'[j] # "none"
    BY <1>28 DEF ReaderStart, TypeOK
  <2>2. \A d \in Conns : \A i \in 1 .. Len(send[d]) : send[d][i].id \in Ids
    BY PacketIds
  <2> QED
    BY <1>28, <2>1, <2>2 DEF ReaderStart, TypeOK, StageInv, ConnectedInv
<1>29. ASSUME NEW id \in Ids, ReaderRead(id)
      PROVE  ConnectedInv'
  <2>1. \A j \in Ids : rdr[j] # "none" => rdr'[j] # "none"
    BY <1>29 DEF ReaderRead, TypeOK
  <2>2. \A d \in Conns : \A i \in 1 .. Len(send[d]) : send[d][i].id \in Ids
    BY PacketIds
  <2> QED
    BY <1>29, <2>1, <2>2 DEF ReaderRead, TypeOK, StageInv, ConnectedInv
<1>30. ASSUME NEW id \in Ids, ReaderSend(id)
      PROVE  ConnectedInv'
  <2>1. ep[id] \in Conns /\ id \in Ids /\ (Queued(ep[id], id, "Data") \/ GiveUp(ep[id]))
    BY <1>30 DEF ReaderSend, TypeOK, StageInv
  <2>2. \A j \in Ids : rdr[j] # "none" => rdr'[j] # "none"
    BY <1>30 DEF ReaderSend, TypeOK
  <2>3. \A d \in Conns : \A i \in 1 .. Len(send'[d]) :
          send'[d][i].cmd = "Connected" => rdr'[send'[d][i].id] # "none"
    BY <2>1, <2>2, QueuedConnected
  <2> QED
    BY <1>30, <2>2, <2>3 DEF ReaderSend, TypeOK, StageInv, ConnectedInv
<1>31. ASSUME NEW id \in Ids, ReaderClose(id)
      PROVE  ConnectedInv'
  <2>1. \A j \in Ids : rdr[j] # "none" => rdr'[j] # "none"
    BY <1>31 DEF ReaderClose, TypeOK, CloseBegin
  <2>2. \A d \in Conns : \A i \in 1 .. Len(send[d]) : send[d][i].id \in Ids
    BY PacketIds
  <2> QED
    BY <1>31, <2>1, <2>2 DEF ReaderClose, TypeOK, StageInv, ConnectedInv, CloseBegin
<1>32. ASSUME NEW id \in Ids, ReaderDelete(id)
      PROVE  ConnectedInv'
  <2>1. \A j \in Ids : rdr[j] # "none" => rdr'[j] # "none"
    BY <1>32 DEF ReaderDelete, TypeOK
  <2>2. \A d \in Conns : \A i \in 1 .. Len(send[d]) : send[d][i].id \in Ids
    BY PacketIds
  <2> QED
    BY <1>32, <2>1, <2>2 DEF ReaderDelete, TypeOK, StageInv, ConnectedInv
<1>33. ASSUME NEW id \in Ids, ReaderReport(id)
      PROVE  ConnectedInv'
  <2>1. ep[id] \in Conns /\ id \in Ids /\ (Queued(ep[id], id, "Close") \/ GiveUp(ep[id]))
    BY <1>33 DEF ReaderReport, TypeOK, StageInv
  <2>2. \A j \in Ids : rdr[j] # "none" => rdr'[j] # "none"
    BY <1>33 DEF ReaderReport, TypeOK
  <2>3. \A d \in Conns : \A i \in 1 .. Len(send'[d]) :
          send'[d][i].cmd = "Connected" => rdr'[send'[d][i].id] # "none"
    BY <2>1, <2>2, QueuedConnected
  <2> QED
    BY <1>33, <2>2, <2>3 DEF ReaderReport, TypeOK, StageInv, ConnectedInv
<1> QED
  BY <1>0, <1>1, <1>2, <1>3, <1>4, <1>5, <1>6, <1>7, <1>8, <1>9, <1>10, <1>11, <1>12, <1>13,
     <1>14, <1>15, <1>16, <1>17, <1>18, <1>19, <1>20, <1>21, <1>22, <1>23, <1>24, <1>25, <1>26,
     <1>27, <1>28, <1>29, <1>30, <1>31, <1>32, <1>33 DEF Next, Running, Exited, Main, Open,
     SessionWriter, RemoteReader

\* What only grows: the signal, the ends of connections, the histories, the
\* owner of a session and the fact that it has had a reader.
LEMMA MonotoneStep ==
    ASSUME TypeOK, StageInv, [Next]_vars
    PROVE  /\ ctx => ctx'
           /\ \A c \in Conns : done[c] => done'[c]
           /\ told \subseteq told' /\ hungup \subseteq hungup'
           /\ \A id \in Ids : ep[id] # None => ep'[id] = ep[id]
           /\ \A id \in Ids : rdr[id] # "none" => rdr'[id] # "none"
<1> DEFINE Goal == /\ ctx => ctx'
                   /\ \A c \in Conns : done[c] => done'[c]
                   /\ told \subseteq told' /\ hungup \subseteq hungup'
                   /\ \A id \in Ids : ep[id] # None => ep'[id] = ep[id]
                   /\ \A id \in Ids : rdr[id] # "none" => rdr'[id] # "none"
<1> SUFFICES Goal
  OBVIOUS
<1> USE DEF mainVars, linkVars, sessVars, goVars, histVars, TypeOK
<1>1. CASE UNCHANGED vars \/ Cancel \/ Watch
  BY <1>1 DEF vars, Cancel, Watch
<1>2. CASE Dial \/ Sleep \/ ReadFails \/ MainDelete \/ RangeDelete \/ RangeEnd
  BY <1>2 DEF Dial, Sleep, ReadFails, MainDelete, RangeDelete, RangeEnd
<1>3. CASE MainReply
  BY <1>3 DEF MainReply, Queued, GiveUp
<1>4. ASSUME NEW id \in Ids, Connect(id) \/ Data(id) \/ Close(id) \/ RangeVisit(id)
      PROVE  Goal
  BY <1>4 DEF Connect, Data, Close, RangeVisit
<1>5. ASSUME NEW c \in Conns, BrokerWrite(c) \/ BrokerWriteFails(c)
      PROVE  Goal
  BY <1>5 DEF BrokerWrite, BrokerWriteFails
<1>6. ASSUME NEW id \in Ids, CloseEnd(id) \/ Open(id)
      PROVE  Goal
  <2>1. UNCHANGED <<ctx, done, hungup, ep>>
    BY <1>6 DEF CloseEnd, Open, OpenStore, OpenCancelled, OpenDial, OpenFailed, OpenDropped,
       OpenSetConn, OpenConnected, OpenAbort
  <2>2. told \subseteq told'
    BY <1>6 DEF CloseEnd, Open, OpenStore, OpenCancelled, OpenDial, OpenFailed, OpenDropped,
       OpenSetConn, OpenConnected, OpenAbort, Queued, GiveUp
  <2>3. UNCHANGED rdr \/ rdr' = [rdr EXCEPT ![id] = "spawned"]
    BY <1>6 DEF CloseEnd, Open, OpenStore, OpenCancelled, OpenDial, OpenFailed, OpenDropped,
       OpenSetConn, OpenConnected, OpenAbort
  <2> QED
    BY <2>1, <2>2, <2>3
<1>7. ASSUME NEW id \in Ids, SessionWriter(id)
      PROVE  Goal
  BY <1>7 DEF SessionWriter, SessionWrite, SessionWriterDelete, SessionWriterStop
<1>8. ASSUME NEW id \in Ids, RemoteReader(id)
      PROVE  Goal
  <2>1. UNCHANGED <<ctx, done, hungup, ep>>
    BY <1>8 DEF RemoteReader, ReaderStart, ReaderRead, ReaderSend, ReaderClose, ReaderDelete,
       ReaderReport
  <2>2. told \subseteq told'
    BY <1>8 DEF RemoteReader, ReaderStart, ReaderRead, ReaderSend, ReaderClose, ReaderDelete,
       ReaderReport, Queued, GiveUp
  <2>3. \A j \in Ids : rdr[j] # "none" => rdr'[j] # "none"
    BY <1>8 DEF RemoteReader, ReaderStart, ReaderRead, ReaderSend, ReaderClose, ReaderDelete,
       ReaderReport
  <2> QED
    BY <2>1, <2>2, <2>3
<1> HIDE DEF Goal
<1> QED
  BY <1>1, <1>2, <1>3, <1>4, <1>5, <1>6, <1>7, <1>8 DEF Next, Running, Exited, Main

\* Once excused, always excused; a reader that has started is never forgotten.
LEMMA ExcusedStays ==
    ASSUME TypeOK, StageInv, [Next]_vars, NEW id \in Ids, ep[id] # None
    PROVE  /\ ep'[id] = ep[id]
           /\ Excused(id) => Excused(id)'
           /\ rdr[id] # "none" => rdr'[id] # "none"
<1>1. ep[id] \in Conns
  BY DEF TypeOK
<1> QED
  BY <1>1, MonotoneStep DEF Excused

\* ReportInv is preserved by every step.
LEMMA ReportStep ==
    TypeOK /\ StageInv /\ LinkInv /\ ConnectedInv /\ ReportInv /\ [Next]_vars => ReportInv'
<1> SUFFICES ASSUME TypeOK, StageInv, LinkInv, ConnectedInv, ReportInv, [Next]_vars PROVE ReportInv'
  OBVIOUS
<1> USE DEF mainVars, linkVars, sessVars, goVars, histVars
<1>m. /\ \A id \in Ids : ep[id] # None =>
           ep'[id] = ep[id] /\ (Excused(id) => Excused(id)')
      /\ \A id \in Ids : rdr[id] # "none" => rdr'[id] # "none"
      /\ hungup \subseteq hungup'
  BY MonotoneStep, ExcusedStays
<1>0. CASE UNCHANGED vars
  BY <1>0, <1>m DEF vars, ReportInv, StageInv
<1>1. ASSUME Cancel
      PROVE  ReportInv'
  BY <1>m, <1>1 DEF Cancel, TypeOK, ReportInv, StageInv
<1>2. ASSUME Watch
      PROVE  ReportInv'
  BY <1>m, <1>2 DEF Watch, TypeOK, ReportInv, StageInv
<1>3. ASSUME Dial
      PROVE  ReportInv'
  BY <1>m, <1>3 DEF Dial, TypeOK, ReportInv, StageInv
<1>4. ASSUME Sleep
      PROVE  ReportInv'
  BY <1>m, <1>4 DEF Sleep, TypeOK, ReportInv, StageInv
<1>5. ASSUME ReadFails
      PROVE  ReportInv'
  BY <1>m, <1>5 DEF ReadFails, TypeOK, ReportInv, StageInv
<1>6. ASSUME MainDelete
      PROVE  ReportInv'
  BY <1>m, <1>6 DEF MainDelete, TypeOK, ReportInv, StageInv
<1>7. ASSUME MainReply
      PROVE  ReportInv'
  BY <1>m, <1>7 DEF MainReply, TypeOK, ReportInv, StageInv
<1>8. ASSUME RangeDelete
      PROVE  ReportInv'
  BY <1>m, <1>8 DEF RangeDelete, TypeOK, ReportInv, StageInv
<1>9. ASSUME RangeEnd
      PROVE  ReportInv'
  BY <1>m, <1>9 DEF RangeEnd, TypeOK, ReportInv, StageInv
<1>10. ASSUME NEW id \in Ids, Connect(id)
      PROVE  ReportInv'
  BY <1>m, <1>10 DEF Connect, TypeOK, ReportInv, StageInv
<1>11. ASSUME NEW id \in Ids, Data(id)
      PROVE  ReportInv'
  <2>1. ep[id] # None /\ rdr[id] # "none" /\ main' # "closing"
    BY <1>11, WorkerNone DEF Data, StageInv, ConnectedInv
  <2> QED
    BY <1>m, <1>11, <2>1 DEF Data, TypeOK, ReportInv, StageInv, CloseBegin
<1>12. ASSUME NEW id \in Ids, Close(id)
      PROVE  ReportInv'
  <2>1. ep[id] # None /\ ep'[id] # None /\ Excused(id)'
    BY <1>12, WorkerNone DEF Close, StageInv, Excused
  <2> QED
    BY <1>m, <1>12, <2>1 DEF Close, TypeOK, ReportInv, StageInv, CloseBegin
<1>13. ASSUME NEW id \in Ids, RangeVisit(id)
      PROVE  ReportInv'
  <2>1. ep[id] # None /\ Excused(id)'
    <3>1. ep[id] \in Conns /\ ep[id] <= k /\ k \in Nat
      BY <1>m, <1>13 DEF RangeVisit, LinkInv, TypeOK
    <3>2. done[ep[id]]
      BY <1>13, <3>1 DEF RangeVisit, LinkInv, Conns
    <3> QED
      BY <1>13, <3>1, <3>2, WorkerNone DEF RangeVisit, Excused
  <2> QED
    BY <1>m, <1>13, <2>1 DEF RangeVisit, TypeOK, ReportInv, StageInv, CloseBegin
<1>14. ASSUME NEW c \in Conns, BrokerWrite(c)
      PROVE  ReportInv'
  BY <1>m, <1>14 DEF BrokerWrite, TypeOK, ReportInv, StageInv
<1>15. ASSUME NEW c \in Conns, BrokerWriteFails(c)
      PROVE  ReportInv'
  BY <1>m, <1>15 DEF BrokerWriteFails, TypeOK, ReportInv, StageInv
<1>16. ASSUME NEW id \in Ids, CloseEnd(id)
      PROVE  ReportInv'
  BY <1>m, <1>16 DEF CloseEnd, TypeOK, ReportInv, StageInv
<1>17. ASSUME NEW id \in Ids, OpenStore(id)
      PROVE  ReportInv'
  <2>1. ep[id] # None /\ (op'[id] = "stored" \/ Excused(id)')
    BY <1>m, <1>17 DEF OpenStore, StageInv, Excused, TypeOK
  <2> QED
    BY <1>m, <1>17, <2>1 DEF OpenStore, TypeOK, ReportInv, StageInv
<1>18. ASSUME NEW id \in Ids, OpenCancelled(id)
      PROVE  ReportInv'
  <2>1. ep[id] # None /\ Excused(id)'
    BY <1>m, <1>18 DEF OpenCancelled, StageInv, Excused
  <2> QED
    BY <1>m, <1>18, <2>1 DEF OpenCancelled, TypeOK, ReportInv, StageInv, CloseBegin
<1>19. ASSUME NEW id \in Ids, OpenDial(id)
      PROVE  ReportInv'
  <2>1. ep[id] # None /\ (op'[id] \in {"held", "failed"} \/ Excused(id)')
    BY <1>m, <1>19 DEF OpenDial, StageInv, Excused, TypeOK
  <2> QED
    BY <1>m, <1>19, <2>1 DEF OpenDial, TypeOK, ReportInv, StageInv
<1>20. ASSUME NEW id \in Ids, OpenFailed(id)
      PROVE  ReportInv'
  <2>1. ep[id] # None /\ Excused(id)'
    BY <1>m, <1>20 DEF OpenFailed, StageInv, Excused, Queued, GiveUp
  <2> QED
    BY <1>m, <1>20, <2>1 DEF OpenFailed, TypeOK, ReportInv, StageInv
<1>21. ASSUME NEW id \in Ids, OpenDropped(id)
      PROVE  ReportInv'
  <2>1. ep[id] # None /\ Excused(id)'
    BY <1>m, <1>21 DEF OpenDropped, StageInv, Excused
  <2> QED
    BY <1>m, <1>21, <2>1 DEF OpenDropped, TypeOK, ReportInv, StageInv, CloseBegin
<1>22. ASSUME NEW id \in Ids, OpenSetConn(id)
      PROVE  ReportInv'
  <2>1. /\ ep[id] # None
        /\ \/ rdr'[id] = "spawned"
           \/ Excused(id) \/ rdr[id] # "none"
    BY <1>m, <1>22 DEF OpenSetConn, StageInv, ReportInv, TypeOK, SetConnOK
  <2> QED
    BY <1>m, <1>22, <2>1, ZenonT(60) DEF OpenSetConn, TypeOK, ReportInv, StageInv
<1>23. ASSUME NEW id \in Ids, OpenConnected(id)
      PROVE  ReportInv'
  <2>1. ep[id] # None /\ rdr[id] # "none"
    BY <1>m, <1>23 DEF OpenConnected, StageInv, ConnectedInv
  <2> QED
    BY <1>m, <1>23, <2>1 DEF OpenConnected, TypeOK, ReportInv, StageInv, CloseBegin
<1>24. ASSUME NEW id \in Ids, OpenAbort(id)
      PROVE  ReportInv'
  BY <1>m, <1>24 DEF OpenAbort, TypeOK, ReportInv, StageInv
<1>25. ASSUME NEW id \in Ids, SessionWrite(id)
      PROVE  ReportInv'
  <2>1. ep[id] # None /\ rdr[id] # "none"
    BY <1>m, <1>25 DEF SessionWrite, StageInv, ConnectedInv
  <2> QED
    BY <1>m, <1>25, <2>1 DEF SessionWrite, TypeOK, ReportInv, StageInv, CloseBegin
<1>26. ASSUME NEW id \in Ids, SessionWriterDelete(id)
      PROVE  ReportInv'
  BY <1>m, <1>26 DEF SessionWriterDelete, TypeOK, ReportInv, StageInv
<1>27. ASSUME NEW id \in Ids, SessionWriterStop(id)
      PROVE  ReportInv'
  BY <1>m, <1>27 DEF SessionWriterStop, TypeOK, ReportInv, StageInv
<1>28. ASSUME NEW id \in Ids, ReaderStart(id)
      PROVE  ReportInv'
  BY <1>m, <1>28 DEF ReaderStart, TypeOK, ReportInv, StageInv
<1>29. ASSUME NEW id \in Ids, ReaderRead(id)
      PROVE  ReportInv'
  BY <1>m, <1>29 DEF ReaderRead, TypeOK, ReportInv, StageInv
<1>30. ASSUME NEW id \in Ids, ReaderSend(id)
      PROVE  ReportInv'
  BY <1>m, <1>30 DEF ReaderSend, TypeOK, ReportInv, StageInv
<1>31. ASSUME NEW id \in Ids, ReaderClose(id)
      PROVE  ReportInv'
  BY <1>m, <1>31 DEF ReaderClose, TypeOK, ReportInv, StageInv, CloseBegin
<1>32. ASSUME NEW id \in Ids, ReaderDelete(id)
      PROVE  ReportInv'
  BY <1>m, <1>32 DEF ReaderDelete, TypeOK, ReportInv, StageInv
<1>33. ASSUME NEW id \in Ids, ReaderReport(id)
      PROVE  ReportInv'
  <2>1. ep[id] # None /\ Excused(id)'
    BY <1>m, <1>33 DEF ReaderReport, StageInv, Excused, Queued, GiveUp
  <2> QED
    BY <1>m, <1>33, <2>1 DEF ReaderReport, TypeOK, ReportInv, StageInv
<1> QED
  BY <1>0, <1>1, <1>2, <1>3, <1>4, <1>5, <1>6, <1>7, <1>8, <1>9, <1>10, <1>11, <1>12, <1>13,
     <1>14, <1>15, <1>16, <1>17, <1>18, <1>19, <1>20, <1>21, <1>22, <1>23, <1>24, <1>25, <1>26,
     <1>27, <1>28, <1>29, <1>30, <1>31, <1>32, <1>33 DEF Next, Running, Exited, Main, Open,
     SessionWriter, RemoteReader

\* EndIsReported always holds: while the connection that asked for it is up, a
\* session never leaves the table in silence, whichever of main, openTCP,
\* sessionWriter and remoteReader takes it out.
THEOREM EndReported == Spec => []EndIsReported
<1>1. Init => LinkInv /\ ConnectedInv /\ ReportInv
  <2> SUFFICES ASSUME Init PROVE LinkInv /\ ConnectedInv /\ ReportInv
    OBVIOUS
  <2>1. LinkInv
    BY DEF Init, LinkInv, Conns
  <2>2. ConnectedInv
    BY DEF Init, ConnectedInv
  <2>3. ReportInv
    BY DEF Init, ReportInv
  <2> QED
    BY <2>1, <2>2, <2>3
<1>2. TypeOK /\ ReportInv => EndIsReported
  BY DEF TypeOK, ReportInv, EndIsReported, Excused, ReaderStages
<1> QED
  BY <1>1, <1>2, WorkerTypeAndStage, LinkStep, ConnectedStep, ReportStep, PTL DEF Spec

=============================================================================
