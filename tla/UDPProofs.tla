------------------------------ MODULE UDPProofs ------------------------------
(***************************************************************************)
(* TypeOK and OpenIsListed of UDPAssociate, proved for any sets of keys    *)
(* and sources, any plans and any number of sessions.                      *)
(***************************************************************************)
EXTENDS UDPAssociate, TLAPS

\* The key in hand, and the keys after it.
LEMMA RestType ==
    ASSUME TypeOK
    PROVE  /\ <<>> \in Seq(Keys)
           /\ rest # <<>> => Head(rest) \in Keys /\ Tail(rest) \in Seq(Keys)
<1>1. rest \in Seq(Keys)
  BY DEF TypeOK
<1> QED
  BY <1>1

\* A session for the key in hand keeps the type.
LEMMA OpenedType ==
    ASSUME TypeOK, StageInv, loop = "open", Head(rest) \in Keys, Opened,
           UNCHANGED <<relay, control, client, table, closed, mu, done, rd>>
    PROVE  TypeOK' /\ StageInv'
<1> USE UdpNone, UdpBound
<1>1. made \in Nat /\ made + 1 \in 1 .. MaxSessions /\ made' = made + 1
  BY DEF Opened, TypeOK
<1>2. 1 .. made' = 1 .. made \cup {made + 1}
  BY <1>1
<1>3. /\ keyOf' \in [Sessions -> Keys \cup {None}]
      /\ \A s \in 1 .. made : keyOf'[s] = keyOf[s]
      /\ keyOf'[made + 1] = Head(rest)
  BY <1>1 DEF Opened, TypeOK, Sessions
<1>4. cur' = made + 1 /\ loop' = "insert" /\ rest' = rest /\ rest # <<>>
  BY DEF Opened, StageInv
<1>5. StageInv'
  BY <1>1, <1>2, <1>3, <1>4 DEF StageInv, Sessions
<1>6. /\ table' \in [Keys -> 1 .. made' \cup {None}] /\ closed' \subseteq 1 .. made'
      /\ done' \subseteq 1 .. made' /\ cur' \in 1 .. made' \cup {None} /\ made' \in 0 .. MaxSessions
  BY <1>1, <1>2, <1>4 DEF TypeOK
<1>7. \A s \in Sessions :
        mu'[s] = "loop" <=> cur' = s /\ loop' \in {"sending", "dropping", "sweeping"}
  BY <1>4 DEF TypeOK
<1> QED
  BY <1>3, <1>4, <1>5, <1>6, <1>7 DEF TypeOK, LoopStages

\* TypeOK, with StageInv, is preserved by every step.
LEMMA TypeStep ==
    TypeOK /\ StageInv /\ [Next]_vars => TypeOK' /\ StageInv'
<1> SUFFICES ASSUME TypeOK, StageInv, [Next]_vars
             PROVE  TypeOK' /\ StageInv'
  OBVIOUS
<1> USE DEF loopVars, sessVars
<1> USE UdpKeys, UdpNone, UdpBound
<1>0. CASE UNCHANGED vars
  BY <1>0 DEF vars, TypeOK, StageInv, LoopStages, ReaderStages, Sessions
<1>1. ASSUME Listen
      PROVE  TypeOK' /\ StageInv'
  BY <1>1 DEF Listen, TypeOK, StageInv, LoopStages, ReaderStages, Sessions
<1>2. ASSUME Reply
      PROVE  TypeOK' /\ StageInv'
  BY <1>2 DEF Reply, TypeOK, StageInv, LoopStages, ReaderStages, Sessions
<1>3. ASSUME ControlEnds
      PROVE  TypeOK' /\ StageInv'
  BY <1>3 DEF ControlEnds, TypeOK, StageInv, LoopStages, ReaderStages, Sessions
<1>4. ASSUME Check
      PROVE  TypeOK' /\ StageInv'
  BY <1>4 DEF Check, TypeOK, StageInv, LoopStages, ReaderStages, Sessions
<1>5. ASSUME ReadNothing
      PROVE  TypeOK' /\ StageInv'
  BY <1>5 DEF ReadNothing, TypeOK, StageInv, LoopStages, ReaderStages, Sessions
<1>6. ASSUME RelayFails
      PROVE  TypeOK' /\ StageInv'
  BY <1>6 DEF RelayFails, TypeOK, StageInv, LoopStages, ReaderStages, Sessions
<1>7. ASSUME NEW src \in Sources, NEW plan \in Plans, Datagram(src, plan)
      PROVE  TypeOK' /\ StageInv'
  BY <1>7 DEF Datagram, TypeOK, StageInv, LoopStages, ReaderStages, Sessions, Bound, Refused
<1>8. ASSUME Look
      PROVE  TypeOK' /\ StageInv'
  <2> DEFINE h == Head(rest)
  <2>1. h \in Keys /\ table[h] \in 1 .. made \cup {None} /\ loop = "look"
    BY <1>8, RestType DEF Look, TypeOK, StageInv
  <2>2. /\ table' \in [Keys -> 1 .. made \cup {None}] /\ cur' \in 1 .. made \cup {None}
        /\ loop' = "open" \/ (loop' = "send" /\ cur' \in 1 .. made)
    BY <1>8, <2>1 DEF Look, TypeOK
  <2>3. UNCHANGED <<rest, relay, control, client, made, keyOf, sessVars, rd>>
    BY <1>8 DEF Look
  <2> QED
    BY <1>8, <2>1, <2>2, <2>3 DEF TypeOK, StageInv, LoopStages, ReaderStages, Sessions
<1>9. ASSUME OpenDirect
      PROVE  TypeOK' /\ StageInv'
  <2>1. Head(rest) \in Keys /\ Tail(rest) \in Seq(Keys) /\ rest # <<>> /\ loop = "open"
    BY <1>9, RestType DEF OpenDirect, StageInv
  <2>2. UNCHANGED <<relay, control, client, table, closed, mu, done, rd>>
    BY <1>9 DEF OpenDirect
  <2>3. CASE TryNext /\ UNCHANGED <<made, keyOf>>
    BY <2>1, <2>2, <2>3 DEF TryNext, TypeOK, StageInv, LoopStages, ReaderStages, Sessions
  <2>4. CASE Opened
    BY <2>1, <2>2, <2>4, OpenedType
  <2> QED
    BY <1>9, <2>3, <2>4 DEF OpenDirect
<1>10. ASSUME OpenBroker
      PROVE  TypeOK' /\ StageInv'
  <2>1. Head(rest) \in Keys /\ Tail(rest) \in Seq(Keys) /\ rest # <<>> /\ loop = "open"
    BY <1>10, RestType DEF OpenBroker, StageInv
  <2>2. UNCHANGED <<relay, control, client, table, closed, mu, done, rd>>
    BY <1>10 DEF OpenBroker
  <2>3. CASE TryNext /\ UNCHANGED <<made, keyOf>>
    BY <2>1, <2>2, <2>3 DEF TryNext, TypeOK, StageInv, LoopStages, ReaderStages, Sessions
  <2>4. CASE Opened
    BY <2>1, <2>2, <2>4, OpenedType
  <2> QED
    BY <1>10, <2>3, <2>4 DEF OpenBroker
<1>11. ASSUME Insert
      PROVE  TypeOK' /\ StageInv'
  <2>1. /\ cur \in 1 .. made /\ cur \in Sessions /\ Head(rest) \in Keys /\ loop = "insert"
        /\ rest # <<>> /\ rd[cur] = "none"
    BY <1>11, RestType DEF Insert, StageInv, TypeOK, Sessions
  <2>2. table' \in [Keys -> 1 .. made \cup {None}] /\ rd' \in [Sessions -> ReaderStages]
    BY <1>11, <2>1 DEF Insert, TypeOK, ReaderStages
  <2>3. \A s \in Sessions : mu[s] = "reader" <=> rd'[s] = "closing"
    BY <1>11, <2>1 DEF Insert, TypeOK
  <2> QED
    BY <1>11, <2>1, <2>2, <2>3 DEF Insert, TypeOK, StageInv, LoopStages, ReaderStages, Sessions
<1>12. ASSUME SendDirect
      PROVE  TypeOK' /\ StageInv'
  <2>1. cur \in Sessions /\ cur \in 1 .. made /\ rest # <<>>
    BY <1>12 DEF SendDirect, TypeOK, StageInv, Sessions
  <2>2. rest' \in Seq(Keys) /\ cur' \in 1 .. made \cup {None} /\ loop' \in LoopStages
    BY <1>12, RestType DEF SendDirect, DatagramOver, TypeOK, LoopStages
  <2>3. mu' \in [Sessions -> {None, "loop", "reader"}]
    BY <1>12 DEF SendDirect, TypeOK
  <2>4. \A s \in Sessions : mu'[s] = "reader" <=> rd[s] = "closing"
    BY <1>12, <2>1 DEF SendDirect, TypeOK
  <2>5. \A s \in Sessions :
          mu'[s] = "loop" <=> cur' = s /\ loop' \in {"sending", "dropping", "sweeping"}
    BY <1>12, <2>1 DEF SendDirect, DatagramOver, TypeOK
  <2>6. StageInv'
    BY <1>12, <2>1 DEF SendDirect, DatagramOver, StageInv
  <2> QED
    BY <1>12, <2>2, <2>3, <2>4, <2>5, <2>6 DEF SendDirect, TypeOK
<1>13. ASSUME SendBroker
      PROVE  TypeOK' /\ StageInv'
  <2>1. cur \in Sessions /\ cur \in 1 .. made /\ rest # <<>>
    BY <1>13 DEF SendBroker, TypeOK, StageInv, Sessions
  <2>2. rest' \in Seq(Keys) /\ cur' \in 1 .. made \cup {None} /\ loop' \in LoopStages
    BY <1>13, RestType DEF SendBroker, DatagramOver, TypeOK, LoopStages
  <2>3. mu' \in [Sessions -> {None, "loop", "reader"}]
    BY <1>13 DEF SendBroker, TypeOK
  <2>4. \A s \in Sessions : mu'[s] = "reader" <=> rd[s] = "closing"
    BY <1>13, <2>1 DEF SendBroker, TypeOK
  <2>5. \A s \in Sessions :
          mu'[s] = "loop" <=> cur' = s /\ loop' \in {"sending", "dropping", "sweeping"}
    BY <1>13, <2>1 DEF SendBroker, DatagramOver, TypeOK
  <2>6. StageInv'
    BY <1>13, <2>1 DEF SendBroker, DatagramOver, StageInv
  <2> QED
    BY <1>13, <2>2, <2>3, <2>4, <2>5, <2>6 DEF SendBroker, TypeOK
<1>14. ASSUME Sent
      PROVE  TypeOK' /\ StageInv'
  <2>1. cur \in Sessions /\ cur \in 1 .. made /\ rest # <<>>
    BY <1>14 DEF Sent, TypeOK, StageInv, Sessions
  <2>2. rest' \in Seq(Keys) /\ cur' \in 1 .. made \cup {None} /\ loop' \in LoopStages
    BY <1>14, RestType DEF Sent, DatagramOver, TypeOK, LoopStages
  <2>3. mu' \in [Sessions -> {None, "loop", "reader"}]
    BY <1>14 DEF Sent, TypeOK
  <2>4. \A s \in Sessions : mu'[s] = "reader" <=> rd[s] = "closing"
    BY <1>14, <2>1 DEF Sent, TypeOK
  <2>5. \A s \in Sessions :
          mu'[s] = "loop" <=> cur' = s /\ loop' \in {"sending", "dropping", "sweeping"}
    BY <1>14, <2>1 DEF Sent, DatagramOver, TypeOK
  <2>6. StageInv'
    BY <1>14, <2>1 DEF Sent, DatagramOver, StageInv
  <2> QED
    BY <1>14, <2>2, <2>3, <2>4, <2>5, <2>6 DEF Sent, TypeOK
<1>15. ASSUME Drop
      PROVE  TypeOK' /\ StageInv'
  BY <1>15, ZenonT(60) DEF Drop, TypeOK, StageInv, LoopStages, ReaderStages, Sessions, CloseNow,
     CloseBegin, CloseEnd
<1>16. ASSUME LoopForgets
      PROVE  TypeOK' /\ StageInv'
  BY <1>16 DEF LoopForgets, TypeOK, StageInv, LoopStages, ReaderStages, Sessions, TryNext,
     Forgotten
<1>17. ASSUME NEW k \in Keys, Sweep(k)
      PROVE  TypeOK' /\ StageInv'
  <2> DEFINE t == table[k]
  <2>1. t \in 1 .. made /\ t \in Sessions /\ loop = "sweep"
    BY <1>17 DEF Sweep, TypeOK, Sessions
  <2>2. UNCHANGED <<rest, relay, control, client, made, keyOf, rd>>
    BY <1>17 DEF Sweep
  <2>3. CASE CloseNow(t) /\ table' = [table EXCEPT ![k] = None] /\ UNCHANGED <<loop, cur>>
    BY <2>1, <2>2, <2>3 DEF CloseNow, TypeOK, StageInv, LoopStages, ReaderStages, Sessions
  <2>4. CASE CloseBegin(t, "loop") /\ loop' = "sweeping" /\ cur' = t /\ UNCHANGED table
    BY <2>1, <2>2, <2>4, ZenonT(60)
       DEF CloseBegin, TypeOK, StageInv, LoopStages, ReaderStages, Sessions
  <2> QED
    BY <1>17, <2>3, <2>4 DEF Sweep
<1>18. ASSUME Sweeping
      PROVE  TypeOK' /\ StageInv'
  BY <1>18 DEF Sweeping, TypeOK, StageInv, LoopStages, ReaderStages, Sessions, CloseEnd
<1>19. ASSUME EndSweep
      PROVE  TypeOK' /\ StageInv'
  BY <1>19 DEF EndSweep, TypeOK, StageInv, LoopStages, ReaderStages, Sessions
<1>20. ASSUME NEW s \in Sessions, BrokerEnds(s)
      PROVE  TypeOK' /\ StageInv'
  BY <1>20 DEF BrokerEnds, TypeOK, StageInv, LoopStages, ReaderStages, Sessions
<1>21. ASSUME NEW s \in Sessions, ReaderFails(s)
      PROVE  TypeOK' /\ StageInv'
  BY <1>21 DEF ReaderFails, TypeOK, StageInv, LoopStages, ReaderStages, Sessions
<1>22. ASSUME NEW s \in Sessions, ReaderEnds(s)
      PROVE  TypeOK' /\ StageInv'
  BY <1>22 DEF ReaderEnds, TypeOK, StageInv, LoopStages, ReaderStages, Sessions
<1>23. ASSUME NEW s \in Sessions, ReaderCloses(s)
      PROVE  TypeOK' /\ StageInv'
  <2>1. s \in 1 .. made
    BY <1>23 DEF ReaderCloses, StageInv
  <2>2. UNCHANGED <<loop, rest, cur, relay, control, client, table, made, keyOf>>
    BY <1>23 DEF ReaderCloses
  <2>3. CASE rd[s] = "close" /\ CloseNow(s) /\ rd' = [rd EXCEPT ![s] = "forget"]
    <3>1. /\ rd' \in [Sessions -> ReaderStages] /\ closed' \subseteq 1 .. made
          /\ done' \subseteq 1 .. made /\ mu' \in [Sessions -> {None, "loop", "reader"}]
      BY <2>1, <2>3 DEF CloseNow, TypeOK, ReaderStages
    <3>2. /\ \A t \in Sessions : mu'[t] = "reader" <=> rd'[t] = "closing"
          /\ \A t \in Sessions : mu'[t] = "loop" <=> mu[t] = "loop"
      BY <2>1, <2>3 DEF CloseNow, TypeOK
    <3>3. StageInv'
      BY <2>1, <2>2, <2>3 DEF CloseNow, StageInv, TypeOK
    <3> QED
      BY <2>2, <3>1, <3>2, <3>3 DEF TypeOK
  <2>4. CASE rd[s] = "close" /\ CloseBegin(s, "reader") /\ rd' = [rd EXCEPT ![s] = "closing"]
    <3>1. /\ rd' \in [Sessions -> ReaderStages] /\ closed' \subseteq 1 .. made
          /\ done' \subseteq 1 .. made /\ mu' \in [Sessions -> {None, "loop", "reader"}]
      BY <2>1, <2>4 DEF CloseBegin, TypeOK, ReaderStages
    <3>2. /\ \A t \in Sessions : mu'[t] = "reader" <=> rd'[t] = "closing"
          /\ \A t \in Sessions : mu'[t] = "loop" <=> mu[t] = "loop"
      BY <2>1, <2>4 DEF CloseBegin, TypeOK
    <3>3. StageInv'
      BY <2>1, <2>2, <2>4 DEF CloseBegin, StageInv, TypeOK
    <3> QED
      BY <2>2, <3>1, <3>2, <3>3 DEF TypeOK
  <2>5. CASE rd[s] = "closing" /\ CloseEnd(s, "reader") /\ rd' = [rd EXCEPT ![s] = "forget"]
    <3>1. /\ rd' \in [Sessions -> ReaderStages] /\ closed' \subseteq 1 .. made
          /\ done' \subseteq 1 .. made /\ mu' \in [Sessions -> {None, "loop", "reader"}]
      BY <2>1, <2>5 DEF CloseEnd, TypeOK, ReaderStages
    <3>2. /\ \A t \in Sessions : mu'[t] = "reader" <=> rd'[t] = "closing"
          /\ \A t \in Sessions : mu'[t] = "loop" <=> mu[t] = "loop"
      BY <2>1, <2>5 DEF CloseEnd, TypeOK
    <3>3. StageInv'
      BY <2>1, <2>2, <2>5 DEF CloseEnd, StageInv, TypeOK
    <3> QED
      BY <2>2, <3>1, <3>2, <3>3 DEF TypeOK
  <2> QED
    BY <1>23, <2>3, <2>4, <2>5 DEF ReaderCloses
<1>24. ASSUME NEW s \in Sessions, ReaderForgets(s)
      PROVE  TypeOK' /\ StageInv'
  BY <1>24 DEF ReaderForgets, TypeOK, StageInv, LoopStages, ReaderStages, Sessions, Forgotten
<1> QED
  BY <1>0, <1>1, <1>2, <1>3, <1>4, <1>5, <1>6, <1>7, <1>8, <1>9, <1>10, <1>11, <1>12,
     <1>13, <1>14, <1>15, <1>16, <1>17, <1>18, <1>19, <1>20, <1>21, <1>22, <1>23, <1>24
     DEF Next, LoopStep, ReaderStep

\* OpenIsListed, with ListInv, is preserved by every step.
LEMMA ListStep ==
    TypeOK /\ StageInv /\ ListInv /\ OpenIsListed /\ [Next]_vars => ListInv' /\ OpenIsListed'
<1> SUFFICES ASSUME TypeOK, StageInv, ListInv, OpenIsListed, [Next]_vars
             PROVE  ListInv' /\ OpenIsListed'
  OBVIOUS
<1> USE DEF loopVars, sessVars
<1> USE UdpNone, UdpBound
<1>0. CASE UNCHANGED vars
  BY <1>0 DEF vars, TypeOK, StageInv, ListInv, OpenIsListed, Sessions
<1>1. ASSUME Listen
      PROVE  ListInv' /\ OpenIsListed'
  BY <1>1 DEF Listen, TypeOK, StageInv, ListInv, OpenIsListed, Sessions
<1>2. ASSUME Reply
      PROVE  ListInv' /\ OpenIsListed'
  BY <1>2 DEF Reply, TypeOK, StageInv, ListInv, OpenIsListed, Sessions
<1>3. ASSUME ControlEnds
      PROVE  ListInv' /\ OpenIsListed'
  BY <1>3 DEF ControlEnds, TypeOK, StageInv, ListInv, OpenIsListed, Sessions
<1>4. ASSUME Check
      PROVE  ListInv' /\ OpenIsListed'
  BY <1>4 DEF Check, TypeOK, StageInv, ListInv, OpenIsListed, Sessions
<1>5. ASSUME ReadNothing
      PROVE  ListInv' /\ OpenIsListed'
  BY <1>5 DEF ReadNothing, TypeOK, StageInv, ListInv, OpenIsListed, Sessions
<1>6. ASSUME RelayFails
      PROVE  ListInv' /\ OpenIsListed'
  BY <1>6 DEF RelayFails, TypeOK, StageInv, ListInv, OpenIsListed, Sessions
<1>7. ASSUME NEW src \in Sources, NEW plan \in Plans, Datagram(src, plan)
      PROVE  ListInv' /\ OpenIsListed'
  BY <1>7 DEF Datagram, TypeOK, StageInv, ListInv, OpenIsListed, Sessions, Bound, Refused
<1>8. ASSUME Look
      PROVE  ListInv' /\ OpenIsListed'
  <2>1. loop = "look" /\ Head(rest) \in Keys /\ UNCHANGED <<rest, made, keyOf, closed, rd>>
    BY <1>8, RestType DEF Look, StageInv
  <2>2. \A k \in Keys : table'[k] = table[k] \/ (table[k] \in closed /\ table'[k] = None)
    BY <1>8, <2>1 DEF Look, TypeOK
  <2>3. loop' = "send" \/ (loop' = "open" /\ table'[Head(rest)] = None)
    BY <1>8, <2>1 DEF Look, TypeOK
  <2>4. ListInv'
    BY <2>1, <2>2, <2>3 DEF ListInv
  <2>5. OpenIsListed'
    <3> SUFFICES ASSUME NEW t \in 1 .. made, t \notin closed
                 PROVE  table'[keyOf[t]] = t
      BY <2>1 DEF OpenIsListed
    <3>1. keyOf[t] \in Keys /\ table[keyOf[t]] = t
      BY <2>1 DEF StageInv, OpenIsListed
    <3> QED
      BY <2>2, <3>1
  <2> QED
    BY <2>4, <2>5
<1>9. ASSUME OpenDirect
      PROVE  ListInv' /\ OpenIsListed'
  BY <1>9 DEF OpenDirect, TypeOK, StageInv, ListInv, OpenIsListed, Sessions, Opened, TryNext
<1>10. ASSUME OpenBroker
      PROVE  ListInv' /\ OpenIsListed'
  BY <1>10 DEF OpenBroker, TypeOK, StageInv, ListInv, OpenIsListed, Sessions, Opened, TryNext
<1>11. ASSUME Insert
      PROVE  ListInv' /\ OpenIsListed'
  BY <1>11 DEF Insert, TypeOK, StageInv, ListInv, OpenIsListed, Sessions
<1>12. ASSUME SendDirect
      PROVE  ListInv' /\ OpenIsListed'
  BY <1>12 DEF SendDirect, TypeOK, StageInv, ListInv, OpenIsListed, Sessions, DatagramOver
<1>13. ASSUME SendBroker
      PROVE  ListInv' /\ OpenIsListed'
  BY <1>13 DEF SendBroker, TypeOK, StageInv, ListInv, OpenIsListed, Sessions, DatagramOver
<1>14. ASSUME Sent
      PROVE  ListInv' /\ OpenIsListed'
  BY <1>14 DEF Sent, TypeOK, StageInv, ListInv, OpenIsListed, Sessions, DatagramOver
<1>15. ASSUME Drop
      PROVE  ListInv' /\ OpenIsListed'
  BY <1>15 DEF Drop, TypeOK, StageInv, ListInv, OpenIsListed, Sessions, CloseNow, CloseBegin,
     CloseEnd
<1>16. ASSUME LoopForgets
      PROVE  ListInv' /\ OpenIsListed'
  BY <1>16 DEF LoopForgets, TypeOK, StageInv, ListInv, OpenIsListed, Sessions, TryNext,
     Forgotten
<1>17. ASSUME NEW k \in Keys, Sweep(k)
      PROVE  ListInv' /\ OpenIsListed'
  <2> DEFINE t == table[k]
  <2>1. /\ t \in 1 .. made /\ keyOf[t] = k /\ loop = "sweep"
        /\ UNCHANGED <<rest, made, keyOf, rd>>
    BY <1>17 DEF Sweep, TypeOK, ListInv
  <2>2. closed' = closed \cup {t}
    BY <1>17 DEF Sweep, CloseNow, CloseBegin
  <2>3. \/ loop' = "sweep" /\ table' = [table EXCEPT ![k] = None]
        \/ loop' = "sweeping" /\ cur' = t /\ table' = table
    BY <1>17, <2>1 DEF Sweep
  <2> HIDE DEF t
  <2>4. \A x \in Keys : table'[x] = table[x] \/ (table[x] = t /\ table'[x] = None)
    BY <2>3 DEF t, TypeOK
  <2>5. loop' = "sweeping" => table'[keyOf[t]] = t
    BY <2>1, <2>3 DEF t
  <2>6. ListInv'
    BY <2>1, <2>2, <2>3, <2>4, <2>5 DEF ListInv
  <2>7. OpenIsListed'
    <3> SUFFICES ASSUME NEW u \in 1 .. made, u \notin closed, u # t
                 PROVE  table'[keyOf[u]] = u
      BY <2>1, <2>2 DEF OpenIsListed
    <3>1. keyOf[u] \in Keys /\ table[keyOf[u]] = u
      BY <2>1 DEF StageInv, OpenIsListed
    <3> QED
      BY <2>4, <3>1
  <2> QED
    BY <2>6, <2>7
<1>18. ASSUME Sweeping
      PROVE  ListInv' /\ OpenIsListed'
  BY <1>18 DEF Sweeping, TypeOK, StageInv, ListInv, OpenIsListed, Sessions, CloseEnd
<1>19. ASSUME EndSweep
      PROVE  ListInv' /\ OpenIsListed'
  BY <1>19 DEF EndSweep, TypeOK, StageInv, ListInv, OpenIsListed, Sessions
<1>20. ASSUME NEW s \in Sessions, BrokerEnds(s)
      PROVE  ListInv' /\ OpenIsListed'
  BY <1>20 DEF BrokerEnds, TypeOK, StageInv, ListInv, OpenIsListed, Sessions
<1>21. ASSUME NEW s \in Sessions, ReaderFails(s)
      PROVE  ListInv' /\ OpenIsListed'
  BY <1>21 DEF ReaderFails, TypeOK, StageInv, ListInv, OpenIsListed, Sessions
<1>22. ASSUME NEW s \in Sessions, ReaderEnds(s)
      PROVE  ListInv' /\ OpenIsListed'
  BY <1>22 DEF ReaderEnds, TypeOK, StageInv, ListInv, OpenIsListed, Sessions
<1>23. ASSUME NEW s \in Sessions, ReaderCloses(s)
      PROVE  ListInv' /\ OpenIsListed'
  BY <1>23 DEF ReaderCloses, TypeOK, StageInv, ListInv, OpenIsListed, Sessions, CloseNow,
     CloseBegin, CloseEnd
<1>24. ASSUME NEW s \in Sessions, ReaderForgets(s)
      PROVE  ListInv' /\ OpenIsListed'
  <2>1. /\ s \in 1 .. made /\ s \in closed /\ keyOf[s] \in Keys
        /\ loop \notin {"look", "sweep", "sweeping"}
    BY <1>24 DEF ReaderForgets, StageInv, ListInv, SessionsMuFree
  <2>2. \A k \in Keys : table'[k] = table[k] \/ (table[k] = s /\ table'[k] = None)
    BY <1>24, <2>1 DEF ReaderForgets, Forgotten, TypeOK
  <2>3. UNCHANGED <<loop, rest, cur, made, keyOf, closed>>
        /\ \A t \in Sessions : rd'[t] = rd[t] \/ rd'[t] = "ended"
    BY <1>24 DEF ReaderForgets, TypeOK
  <2>4. loop \in {"open", "insert"} => Head(rest) \in Keys
    BY RestType DEF StageInv
  <2>5. ListInv'
    BY <2>1, <2>2, <2>3, <2>4 DEF ListInv
  <2>6. OpenIsListed'
    <3> SUFFICES ASSUME NEW t \in 1 .. made, t \notin closed
                 PROVE  \/ table'[keyOf[t]] = t
                        \/ cur = t /\ loop = "insert" /\ table'[Head(rest)] = None
      BY <2>3 DEF OpenIsListed
    <3>1. keyOf[t] \in Keys /\ t # s
      BY <2>1 DEF StageInv
    <3> QED
      BY <2>2, <2>4, <3>1 DEF OpenIsListed
  <2> QED
    BY <2>5, <2>6
<1> QED
  BY <1>0, <1>1, <1>2, <1>3, <1>4, <1>5, <1>6, <1>7, <1>8, <1>9, <1>10, <1>11, <1>12,
     <1>13, <1>14, <1>15, <1>16, <1>17, <1>18, <1>19, <1>20, <1>21, <1>22, <1>23, <1>24
     DEF Next, LoopStep, ReaderStep

-----------------------------------------------------------------------------
\* TypeOK and StageInv always hold.
LEMMA TypeAndStage == Spec => [](TypeOK /\ StageInv)
<1>1. Init => TypeOK /\ StageInv
  <2> SUFFICES ASSUME Init PROVE TypeOK /\ StageInv
    OBVIOUS
  <2>1. rest \in Seq(Keys) /\ made \in 0 .. MaxSessions /\ made = 0
    BY UdpBound DEF Init
  <2>2. \A s \in Sessions : mu[s] # "reader" /\ mu[s] # "loop"
    BY UdpNone DEF Init
  <2>3. StageInv
    BY <2>1 DEF Init, StageInv
  <2>4. table \in [Keys -> 1 .. made \cup {None}] /\ mu \in [Sessions -> {None, "loop", "reader"}]
    BY DEF Init
  <2>5. \A s \in Sessions : rd[s] = "none"
    BY DEF Init
  <2>6. loop \in LoopStages /\ rd \in [Sessions -> ReaderStages]
    BY DEF Init, LoopStages, ReaderStages
  <2> QED
    BY <2>1, <2>2, <2>3, <2>4, <2>5, <2>6 DEF Init, TypeOK
<1> QED
  BY <1>1, TypeStep, PTL DEF Spec

\* TypeOK always holds: in particular a session's mutex is held exactly by the
\* one goroutine that waits for the broker connection with it.
THEOREM UdpTypeCorrect == Spec => []TypeOK
  BY TypeAndStage, PTL

\* OpenIsListed always holds: no open socket or broker session is ever out of
\* the map, however the loop, the readers and the broker connection interleave.
THEOREM OpenListed == Spec => []OpenIsListed
<1>1. Init => ListInv /\ OpenIsListed
  BY UdpNone DEF Init, ListInv, OpenIsListed
<1> QED
  BY <1>1, TypeAndStage, ListStep, PTL DEF Spec

=============================================================================
