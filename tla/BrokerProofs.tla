---------------------------- MODULE BrokerProofs ----------------------------
(***************************************************************************)
(* TypeOK and the safety invariants of Broker, proved for every choice of  *)
(* the constants: any number of connections, workers, proxies, sessions    *)
(* and channel slots, with or without each kind of event.                  *)
(***************************************************************************)
EXTENDS Broker, TLAPS, WellFoundedInduction

-----------------------------------------------------------------------------
(* The group lists and the channels.                                       *)

\* RemoveFirst of an element that occurs cuts out one occurrence of it.
LEMMA RemoveFirstSplits ==
    ASSUME NEW S, NEW s \in Seq(S), NEW e, \E i \in 1 .. Len(s) : s[i] = e
    PROVE  \E k \in 1 .. Len(s) :
             s[k] = e /\ RemoveFirst(s, e) = SubSeq(s, 1, k - 1) \o SubSeq(s, k + 1, Len(s))
<1> DEFINE I == {i \in 1 .. Len(s) : s[i] = e}
           R == {ss \in Nat \X Nat : ss[1] < ss[2]}
<1>1. I # {} /\ I \subseteq Nat
  OBVIOUS
<1>2. IsWellFoundedOn(R, Nat)
  BY NatLessThanWellFounded DEF OpToRel
<1>3. PICK m \in I : \A y \in I : ~ (<<y, m>> \in R)
  BY <1>1, <1>2, WFMin
<1>4. \A y \in I : m <= y
  <2> SUFFICES ASSUME NEW y \in I PROVE m <= y
    OBVIOUS
  <2>1. y \in Nat /\ m \in Nat
    BY <1>1
  <2>2. ~ (y < m)
    BY <1>3, <2>1
  <2> QED
    BY <2>1, <2>2
<1>5. SelectInSeq(s, LAMBDA v : v = e) \in I
  BY <1>1, <1>4 DEF SelectInSeq, Min
<1>6. RemoveFirst(s, e) = RemoveAt(s, SelectInSeq(s, LAMBDA v : v = e))
  BY DEF RemoveFirst
<1> QED
  BY <1>5, <1>6 DEF RemoveAt

\* RemoveFirst of a sequence over S is a sequence over S.
LEMMA RemoveFirstType ==
    ASSUME NEW S, NEW s \in Seq(S), NEW e
    PROVE  RemoveFirst(s, e) \in Seq(S)
<1>1. CASE \E i \in 1 .. Len(s) : s[i] = e
  <2>1. PICK k \in 1 .. Len(s) :
          RemoveFirst(s, e) = SubSeq(s, 1, k - 1) \o SubSeq(s, k + 1, Len(s))
    BY <1>1, RemoveFirstSplits
  <2>3. SubSeq(s, 1, k - 1) \in Seq(S) /\ SubSeq(s, k + 1, Len(s)) \in Seq(S)
    OBVIOUS
  <2> QED
    BY <2>1, <2>3
<1>2. CASE ~ \E i \in 1 .. Len(s) : s[i] = e
  BY <1>2 DEF RemoveFirst
<1> QED
  BY <1>1, <1>2

\* The elements of a concatenation.
LEMMA ConcatElements ==
    ASSUME NEW S, NEW a \in Seq(S), NEW b \in Seq(S)
    PROVE  /\ Len(a \o b) = Len(a) + Len(b)
           /\ \A i \in 1 .. Len(a) : (a \o b)[i] = a[i]
           /\ \A i \in 1 .. Len(b) : (a \o b)[Len(a) + i] = b[i]
  OBVIOUS

\* c is in the list s of a group's workers.
Listed(s, c) == \E i \in 1 .. Len(s) : s[i] = c

\* removeWorkerFromGroup of one worker keeps every other worker listed.
LEMMA RemoveFirstKeeps ==
    ASSUME NEW S, NEW s \in Seq(S), NEW e, NEW d, d # e, Listed(s, d)
    PROVE  Listed(RemoveFirst(s, e), d)
<1> USE DEF Listed
<1>1. CASE \E i \in 1 .. Len(s) : s[i] = e
  <2>1. PICK k \in 1 .. Len(s) :
          s[k] = e /\ RemoveFirst(s, e) = SubSeq(s, 1, k - 1) \o SubSeq(s, k + 1, Len(s))
    BY <1>1, RemoveFirstSplits
  <2> DEFINE a == SubSeq(s, 1, k - 1)
             b == SubSeq(s, k + 1, Len(s))
  <2>2. RemoveFirst(s, e) = a \o b
    BY <2>1
  <2>3. a \in Seq(S) /\ b \in Seq(S) /\ Len(a) = k - 1 /\ Len(b) = Len(s) - k
    BY <2>1
  <2>4. PICK i \in 1 .. Len(s) : s[i] = d
    OBVIOUS
  <2>5. CASE i < k
    <3>1. i \in 1 .. Len(a) /\ a[i] = d
      BY <2>1, <2>3, <2>4, <2>5
    <3> HIDE DEF a, b
    <3>2. (a \o b)[i] = d /\ i \in 1 .. Len(a \o b)
      BY <2>3, <3>1, ConcatElements
    <3> QED
      BY <2>2, <3>2
  <2>6. CASE i > k
    <3>1. i - k \in 1 .. Len(b) /\ b[i - k] = d
      BY <2>1, <2>3, <2>4, <2>6
    <3> HIDE DEF a, b
    <3>2. (a \o b)[Len(a) + (i - k)] = d /\ Len(a) + (i - k) \in 1 .. Len(a \o b)
      BY <2>3, <3>1, ConcatElements
    <3> QED
      BY <2>2, <3>2
  <2>7. i < k \/ i > k
    BY <2>1, <2>4
  <2> QED
    BY <2>5, <2>6, <2>7
<1>2. CASE ~ \E i \in 1 .. Len(s) : s[i] = e
  BY <1>2 DEF RemoveFirst
<1> QED
  BY <1>1, <1>2

\* sendToWorker keeps the type and the bound of the Worker's channel.
LEMMA SendToWorkerType ==
    ASSUME ChanType, NEW c \in Conns, NEW id \in Ids, NEW cmd \in {"Connect", "Data", "Close"},
           SendToWorker(c, id, cmd)
    PROVE  send' \in [Conns -> Seq(ToWorker)] /\ \A d \in Conns : Len(send'[d]) <= SendCap
<1> DEFINE m == [id |-> id, cmd |-> cmd]
<1>1. send[c] \in Seq(ToWorker) /\ m \in ToWorker
  BY DEF ChanType, ToWorker
<1>2. Append(send[c], m) \in Seq(ToWorker) /\ Len(Append(send[c], m)) = Len(send[c]) + 1
  <2> HIDE DEF m
  <2> QED
    BY <1>1
<1>3. Len(send[c]) \in Nat
  BY <1>1
<1>4. Len(send[c]) + 1 <= SendCap
  BY <1>3, CapsPositive DEF SendToWorker
<1>5. send' = [send EXCEPT ![c] = Append(send[c], m)]
  BY DEF SendToWorker
<1> QED
  BY <1>2, <1>4, <1>5 DEF ChanType

\* ProxyConnection.write keeps the type and the bound of the Proxy's channel.
LEMMA WriteProxyType ==
    ASSUME ChanType, NEW p \in Proxies, NEW id \in Ids,
           NEW cmd \in {"Data", "Close", "Error"}, WriteProxy(p, id, cmd)
    PROVE  psend' \in [Proxies -> Seq(ToProxy)] /\ \A q \in Proxies : Len(psend'[q]) <= ProxyCap
<1> DEFINE m == [id |-> id, cmd |-> cmd]
<1>1. psend[p] \in Seq(ToProxy) /\ m \in ToProxy
  BY DEF ChanType, ToProxy
<1>2. Append(psend[p], m) \in Seq(ToProxy) /\ Len(Append(psend[p], m)) = Len(psend[p]) + 1
  <2> HIDE DEF m
  <2> QED
    BY <1>1
<1>3. Len(psend[p]) \in Nat
  BY <1>1
<1>4. Len(psend[p]) + 1 <= ProxyCap
  BY <1>3, CapsPositive DEF WriteProxy
<1>5. psend' = [psend EXCEPT ![p] = Append(psend[p], m)]
  BY DEF WriteProxy
<1> QED
  BY <1>2, <1>4, <1>5 DEF ChanType

\* So does the end of a session, written to its Proxy.
LEMMA TellProxyType ==
    ASSUME ChanType, SessType, NEW id \in Ids, proxyOf[id] # None,
           NEW cmd \in {"Close", "Error"}, TellProxy(id, cmd)
    PROVE  /\ psend' \in [Proxies -> Seq(ToProxy)]
           /\ \A q \in Proxies : Len(psend'[q]) <= ProxyCap
           /\ told' \in SUBSET Ids
<1>1. proxyOf[id] \in Proxies
  BY DEF SessType
<1>2. CASE WriteProxy(proxyOf[id], id, cmd) /\ told' = told \cup {id}
  BY <1>1, <1>2, WriteProxyType DEF SessType
<1>3. CASE WriteFails(proxyOf[id]) /\ UNCHANGED told
  BY <1>3 DEF WriteFails, ChanType, SessType
<1> QED
  BY <1>2, <1>3 DEF TellProxy

\* removeWorkerFromGroup leaves lists of workers and round-robin counters.
LEMMA DelistType ==
    ASSUME RegType, NEW c \in Conns, NEW g \in AllGroups
    PROVE  Delist(c, g) \in [AllGroups -> Seq(Conns)] /\ DelistRR(c, g) \in [AllGroups -> Nat]
<1>1. groups[g] \in Seq(Conns)
  BY DEF RegType
<1>2. RemoveFirst(groups[g], c) \in Seq(Conns)
  BY <1>1, RemoveFirstType
<1> QED
  BY <1>2 DEF RegType, Delist, DelistRR

\* getWorker's choice from a nonempty group is a worker.
LEMMA TurnType ==
    ASSUME RegType, NEW g \in AllGroups, groups[g] # <<>>
    PROVE  Turn(g) \in Conns
<1> DEFINE n == Len(groups[g])
<1>1. groups[g] \in Seq(Conns) /\ n \in Nat /\ n > 0 /\ rr[g] \in Nat
  BY DEF RegType
<1>2. rr[g] % n \in 0 .. (n - 1)
  <2> HIDE DEF n
  <2> QED
    BY <1>1
<1> QED
  BY <1>1, <1>2 DEF Turn

-----------------------------------------------------------------------------
(* TypeOK.  It is inductive only together with SessionsBound: the session  *)
(* a Proxy handler or a reader has in hand must have a Worker and a Proxy. *)

\* The broker starts well typed, with no session.
LEMMA TypeInit == Init => TypeOK /\ SessionsBound
<1> SUFFICES ASSUME Init PROVE TypeOK /\ SessionsBound
  OBVIOUS
<1> USE GuidOfType, CapsPositive, BoundsType, NoneIsNil, NamesApart DEF AllGroups
<1>1. MainType /\ RemType /\ SyncType /\ ProxyType
  BY DEF Init, MainType, RemType, SyncType, ProxyType, RemStages, ProxyStages, PclStages
<1>2. RegType
  BY DEF Init, RegType, HandlerStages
<1>3. DbType
  BY DEF Init, DbType
<1>4. ChanType
  BY DEF Init, ChanType
<1>5. SessType
  BY DEF Init, SessType
<1>6. SessionsBound
  BY DEF Init, SessionsBound
<1> QED
  BY <1>1, <1>2, <1>3, <1>4, <1>5, <1>6 DEF TypeOK

\* Every step of the broker preserves TypeOK and SessionsBound.
LEMMA TypeStep ==
    TypeOK /\ SessionsBound /\ [Next]_vars => TypeOK' /\ SessionsBound'
<1> SUFFICES ASSUME TypeOK, SessionsBound, [Next]_vars
             PROVE  TypeOK' /\ SessionsBound'
  OBVIOUS
<1> USE GuidOfType, CapsPositive, BoundsType, NoneIsNil, NamesApart
    DEF AllGroups, mainVars, regVars, dbVars, remVars, syncVars, chanVars, sessVars, proxyVars
<1>0. CASE UNCHANGED vars
  BY <1>0 DEF vars, TypeOK, MainType, RegType, DbType, RemType, SyncType, ChanType,
     SessType, ProxyType, SessionsBound
<1>1. ASSUME NEW c \in Conns, WorkerUpgrade(c)
      PROVE  TypeOK' /\ SessionsBound'
  BY <1>1 DEF WorkerUpgrade, HandlerStages, TypeOK, MainType, RegType, DbType, RemType,
     SyncType, ChanType, SessType, ProxyType, SessionsBound
<1>2. ASSUME NEW c \in Conns, WorkerHello(c)
      PROVE  TypeOK' /\ SessionsBound'
  <2>1. MainType' /\ DbType' /\ RemType' /\ SyncType' /\ ChanType' /\ SessType' /\ ProxyType'
    BY <1>2 DEF WorkerHello, TypeOK, MainType, DbType, RemType, SyncType, ChanType,
       SessType, ProxyType
  <2>2. RegType'
    BY <1>2 DEF WorkerHello, HandlerStages, TypeOK, RegType, SessionsBound
  <2>3. SessionsBound'
    BY <1>2 DEF WorkerHello, HandlerStages, TypeOK, SessType, ProxyType, ChanType,
       SessionsBound
  <2> QED
    BY <2>1, <2>2, <2>3 DEF TypeOK
<1>3. ASSUME NEW c \in Conns, RegisterWorker(c)
      PROVE  TypeOK' /\ SessionsBound'
  <2>1. MainType' /\ RemType' /\ SyncType' /\ ChanType' /\ SessType' /\ ProxyType'
    BY <1>3 DEF RegisterWorker, TypeOK, MainType, RemType, SyncType, ChanType, SessType,
       ProxyType
  <2>2. RegType'
    BY <1>3 DEF RegisterWorker, HandlerStages, TypeOK, RegType, SessionsBound
  <2>3. DbType'
    BY <1>3 DEF RegisterWorker, HandlerStages, TypeOK, DbType, SessionsBound
  <2>4. SessionsBound'
    BY <1>3 DEF RegisterWorker, HandlerStages, TypeOK, SessType, ProxyType, ChanType,
       SessionsBound
  <2> QED
    BY <2>1, <2>2, <2>3, <2>4 DEF TypeOK
<1>4. ASSUME NEW c \in Conns, GetWorkerGroup(c)
      PROVE  TypeOK' /\ SessionsBound'
  <2>1. MainType' /\ RemType' /\ SyncType' /\ ChanType' /\ SessType' /\ ProxyType'
    BY <1>4 DEF GetWorkerGroup, TypeOK, MainType, RemType, SyncType, ChanType, SessType,
       ProxyType
  <2>2. RegType'
    <3>1. assigned[GuidOf[c]] \in AllGroups
      BY DEF TypeOK, DbType
    <3> hs \in [Conns -> HandlerStages]
      BY DEF TypeOK, RegType
    <3>2. hs' \in [Conns -> HandlerStages]
      <4>1. PICK st \in {"grouped", "closed"} : hs' = [hs EXCEPT ![c] = st]
        BY <1>4 DEF GetWorkerGroup
      <4> QED
        BY <4>1 DEF HandlerStages
    <3>3. groupName' \in [Conns -> AllGroups]
      BY <1>4, <3>1 DEF GetWorkerGroup, TypeOK, RegType
    <3>4. UNCHANGED <<old, activeWorkers, groups, rr, missed, misplaced>>
      BY <1>4 DEF GetWorkerGroup
    <3> QED
      BY <3>2, <3>3, <3>4 DEF TypeOK, RegType
  <2>3. DbType'
    BY <1>4 DEF GetWorkerGroup, HandlerStages, TypeOK, DbType, SessionsBound
  <2>4. SessionsBound'
    BY <1>4 DEF GetWorkerGroup, HandlerStages, TypeOK, SessType, ProxyType, ChanType,
       SessionsBound
  <2> QED
    BY <2>1, <2>2, <2>3, <2>4 DEF TypeOK
<1>5. ASSUME NEW c \in Conns, LookupOld(c)
      PROVE  TypeOK' /\ SessionsBound'
  <2>1. MainType' /\ DbType' /\ RemType' /\ SyncType' /\ ChanType' /\ SessType' /\ ProxyType'
    BY <1>5 DEF LookupOld, TypeOK, MainType, DbType, RemType, SyncType, ChanType, SessType,
       ProxyType
  <2>2. RegType'
    <3>1. activeWorkers[GuidOf[c]] \in Conns \cup {None}
      BY DEF TypeOK, RegType
    <3> hs \in [Conns -> HandlerStages] /\ old \in [Conns -> Conns \cup {None}]
      BY DEF TypeOK, RegType
    <3>2. PICK st \in {"made", "closed"} : hs' = [hs EXCEPT ![c] = st]
      BY <1>5 DEF LookupOld
    <3>3. old' = [old EXCEPT ![c] = activeWorkers[GuidOf[c]]] \/ old' = old
      BY <1>5 DEF LookupOld
    <3>4. hs' \in [Conns -> HandlerStages] /\ old' \in [Conns -> Conns \cup {None}]
      BY <3>1, <3>2, <3>3 DEF HandlerStages
    <3> QED
      BY <1>5, <3>4 DEF LookupOld, TypeOK, RegType
  <2>3. SessionsBound'
    BY <1>5 DEF LookupOld, HandlerStages, TypeOK, SessType, ProxyType, ChanType,
       SessionsBound
  <2> QED
    BY <2>1, <2>2, <2>3 DEF TypeOK
<1>6. ASSUME NEW c \in Conns, SetActiveWorker(c)
      PROVE  TypeOK' /\ SessionsBound'
  <2>1. MainType' /\ DbType' /\ RemType' /\ SyncType' /\ ChanType' /\ SessType' /\ ProxyType'
    BY <1>6 DEF SetActiveWorker, TypeOK, MainType, DbType, RemType, SyncType, ChanType,
       SessType, ProxyType
  <2>2. RegType'
    <3>1. activeWorkers[GuidOf[c]] \in Conns \cup {None}
      BY DEF TypeOK, RegType
    <3>2. activeWorkers' \in [Guids -> Conns \cup {None}] /\ missed' \in SUBSET Conns
      BY <1>6, <3>1 DEF SetActiveWorker, TypeOK, RegType
    <3>3. hs' \in [Conns -> HandlerStages]
      BY <1>6 DEF SetActiveWorker, HandlerStages, TypeOK, RegType
    <3> QED
      BY <1>6, <3>2, <3>3 DEF SetActiveWorker, TypeOK, RegType
  <2>3. SessionsBound'
    BY <1>6 DEF SetActiveWorker, HandlerStages, TypeOK, SessType, ProxyType, ChanType,
       SessionsBound
  <2> QED
    BY <2>1, <2>2, <2>3 DEF TypeOK
<1>7. ASSUME NEW c \in Conns, AddWorkerToGroup(c)
      PROVE  TypeOK' /\ SessionsBound'
  <2>1. MainType' /\ DbType' /\ RemType' /\ SyncType' /\ ChanType' /\ SessType' /\ ProxyType'
    BY <1>7 DEF AddWorkerToGroup, TypeOK, MainType, DbType, RemType, SyncType, ChanType,
       SessType, ProxyType
  <2>2. RegType'
    <3>1. groupName[c] \in AllGroups /\ groups[groupName[c]] \in Seq(Conns)
      BY DEF TypeOK, RegType
    <3>2. Append(groups[groupName[c]], c) \in Seq(Conns)
      BY <3>1
    <3>3. groups' \in [AllGroups -> Seq(Conns)]
      BY <1>7, <3>1, <3>2 DEF AddWorkerToGroup, TypeOK, RegType
    <3>4. misplaced' \in SUBSET Conns
      BY <1>7 DEF AddWorkerToGroup, TypeOK, RegType
    <3> QED
      BY <1>7, <3>3, <3>4 DEF AddWorkerToGroup, HandlerStages, TypeOK, RegType
  <2>3. SessionsBound'
    BY <1>7 DEF AddWorkerToGroup, HandlerStages, TypeOK, SessType, ProxyType, ChanType,
       SessionsBound
  <2> QED
    BY <2>1, <2>2, <2>3 DEF TypeOK
<1>8. ASSUME NEW c \in Conns, HandlerUp(c)
      PROVE  TypeOK' /\ SessionsBound'
  <2>1. MainType' /\ RegType' /\ DbType' /\ SyncType'
    BY <1>8 DEF HandlerUp, HandlerStages, TypeOK, MainType, RegType, DbType, SyncType
  <2>2. RemType' /\ ChanType'
    BY <1>8 DEF HandlerUp, HandlerStages, TypeOK, RemType, ChanType
  <2>3. SessType' /\ ProxyType'
    BY <1>8 DEF HandlerUp, HandlerStages, TypeOK, SessType, ProxyType
  <2>4. SessionsBound'
    BY <1>8 DEF HandlerUp, HandlerStages, TypeOK, SessType, ProxyType, ChanType, SessionsBound
  <2> QED
    BY <2>1, <2>2, <2>3, <2>4 DEF TypeOK
<1>9. ASSUME NEW c \in Conns, RemoveBegin(c)
      PROVE  TypeOK' /\ SessionsBound'
  <2>1. MainType' /\ DbType' /\ SyncType' /\ ChanType' /\ SessType' /\ ProxyType'
    BY <1>9 DEF RemoveBegin, TypeOK, MainType, DbType, SyncType, ChanType, SessType,
       ProxyType
  <2>2. RegType'
    <3>1. RegType
      BY DEF TypeOK
    <3>2. UNCHANGED <<hs, old, groupName, groups, rr, missed, misplaced>>
      BY <1>9 DEF RemoveBegin
    <3>3. activeWorkers' \in [Guids -> Conns \cup {None}]
      <4>1. activeWorkers' = activeWorkers
            \/ activeWorkers' = [activeWorkers EXCEPT ![GuidOf[c]] = None]
        BY <1>9 DEF RemoveBegin
      <4> QED
        BY ONLY <4>1, <3>1 DEF RegType
    <3> QED
      BY ONLY <3>1, <3>2, <3>3 DEF RegType
  <2>3. RemType'
    BY <1>9 DEF RemoveBegin, RemStages, TypeOK, RemType, SessionsBound
  <2>4. SessionsBound'
    BY <1>9 DEF RemoveBegin, RemStages, TypeOK, SessType, ProxyType, ChanType, SessionsBound
  <2> QED
    BY <2>1, <2>2, <2>3, <2>4 DEF TypeOK
<1>10. ASSUME NEW c \in Conns, RemoveFromGroup(c)
      PROVE  TypeOK' /\ SessionsBound'
  <2>1. MainType' /\ DbType' /\ SyncType' /\ ChanType' /\ SessType' /\ ProxyType'
    BY <1>10 DEF RemoveFromGroup, TypeOK, MainType, DbType, SyncType, ChanType, SessType,
       ProxyType
  <2>2. RegType'
    BY <1>10, DelistType DEF RemoveFromGroup, RemStages, Delist, DelistRR, TypeOK, RegType,
       SessionsBound
  <2>3. RemType'
    <3>1. {i \in sessions : workerOf[i] = c} \in SUBSET Ids
      BY DEF TypeOK, SessType
    <3> QED
      BY <1>10, <3>1 DEF RemoveFromGroup, RemStages, TypeOK, RemType
  <2>4. SessionsBound'
    BY <1>10 DEF RemoveFromGroup, RemStages, Delist, DelistRR, TypeOK, SessType, ProxyType,
       ChanType, SessionsBound
  <2> QED
    BY <2>1, <2>2, <2>3, <2>4 DEF TypeOK
<1>11. ASSUME NEW c \in Conns, NEW id \in Ids, RemoveVisit(c, id)
      PROVE  TypeOK' /\ SessionsBound'
  <2>1. MainType' /\ RegType' /\ DbType' /\ RemType' /\ SyncType' /\ ProxyType'
    BY <1>11 DEF RemoveVisit, TypeOK, MainType, RegType, DbType, RemType, SyncType,
       ProxyType
  <2>2. ChanType'
    BY <1>11, TellProxyType, WriteProxyType DEF RemoveVisit, TellProxy, WriteProxy,
       WriteFails, ToProxy, TypeOK, ChanType, SessType, SessionsBound
  <2>3. SessType'
    BY <1>11, TellProxyType, WriteProxyType DEF RemoveVisit, TellProxy, WriteProxy,
       WriteFails, ToProxy, TypeOK, SessType, SessionsBound
  <2>4. SessionsBound'
    BY <1>11 DEF RemoveVisit, TellProxy, WriteProxy, WriteFails, ToProxy, TypeOK, SessType,
       ProxyType, ChanType, SessionsBound
  <2> QED
    BY <2>1, <2>2, <2>3, <2>4 DEF TypeOK
<1>47. ASSUME NEW c \in Conns, RemoveDelete(c)
      PROVE  TypeOK' /\ SessionsBound'
  <2>1. MainType' /\ RegType' /\ DbType' /\ RemType' /\ SyncType'
    BY <1>47 DEF RemoveDelete, TypeOK, MainType, RegType, DbType, RemType, SyncType
  <2>2. ChanType' /\ SessType' /\ ProxyType'
    BY <1>47 DEF RemoveDelete, TypeOK, ChanType, SessType, ProxyType
  <2>3. SessionsBound'
    BY <1>47 DEF RemoveDelete, SessionsBound
  <2> QED
    BY <2>1, <2>2, <2>3 DEF TypeOK
<1>12. ASSUME NEW c \in Conns, RemoveDone(c)
      PROVE  TypeOK' /\ SessionsBound'
  BY <1>12 DEF RemoveDone, RemStages, TypeOK, MainType, RegType, DbType, RemType, SyncType,
     ChanType, SessType, ProxyType, SessionsBound
<1>13. ASSUME NEW c \in Conns, RemoveOffline(c)
      PROVE  TypeOK' /\ SessionsBound'
  BY <1>13 DEF RemoveOffline, RemStages, TypeOK, MainType, RegType, DbType, RemType,
     SyncType, ChanType, SessType, ProxyType, SessionsBound
<1>14. ASSUME NEW c \in Conns, NEW id \in Ids, NEW cmd \in {"Data", "Close"},
              WorkerRead(c, id, cmd)
      PROVE  TypeOK' /\ SessionsBound'
  <2>1. MainType' /\ RegType' /\ DbType' /\ SyncType'
    BY <1>14 DEF WorkerRead, FromWorker, TypeOK, MainType, RegType, DbType, SyncType
  <2>2. RemType' /\ ChanType'
    <3>1. [id |-> id, cmd |-> cmd] \in FromWorker
      BY DEF FromWorker
    <3> QED
      BY <1>14, <3>1 DEF WorkerRead, TypeOK, RemType, ChanType
  <2>3. SessType' /\ ProxyType'
    BY <1>14 DEF WorkerRead, FromWorker, TypeOK, SessType, ProxyType
  <2>4. SessionsBound'
    BY <1>14 DEF WorkerRead, FromWorker, TypeOK, SessType, ProxyType, ChanType, SessionsBound
  <2> QED
    BY <2>1, <2>2, <2>3, <2>4 DEF TypeOK
<1>15. ASSUME NEW c \in Conns, WorkerForward(c)
      PROVE  TypeOK' /\ SessionsBound'
  <2> DEFINE i == rd[c].id
  <2>1. MainType' /\ RegType' /\ DbType' /\ RemType' /\ SyncType' /\ ProxyType'
    BY <1>15 DEF WorkerForward, TypeOK, MainType, RegType, DbType, RemType, SyncType,
       ProxyType
  <2>2. /\ i \in Ids /\ rd[c].cmd \in {"Data", "Close"}
        /\ workerOf[i] # None /\ proxyOf[i] \in Proxies
    <3>1. rd[c] \in FromWorker /\ workerOf[i] # None
      BY <1>15 DEF WorkerForward, TypeOK, ChanType, ToDelete, SessionsBound
    <3> QED
      BY <3>1 DEF FromWorker, TypeOK, SessType, SessionsBound
  <2>3. \/ rd' = [rd EXCEPT ![c] = None]
        \/ rd' = [rd EXCEPT ![c] = [id |-> i, cmd |-> "Delete"]]
    BY <1>15 DEF WorkerForward
  <2>4. ChanType'
    <3>1. psend' \in [Proxies -> Seq(ToProxy)] /\ \A q \in Proxies : Len(psend'[q]) <= ProxyCap
      <4>1. CASE TellProxy(i, "Close")
        BY <2>2, <4>1, TellProxyType DEF TypeOK
      <4>2. CASE WriteProxy(proxyOf[i], i, rd[c].cmd)
        BY <2>2, <4>2, WriteProxyType DEF TypeOK
      <4>3. CASE WriteFails(proxyOf[i])
        BY <4>3 DEF WriteFails, TypeOK, ChanType
      <4> QED
        BY <1>15, <4>1, <4>2, <4>3 DEF WorkerForward
    <3>2. rd' \in [Conns -> FromWorker \cup ToDelete \cup {None}]
      <4>1. [id |-> i, cmd |-> "Delete"] \in ToDelete
        BY <2>2 DEF ToDelete
      <4> QED
        BY <2>3, <4>1 DEF TypeOK, ChanType
    <3> QED
      BY <1>15, <3>1, <3>2 DEF WorkerForward, TypeOK, ChanType
  <2>5. SessType'
    <3>1. told' \in SUBSET Ids
      <4>1. CASE TellProxy(i, "Close")
        BY <2>2, <4>1, NoneIsNil, TellProxyType DEF TypeOK
      <4>2. CASE UNCHANGED told
        BY <4>2 DEF TypeOK, SessType
      <4> QED
        BY <1>15, <4>1, <4>2 DEF WorkerForward
    <3> QED
      BY <1>15, <3>1 DEF WorkerForward, TypeOK, SessType
  <2>6. SessionsBound'
    <3>1. UNCHANGED <<sessions, stored, closers, proxyOf, workerOf, ph, req>>
      BY <1>15 DEF WorkerForward
    <3>2. rd[c] # None /\ (rd'[c] = None \/ rd'[c] = [id |-> i, cmd |-> "Delete"])
      BY <1>15, <2>3 DEF WorkerForward, TypeOK, ChanType
    <3>3. \A d \in Conns : d # c => rd'[d] = rd[d]
      BY <2>3 DEF TypeOK, ChanType
    <3>4. rd'[c] # None => workerOf'[rd'[c].id] # None
      BY <2>2, <3>1, <3>2
    <3> HIDE DEF i
    <3> QED
      BY <3>1, <3>3, <3>4 DEF SessionsBound
  <2> QED
    BY <2>1, <2>4, <2>5, <2>6 DEF TypeOK
<1>48. ASSUME NEW c \in Conns, WorkerDelete(c)
      PROVE  TypeOK' /\ SessionsBound'
  <2>1. MainType' /\ RegType' /\ DbType' /\ RemType' /\ SyncType'
    BY <1>48 DEF WorkerDelete, TypeOK, MainType, RegType, DbType, RemType, SyncType
  <2>2. ChanType' /\ SessType' /\ ProxyType'
    BY <1>48 DEF WorkerDelete, TypeOK, ChanType, SessType, ProxyType
  <2>3. SessionsBound'
    BY <1>48 DEF WorkerDelete, TypeOK, ChanType, SessionsBound
  <2> QED
    BY <2>1, <2>2, <2>3 DEF TypeOK
<1>16. ASSUME NEW c \in Conns, WorkerWrite(c)
      PROVE  TypeOK' /\ SessionsBound'
  <2>1. MainType' /\ RegType' /\ DbType' /\ RemType' /\ SyncType' /\ SessType' /\ ProxyType'
    BY <1>16 DEF WorkerWrite, TypeOK, MainType, RegType, DbType, RemType, SyncType, SessType,
       ProxyType
  <2>2. ChanType'
    BY <1>16 DEF WorkerWrite, TypeOK, ChanType
  <2>3. SessionsBound'
    BY <1>16 DEF WorkerWrite, TypeOK, ProxyType, SessionsBound
  <2> QED
    BY <2>1, <2>2, <2>3 DEF TypeOK
<1>17. ASSUME SyncLoad
      PROVE  TypeOK' /\ SessionsBound'
  BY <1>17 DEF SyncLoad, TypeOK, MainType, RegType, DbType, RemType, SyncType, ChanType,
     SessType, ProxyType, SessionsBound
<1>18. ASSUME NEW g \in Guids, SyncPick(g)
      PROVE  TypeOK' /\ SessionsBound'
  BY <1>18 DEF SyncPick, TypeOK, MainType, RegType, DbType, RemType, SyncType, ChanType,
     SessType, ProxyType, SessionsBound
<1>19. ASSUME SyncMove
      PROVE  TypeOK' /\ SessionsBound'
  <2>1. MainType' /\ DbType' /\ RemType' /\ ChanType' /\ SessType' /\ ProxyType'
    BY <1>19 DEF SyncMove, TypeOK, MainType, DbType, RemType, ChanType, SessType, ProxyType
  <2>2. RegType'
    <3>1. mv.w \in Conns /\ mv.g \in AllGroups /\ groupName[mv.w] \in AllGroups
      BY <1>19 DEF SyncMove, TypeOK, SyncType, RegType
    <3> DEFINE gs == Delist(mv.w, groupName[mv.w])
    <3>2. gs \in [AllGroups -> Seq(Conns)]
          /\ DelistRR(mv.w, groupName[mv.w]) \in [AllGroups -> Nat]
      BY <3>1, DelistType DEF TypeOK
    <3>3. Append(gs[mv.g], mv.w) \in Seq(Conns)
      BY <3>1, <3>2
    <3>4. [gs EXCEPT ![mv.g] = Append(gs[mv.g], mv.w)] \in [AllGroups -> Seq(Conns)]
      <4> HIDE DEF gs
      <4> QED
        BY <3>2, <3>3
    <3>5. groups' \in [AllGroups -> Seq(Conns)] /\ rr' \in [AllGroups -> Nat]
      BY <1>19, <3>2, <3>4 DEF SyncMove, TypeOK, RegType
    <3>6. groupName' \in [Conns -> AllGroups]
      BY <1>19, <3>1 DEF SyncMove, TypeOK, RegType
    <3>7. misplaced' \in SUBSET Conns
      BY <1>19, <3>1 DEF SyncMove, TypeOK, RegType
    <3> QED
      BY <1>19, <3>5, <3>6, <3>7 DEF SyncMove, TypeOK, RegType
  <2>3. SyncType'
    BY <1>19, DelistType DEF SyncMove, Delist, DelistRR, TypeOK, SyncType, SessionsBound
  <2>4. SessionsBound'
    BY <1>19 DEF SyncMove, Delist, DelistRR, TypeOK, SessType, ProxyType, ChanType,
       SessionsBound
  <2> QED
    BY <2>1, <2>2, <2>3, <2>4 DEF TypeOK
<1>20. ASSUME NEW g \in Guids, NEW grp \in AllGroups, AdminRead(g, grp)
      PROVE  TypeOK' /\ SessionsBound'
  <2>1. DbType'
    BY <1>20, BoundsType DEF AdminRead, TypeOK, DbType
  <2>2. MainType' /\ RegType' /\ RemType' /\ SyncType' /\ ChanType'
    BY <1>20 DEF AdminRead, TypeOK, MainType, RegType, RemType, SyncType, ChanType
  <2>3. SessType' /\ ProxyType' /\ SessionsBound'
    BY <1>20 DEF AdminRead, TypeOK, SessType, ProxyType, SessionsBound
  <2> QED
    BY <2>1, <2>2, <2>3 DEF TypeOK
<1>21. ASSUME AdminSave
      PROVE  TypeOK' /\ SessionsBound'
  BY <1>21 DEF AdminSave, TypeOK, MainType, RegType, DbType, RemType, SyncType, ChanType,
     SessType, ProxyType, SessionsBound
<1>22. ASSUME NEW g \in Guids, AdminDelete(g)
      PROVE  TypeOK' /\ SessionsBound'
  <2>1. MainType' /\ RegType' /\ DbType' /\ SyncType'
    BY <1>22 DEF AdminDelete, TypeOK, MainType, RegType, DbType, SyncType
  <2>2. RemType' /\ ChanType'
    BY <1>22 DEF AdminDelete, TypeOK, RemType, ChanType
  <2>3. SessType' /\ ProxyType'
    BY <1>22 DEF AdminDelete, TypeOK, SessType, ProxyType
  <2>4. SessionsBound'
    BY <1>22 DEF AdminDelete, TypeOK, SessType, ProxyType, ChanType, SessionsBound
  <2> QED
    BY <2>1, <2>2, <2>3, <2>4 DEF TypeOK
<1>23. ASSUME NEW p \in Proxies, ProxyUpgrade(p)
      PROVE  TypeOK' /\ SessionsBound'
  BY <1>23 DEF ProxyUpgrade, ProxyStages, TypeOK, MainType, RegType, DbType, RemType,
     SyncType, ChanType, SessType, ProxyType, SessionsBound
<1>24. ASSUME NEW p \in Proxies, NewProxyConnection(p)
      PROVE  TypeOK' /\ SessionsBound'
  <2>1. MainType' /\ RegType' /\ DbType' /\ RemType' /\ SyncType' /\ ChanType' /\ SessType'
    BY <1>24 DEF NewProxyConnection, TypeOK, MainType, RegType, DbType, RemType, SyncType,
       ChanType, SessType
  <2>2. ProxyType'
    BY <1>24 DEF NewProxyConnection, ProxyStages, TypeOK, ProxyType, SessionsBound
  <2>3. SessionsBound'
    BY <1>24 DEF NewProxyConnection, ProxyStages, TypeOK, SessType, ProxyType, ChanType,
       SessionsBound
  <2> QED
    BY <2>1, <2>2, <2>3 DEF TypeOK
<1>25. ASSUME NEW p \in Proxies, ProxyHello(p)
      PROVE  TypeOK' /\ SessionsBound'
  <2>1. MainType' /\ RegType' /\ DbType' /\ RemType' /\ SyncType' /\ ChanType' /\ SessType'
    BY <1>25 DEF ProxyHello, TypeOK, MainType, RegType, DbType, RemType, SyncType, ChanType,
       SessType
  <2>2. ProxyType'
    BY <1>25 DEF ProxyHello, ProxyStages, TypeOK, ProxyType, SessionsBound
  <2>3. SessionsBound'
    BY <1>25 DEF ProxyHello, ProxyStages, TypeOK, SessType, ProxyType, ChanType,
       SessionsBound
  <2> QED
    BY <2>1, <2>2, <2>3 DEF TypeOK
<1>26. ASSUME NEW p \in Proxies, ProxyReadEnds(p)
      PROVE  TypeOK' /\ SessionsBound'
  BY <1>26 DEF ProxyReadEnds, ProxyStages, TypeOK, MainType, RegType, DbType, RemType,
     SyncType, ChanType, SessType, ProxyType, SessionsBound
<1>27. ASSUME NEW p \in Proxies, NEW id \in Ids, NEW grp \in Groups, ProxyRequest(p, id, grp)
      PROVE  TypeOK' /\ SessionsBound'
  <2>1. MainType' /\ DbType' /\ RemType' /\ SyncType' /\ ChanType'
    BY <1>27 DEF ProxyRequest, TypeOK, MainType, DbType, RemType, SyncType, ChanType
  <2>2. RegType'
    <3>1. rr \in [AllGroups -> Nat]
      BY DEF TypeOK, RegType
    <3>2. rr' = [rr EXCEPT ![grp] = @ + 1] \/ rr' = rr
      BY <1>27 DEF ProxyRequest
    <3>3. rr' \in [AllGroups -> Nat]
      BY <3>1, <3>2
    <3>4. UNCHANGED <<hs, old, groupName, activeWorkers, groups, missed, misplaced>>
      BY <1>27 DEF ProxyRequest
    <3> QED
      BY <3>3, <3>4 DEF TypeOK, RegType
  <2>3. SessType'
    <3>1. groups[grp] # <<>> => Turn(grp) \in Conns
      BY TurnType DEF TypeOK
    <3>2. workerOf' \in [Ids -> Conns \cup {None}]
      BY <1>27, <3>1 DEF ProxyRequest, TypeOK, SessType
    <3> QED
      BY <1>27, <3>2 DEF ProxyRequest, TypeOK, SessType
  <2>4. ProxyType'
    BY <1>27, TurnType DEF ProxyRequest, ProxyStages, TypeOK, ProxyType, SessionsBound
  <2>5. SessionsBound'
    <3>1. \A i \in Ids : proxyOf[i] # None => proxyOf'[i] = proxyOf[i]
          /\ workerOf'[i] = workerOf[i]
      BY <1>27 DEF ProxyRequest, TypeOK, SessType
    <3>2. proxyOf'[id] = p /\ workerOf'[id] \in Conns \cup {None}
      BY <1>27, <2>3 DEF ProxyRequest, TypeOK, SessType
    <3>3. ph'[p] = "store" => workerOf'[id] # None
      BY <1>27, TurnType DEF ProxyRequest, TypeOK, SessType, ProxyType
    <3>4. \A i \in Ids : workerOf'[i] # None => proxyOf'[i] # None
      BY <1>27, <3>2 DEF ProxyRequest, TypeOK, SessType, SessionsBound
    <3>5. \A q \in Proxies :
             ph'[q] \in {"store", "send", "fail", "fwdData", "fwdClose", "endClose"} =>
             req'[q] # None /\ proxyOf'[req'[q]] = q /\ workerOf'[req'[q]] # None
      BY <1>27, <3>1, <3>2, <3>3 DEF ProxyRequest, TypeOK, SessType, ProxyType,
         SessionsBound
    <3>6. \A q \in Proxies : ph'[q] \in {"replyClose", "replyError"} =>
             req'[q] # None /\ proxyOf'[req'[q]] = q
      BY <1>27, <3>1, <3>2 DEF ProxyRequest, TypeOK, SessType, ProxyType, SessionsBound
    <3>7. \A d \in Conns : rd'[d] # None => workerOf'[rd'[d].id] # None
      BY <1>27, <3>1 DEF ProxyRequest, TypeOK, SessType, ChanType, FromWorker, ToDelete,
         SessionsBound
    <3>8. \A i \in stored' \cup closers' : proxyOf'[i] # None /\ workerOf'[i] # None
      BY <1>27, <3>1 DEF ProxyRequest, TypeOK, SessType, ProxyType, SessionsBound
    <3> QED
      BY <1>27, <3>4, <3>5, <3>6, <3>7, <3>8 DEF ProxyRequest, SessionsBound
  <2> QED
    BY <2>1, <2>2, <2>3, <2>4, <2>5 DEF TypeOK
<1>28. ASSUME NEW p \in Proxies, OpenStore(p)
      PROVE  TypeOK' /\ SessionsBound'
  <2>1. MainType' /\ RegType' /\ DbType' /\ RemType' /\ SyncType' /\ ChanType'
    BY <1>28 DEF OpenStore, TypeOK, MainType, RegType, DbType, RemType, SyncType, ChanType
  <2>2. SessType'
    <3>1. req[p] \in Ids
      BY <1>28 DEF OpenStore, TypeOK, ProxyType, SessionsBound
    <3>2. sessions' \in SUBSET Ids /\ stored' \in SUBSET Ids /\ late' \in SUBSET Ids
      BY <1>28, <3>1 DEF OpenStore, TypeOK, SessType
    <3> QED
      BY <1>28, <3>2 DEF OpenStore, TypeOK, SessType
  <2>3. ProxyType'
    BY <1>28 DEF OpenStore, ProxyStages, TypeOK, ProxyType, SessionsBound
  <2>4. SessionsBound'
    BY <1>28 DEF OpenStore, ProxyStages, TypeOK, SessType, ProxyType, ChanType,
       SessionsBound
  <2> QED
    BY <2>1, <2>2, <2>3, <2>4 DEF TypeOK
<1>29. ASSUME NEW p \in Proxies, OpenSend(p)
      PROVE  TypeOK' /\ SessionsBound'
  <2>1. MainType' /\ RegType' /\ DbType' /\ RemType' /\ SyncType'
    BY <1>29 DEF OpenSend, TypeOK, MainType, RegType, DbType, RemType, SyncType
  <2>2. ChanType'
    <3>1. req[p] \in Ids /\ workerOf[req[p]] \in Conns
      BY <1>29 DEF OpenSend, TypeOK, ProxyType, SessType, SessionsBound
    <3>2. send' \in [Conns -> Seq(ToWorker)] /\ \A d \in Conns : Len(send'[d]) <= SendCap
      <4>1. CASE SendToWorker(workerOf[req[p]], req[p], "Connect")
        BY <3>1, <4>1, SendToWorkerType DEF TypeOK
      <4>2. CASE UNCHANGED send
        BY <4>2 DEF TypeOK, ChanType
      <4> QED
        BY <1>29, <4>1, <4>2 DEF OpenSend
    <3> QED
      BY <1>29, <3>2 DEF OpenSend, TypeOK, ChanType
  <2>3. SessType'
    BY <1>29, SendToWorkerType DEF OpenSend, ProxyStages, SendToWorker, ToWorker, TypeOK,
       SessType, SessionsBound
  <2>4. ProxyType'
    BY <1>29, SendToWorkerType DEF OpenSend, ProxyStages, SendToWorker, ToWorker, TypeOK,
       ProxyType, SessionsBound
  <2>5. SessionsBound'
    <3>1. sessions' \subseteq sessions /\ UNCHANGED <<proxyOf, workerOf, stored, closers, rd>>
      BY <1>29 DEF OpenSend
    <3>2. \A q \in Proxies \ {p} : ph'[q] = ph[q] /\ req'[q] = req[q]
      BY <1>29 DEF OpenSend, TypeOK, ProxyType
    <3>3. ph'[p] = "serve" \/ (ph'[p] = "replyError" /\ req'[p] = req[p])
      BY <1>29 DEF OpenSend, TypeOK, ProxyType
    <3>4. req[p] # None /\ proxyOf[req[p]] = p
      BY <1>29 DEF OpenSend, SessionsBound
    <3> QED
      BY <3>1, <3>2, <3>3, <3>4 DEF SessionsBound
  <2> QED
    BY <2>1, <2>2, <2>3, <2>4, <2>5 DEF TypeOK
<1>30. ASSUME NEW p \in Proxies, NEW id \in Ids, NEW cmd \in {"Data", "Close"},
              ProxyBinary(p, id, cmd)
      PROVE  TypeOK' /\ SessionsBound'
  <2>1. MainType' /\ RegType' /\ DbType' /\ SyncType'
    BY <1>30 DEF ProxyBinary, ProxyStages, TypeOK, MainType, RegType, DbType, SyncType
  <2>2. RemType' /\ ChanType'
    BY <1>30 DEF ProxyBinary, ProxyStages, TypeOK, RemType, ChanType
  <2>3. SessType' /\ ProxyType'
    BY <1>30 DEF ProxyBinary, ProxyStages, TypeOK, SessType, ProxyType
  <2>4. SessionsBound'
    BY <1>30 DEF ProxyBinary, ProxyStages, TypeOK, SessType, ProxyType, ChanType, SessionsBound
  <2> QED
    BY <2>1, <2>2, <2>3, <2>4 DEF TypeOK
<1>31. ASSUME NEW p \in Proxies, ForwardData(p)
      PROVE  TypeOK' /\ SessionsBound'
  <2>1. MainType' /\ RegType' /\ DbType' /\ RemType' /\ SyncType'
    BY <1>31 DEF ForwardData, TypeOK, MainType, RegType, DbType, RemType, SyncType
  <2>2. ChanType'
    <3>1. req[p] \in Ids /\ workerOf[req[p]] \in Conns
      BY <1>31 DEF ForwardData, TypeOK, ProxyType, SessType, SessionsBound
    <3>2. send' \in [Conns -> Seq(ToWorker)] /\ \A d \in Conns : Len(send'[d]) <= SendCap
      <4>1. CASE SendToWorker(workerOf[req[p]], req[p], "Data")
        BY <3>1, <4>1, SendToWorkerType DEF TypeOK
      <4>2. CASE UNCHANGED send
        BY <4>2 DEF TypeOK, ChanType
      <4> QED
        BY <1>31, <4>1, <4>2 DEF ForwardData
    <3> QED
      BY <1>31, <3>2 DEF ForwardData, TypeOK, ChanType
  <2>3. SessType'
    BY <1>31, SendToWorkerType DEF ForwardData, ProxyStages, SendToWorker, ToWorker, TypeOK,
       SessType, SessionsBound
  <2>4. ProxyType'
    BY <1>31, SendToWorkerType DEF ForwardData, ProxyStages, SendToWorker, ToWorker, TypeOK,
       ProxyType, SessionsBound
  <2>5. SessionsBound'
    <3>1. sessions' \subseteq sessions /\ UNCHANGED <<proxyOf, workerOf, stored, closers, rd>>
      BY <1>31 DEF ForwardData
    <3>2. \A q \in Proxies \ {p} : ph'[q] = ph[q] /\ req'[q] = req[q]
      BY <1>31 DEF ForwardData, TypeOK, ProxyType
    <3>3. ph'[p] = "serve" \/ (ph'[p] = "replyClose" /\ req'[p] = req[p])
      BY <1>31 DEF ForwardData, TypeOK, ProxyType
    <3>4. req[p] # None /\ proxyOf[req[p]] = p
      BY <1>31 DEF ForwardData, SessionsBound
    <3> QED
      BY <3>1, <3>2, <3>3, <3>4 DEF SessionsBound
  <2> QED
    BY <2>1, <2>2, <2>3, <2>4, <2>5 DEF TypeOK
<1>32. ASSUME NEW p \in Proxies, ForwardClose(p)
      PROVE  TypeOK' /\ SessionsBound'
  <2>1. MainType' /\ RegType' /\ DbType' /\ RemType' /\ SyncType'
    BY <1>32 DEF ForwardClose, TypeOK, MainType, RegType, DbType, RemType, SyncType
  <2>2. ChanType'
    <3>1. req[p] \in Ids /\ workerOf[req[p]] \in Conns
      BY <1>32 DEF ForwardClose, TypeOK, ProxyType, SessType, SessionsBound
    <3>2. send' \in [Conns -> Seq(ToWorker)] /\ \A d \in Conns : Len(send'[d]) <= SendCap
      <4>1. CASE SendToWorker(workerOf[req[p]], req[p], "Close")
        BY <3>1, <4>1, SendToWorkerType DEF TypeOK
      <4>2. CASE UNCHANGED send
        BY <4>2 DEF TypeOK, ChanType
      <4> QED
        BY <1>32, <4>1, <4>2 DEF ForwardClose
    <3> QED
      BY <1>32, <3>2 DEF ForwardClose, TypeOK, ChanType
  <2>3. SessType'
    BY <1>32 DEF ForwardClose, TypeOK, SessType
  <2>4. ProxyType'
    BY <1>32 DEF ForwardClose, ProxyStages, TypeOK, ProxyType
  <2>5. SessionsBound'
    <3>1. UNCHANGED <<sessions, stored, closers, proxyOf, workerOf, rd, req>>
      BY <1>32 DEF ForwardClose
    <3>2. \A q \in Proxies \ {p} : ph'[q] = ph[q]
      BY <1>32 DEF ForwardClose, TypeOK, ProxyType
    <3>3. ph[p] = "fwdClose" /\ ph'[p] = "endClose"
      BY <1>32 DEF ForwardClose, TypeOK, ProxyType
    <3> QED
      BY <3>1, <3>2, <3>3 DEF SessionsBound
  <2> QED
    BY <2>1, <2>2, <2>3, <2>4, <2>5 DEF TypeOK
<1>49. ASSUME NEW p \in Proxies, EndClose(p)
      PROVE  TypeOK' /\ SessionsBound'
  <2>1. MainType' /\ RegType' /\ DbType' /\ RemType' /\ SyncType' /\ ChanType'
    BY <1>49 DEF EndClose, TypeOK, MainType, RegType, DbType, RemType, SyncType, ChanType
  <2>2. SessType'
    <3>1. req[p] \in Ids
      BY <1>49 DEF EndClose, TypeOK, ProxyType, SessionsBound
    <3> QED
      BY <1>49, <3>1 DEF EndClose, TypeOK, SessType
  <2>3. ProxyType'
    BY <1>49 DEF EndClose, ProxyStages, TypeOK, ProxyType
  <2>4. SessionsBound'
    <3>1. sessions' \subseteq sessions /\ UNCHANGED <<proxyOf, workerOf, stored, closers, rd>>
      BY <1>49 DEF EndClose
    <3>2. \A q \in Proxies \ {p} : ph'[q] = ph[q] /\ req'[q] = req[q]
      BY <1>49 DEF EndClose, TypeOK, ProxyType
    <3>3. ph'[p] = "serve"
      BY <1>49 DEF EndClose, TypeOK, ProxyType
    <3> QED
      BY <3>1, <3>2, <3>3 DEF SessionsBound
  <2> QED
    BY <2>1, <2>2, <2>3, <2>4 DEF TypeOK
<1>33. ASSUME NEW p \in Proxies, ProxyReply(p)
      PROVE  TypeOK' /\ SessionsBound'
  <2>1. MainType' /\ RegType' /\ DbType' /\ RemType' /\ SyncType'
    BY <1>33 DEF ProxyReply, TypeOK, MainType, RegType, DbType, RemType, SyncType
  <2>2. ChanType'
    <3>1. req[p] \in Ids /\ proxyOf[req[p]] # None
      BY <1>33 DEF ProxyReply, TypeOK, ProxyType, SessionsBound
    <3>2. psend' \in [Proxies -> Seq(ToProxy)] /\ \A q \in Proxies : Len(psend'[q]) <= ProxyCap
      BY <1>33, <3>1, TellProxyType DEF ProxyReply, TypeOK
    <3> QED
      BY <1>33, <3>2 DEF ProxyReply, TypeOK, ChanType
  <2>3. SessType'
    <3>1. req[p] \in Ids /\ proxyOf[req[p]] # None
      BY <1>33 DEF ProxyReply, TypeOK, ProxyType, SessionsBound
    <3>2. told' \in SUBSET Ids
      BY <1>33, <3>1, TellProxyType DEF ProxyReply, TypeOK
    <3> QED
      BY <1>33, <3>2 DEF ProxyReply, TypeOK, SessType
  <2>4. ProxyType'
    BY <1>33, TellProxyType, WriteProxyType DEF ProxyReply, ProxyStages, TellProxy,
       WriteProxy, WriteFails, ToProxy, TypeOK, ProxyType, SessionsBound
  <2>5. SessionsBound'
    BY <1>33 DEF ProxyReply, ProxyStages, TellProxy, WriteProxy, WriteFails, ToProxy,
       TypeOK, SessType, ProxyType, ChanType, SessionsBound
  <2> QED
    BY <2>1, <2>2, <2>3, <2>4, <2>5 DEF TypeOK
<1>34. ASSUME NEW p \in Proxies, ProxyCloseBegin(p)
      PROVE  TypeOK' /\ SessionsBound'
  BY <1>34 DEF ProxyCloseBegin, PclStages, TypeOK, MainType, RegType, DbType, RemType,
     SyncType, ChanType, SessType, ProxyType, SessionsBound
<1>50. ASSUME NEW p \in Proxies, ProxyCloseRange(p)
      PROVE  TypeOK' /\ SessionsBound'
  <2>1. MainType' /\ RegType' /\ DbType' /\ RemType' /\ SyncType' /\ ChanType' /\ SessType'
    BY <1>50 DEF ProxyCloseRange, TypeOK, MainType, RegType, DbType, RemType, SyncType,
       ChanType, SessType
  <2>2. ProxyType'
    <3>1. {i \in sessions : proxyOf[i] = p} \in SUBSET Ids
      BY DEF TypeOK, SessType
    <3> QED
      BY <1>50, <3>1 DEF ProxyCloseRange, PclStages, TypeOK, ProxyType
  <2>3. SessionsBound'
    BY <1>50 DEF ProxyCloseRange, SessionsBound
  <2> QED
    BY <2>1, <2>2, <2>3 DEF TypeOK
<1>35. ASSUME NEW p \in Proxies, NEW id \in Ids, ProxyCloseVisit(p, id)
      PROVE  TypeOK' /\ SessionsBound'
  <2>1. MainType' /\ RegType' /\ DbType' /\ SyncType'
    BY <1>35 DEF ProxyCloseVisit, TypeOK, MainType, RegType, DbType, SyncType
  <2>2. RemType' /\ ChanType'
    BY <1>35 DEF ProxyCloseVisit, TypeOK, RemType, ChanType
  <2>3. SessType' /\ ProxyType'
    BY <1>35 DEF ProxyCloseVisit, TypeOK, SessType, ProxyType
  <2>4. SessionsBound'
    BY <1>35 DEF ProxyCloseVisit, TypeOK, SessType, ProxyType, ChanType, SessionsBound
  <2> QED
    BY <2>1, <2>2, <2>3, <2>4 DEF TypeOK
<1>36. ASSUME NEW p \in Proxies, ProxyCloseEnd(p)
      PROVE  TypeOK' /\ SessionsBound'
  BY <1>36 DEF ProxyCloseEnd, PclStages, TypeOK, MainType, RegType, DbType, RemType,
     SyncType, ChanType, SessType, ProxyType, SessionsBound
<1>37. ASSUME NEW id \in Ids, CloserSend(id)
      PROVE  TypeOK' /\ SessionsBound'
  <2>1. MainType' /\ RegType' /\ DbType' /\ RemType' /\ SyncType' /\ SessType'
    BY <1>37 DEF CloserSend, TypeOK, MainType, RegType, DbType, RemType, SyncType, SessType
  <2>2. ChanType'
    <3>1. workerOf[id] \in Conns
      BY <1>37 DEF CloserSend, TypeOK, SessType, SessionsBound
    <3>2. send' \in [Conns -> Seq(ToWorker)] /\ \A d \in Conns : Len(send'[d]) <= SendCap
      <4>1. CASE SendToWorker(workerOf[id], id, "Close")
        BY <3>1, <4>1, SendToWorkerType DEF TypeOK
      <4>2. CASE UNCHANGED send
        BY <4>2 DEF TypeOK, ChanType
      <4> QED
        BY <1>37, <4>1, <4>2 DEF CloserSend
    <3> QED
      BY <1>37, <3>2 DEF CloserSend, TypeOK, ChanType
  <2>3. ProxyType'
    BY <1>37, SendToWorkerType DEF CloserSend, SendToWorker, ToWorker, TypeOK, ProxyType,
       SessionsBound
  <2>4. SessionsBound'
    BY <1>37 DEF CloserSend, SendToWorker, ToWorker, TypeOK, SessType, ProxyType, ChanType,
       SessionsBound
  <2> QED
    BY <2>1, <2>2, <2>3, <2>4 DEF TypeOK
<1>38. ASSUME NEW p \in Proxies, ProxyHandlerExit(p)
      PROVE  TypeOK' /\ SessionsBound'
  BY <1>38 DEF ProxyHandlerExit, ProxyStages, TypeOK, MainType, RegType, DbType, RemType,
     SyncType, ChanType, SessType, ProxyType, SessionsBound
<1>39. ASSUME NEW p \in Proxies, ProxyWrite(p)
      PROVE  TypeOK' /\ SessionsBound'
  BY <1>39 DEF ProxyWrite, TypeOK, MainType, RegType, DbType, RemType, SyncType, ChanType,
     SessType, ProxyType, SessionsBound
<1>40. ASSUME ShutdownSignal
      PROVE  TypeOK' /\ SessionsBound'
  BY <1>40 DEF ShutdownSignal, TypeOK, MainType, RegType, DbType, RemType, SyncType,
     ChanType, SessType, ProxyType, SessionsBound
<1>41. ASSUME ServerFails
      PROVE  TypeOK' /\ SessionsBound'
  BY <1>41 DEF ServerFails, TypeOK, MainType, RegType, DbType, RemType, SyncType, ChanType,
     SessType, ProxyType, SessionsBound
<1>42. ASSUME CloseAllWorkers
      PROVE  TypeOK' /\ SessionsBound'
  BY <1>42 DEF CloseAllWorkers, TypeOK, MainType, RegType, DbType, RemType, SyncType,
     ChanType, SessType, ProxyType, SessionsBound
<1>43. ASSUME NEW x \in Conns \cup Proxies, CloseNext(x)
      PROVE  TypeOK' /\ SessionsBound'
  BY <1>43 DEF CloseNext, TypeOK, MainType, RegType, DbType, RemType, SyncType, ChanType,
     SessType, ProxyType, SessionsBound
<1>44. ASSUME CloseReturns
      PROVE  TypeOK' /\ SessionsBound'
  BY <1>44 DEF CloseReturns, TypeOK, MainType, RegType, DbType, RemType, SyncType, ChanType,
     SessType, ProxyType, SessionsBound
<1>45. ASSUME CloseAllProxyConnections
      PROVE  TypeOK' /\ SessionsBound'
  BY <1>45 DEF CloseAllProxyConnections, TypeOK, MainType, RegType, DbType, RemType,
     SyncType, ChanType, SessType, ProxyType, SessionsBound
<1>46. ASSUME CloseAllSessions
      PROVE  TypeOK' /\ SessionsBound'
  BY <1>46 DEF CloseAllSessions, TypeOK, MainType, RegType, DbType, RemType, SyncType,
     ChanType, SessType, ProxyType, SessionsBound
<1> QED
  BY <1>0, <1>1, <1>2, <1>3, <1>4, <1>5, <1>6, <1>7, <1>8, <1>9, <1>10, <1>11, <1>12, <1>13,
     <1>14, <1>15, <1>16, <1>17, <1>18, <1>19, <1>20, <1>21, <1>22, <1>23, <1>24, <1>25,
     <1>26, <1>27, <1>28, <1>29, <1>30, <1>31, <1>32, <1>33, <1>34, <1>35, <1>36, <1>37,
     <1>38, <1>39, <1>40, <1>41, <1>42, <1>43, <1>44, <1>45, <1>46, <1>47, <1>48, <1>49, <1>50
     DEF Next, Running, Main,
     SyncWorkersFromDB, Admin, WorkerHandler, RemoveWorker, WorkerReader, ProxyHandler,
     ProxyClose, Exited

\* TypeOK and SessionsBound always hold.
LEMMA TypeAndBound == Spec => [](TypeOK /\ SessionsBound)
  BY TypeInit, TypeStep, PTL DEF Spec

\* Every variable keeps its type in every reachable state of the broker: in
\* particular no channel ever holds more than its capacity and every stage
\* of a handler works on a session that has a Worker.
THEOREM TypeCorrect == Spec => []TypeOK
  BY TypeAndBound, PTL

-----------------------------------------------------------------------------
(* ActiveNotRemoved and OnlineAccounted.                                   *)

\* The sync loop, the admin API, the readers, the writers and the proxy side
\* leave the registry alone.
LEMMA RegistryFrame ==
    ASSUME [Next]_vars
    PROVE  \/ UNCHANGED <<hs, old, activeWorkers, missed, rem, wasActive, todo, cur>>
           \/ \E c \in Conns : WorkerHandler(c) \/ RemoveWorker(c)
           \/ Main
<1> USE DEF mainVars, regVars, remVars
<1>1. CASE UNCHANGED vars
  BY <1>1 DEF vars
<1>2. CASE SyncWorkersFromDB
  BY <1>2 DEF SyncWorkersFromDB, SyncLoad, SyncPick, SyncMove
<1>3. CASE Admin
  BY <1>3 DEF Admin, AdminRead, AdminSave, AdminDelete
<1>4. ASSUME NEW c \in Conns, WorkerReader(c) \/ WorkerWrite(c)
      PROVE  UNCHANGED <<hs, old, activeWorkers, missed, rem, wasActive, todo, cur>>
  BY <1>4 DEF WorkerReader, WorkerRead, WorkerForward, WorkerDelete, WorkerWrite
<1>5. ASSUME NEW p \in Proxies, ProxyHandler(p)
      PROVE  UNCHANGED <<hs, old, activeWorkers, missed, rem, wasActive, todo, cur>>
  BY <1>5 DEF ProxyHandler, ProxyUpgrade, NewProxyConnection, ProxyHello, ProxyReadEnds,
     ProxyRequest, OpenStore, OpenSend, ProxyBinary, ForwardData, ForwardClose, EndClose,
     ProxyReply,
     ProxyHandlerExit
<1>6. ASSUME NEW p \in Proxies, ProxyClose(p) \/ ProxyWrite(p)
      PROVE  UNCHANGED <<hs, old, activeWorkers, missed, rem, wasActive, todo, cur>>
  BY <1>6 DEF ProxyClose, ProxyCloseBegin, ProxyCloseRange, ProxyCloseVisit, ProxyCloseEnd,
     ProxyWrite
<1>7. ASSUME NEW id \in Ids, CloserSend(id)
      PROVE  UNCHANGED <<hs, old, activeWorkers, missed, rem, wasActive, todo, cur>>
  BY <1>7 DEF CloserSend
<1> QED
  BY <1>1, <1>2, <1>3, <1>4, <1>5, <1>6, <1>7 DEF Next, Running, Exited

\* A handler's step up to setActiveWorker, or from it on.
LEMMA HandlerMoves ==
    ASSUME TypeOK, RegistryInv, NEW c \in Conns, NEW s,
           hs' = [hs EXCEPT ![c] = s], hs[c] \in PastSetActive => s \in PastSetActive,
           UNCHANGED <<old, activeWorkers, rem, todo, cur>>
    PROVE  RegistryInv'
<1>1. \A d \in Conns : hs[d] \in PastSetActive => hs'[d] \in PastSetActive
  BY DEF TypeOK, RegType
<1>2. \A g \in Guids : activeWorkers[g] \in Conns \cup {None}
  BY DEF TypeOK, RegType
<1>3. \A d \in Conns : old[d] \in Conns \cup {None}
  BY DEF TypeOK, RegType
<1> QED
  BY <1>1, <1>2, <1>3 DEF RegistryInv, ActiveNotRemoved

\* RegistryInv is preserved by every step.
LEMMA RegistryStep == TypeOK /\ RegistryInv /\ [Next]_vars => RegistryInv'
<1> SUFFICES ASSUME TypeOK, RegistryInv, [Next]_vars PROVE RegistryInv'
  OBVIOUS
<1> USE DEF mainVars, regVars, remVars
<1>0. CASE UNCHANGED <<hs, old, activeWorkers, rem, wasActive, todo, cur>>
  BY <1>0 DEF RegistryInv, ActiveNotRemoved
<1>1. ASSUME NEW c \in Conns, WorkerUpgrade(c)
      PROVE  RegistryInv'
  <2> USE DEF PastSetActive
  <2> QED
    BY <1>1, HandlerMoves DEF WorkerUpgrade
<1>2. ASSUME NEW c \in Conns, WorkerHello(c)
      PROVE  RegistryInv'
  <2>1. hs[c] \notin PastSetActive /\ UNCHANGED <<old, activeWorkers, rem, todo, cur>>
    BY <1>2 DEF WorkerHello, PastSetActive
  <2>2. CASE hs' = [hs EXCEPT ![c] = "register"]
    BY <2>1, <2>2, HandlerMoves
  <2>3. CASE hs' = [hs EXCEPT ![c] = "closed"]
    BY <2>1, <2>3, HandlerMoves
  <2> QED
    BY <1>2, <2>2, <2>3 DEF WorkerHello
<1>3. ASSUME NEW c \in Conns, RegisterWorker(c)
      PROVE  RegistryInv'
  <2>1. hs[c] \notin PastSetActive /\ UNCHANGED <<old, activeWorkers, rem, todo, cur>>
    BY <1>3 DEF RegisterWorker, PastSetActive
  <2>2. CASE hs' = [hs EXCEPT ![c] = "registered"]
    BY <2>1, <2>2, HandlerMoves
  <2>3. CASE hs' = [hs EXCEPT ![c] = "closed"]
    BY <2>1, <2>3, HandlerMoves
  <2> QED
    BY <1>3, <2>2, <2>3 DEF RegisterWorker
<1>4. ASSUME NEW c \in Conns, GetWorkerGroup(c)
      PROVE  RegistryInv'
  <2>1. hs[c] \notin PastSetActive /\ UNCHANGED <<old, activeWorkers, rem, todo, cur>>
    BY <1>4 DEF GetWorkerGroup, PastSetActive
  <2>2. CASE hs' = [hs EXCEPT ![c] = "grouped"]
    BY <2>1, <2>2, HandlerMoves
  <2>3. CASE hs' = [hs EXCEPT ![c] = "closed"]
    BY <2>1, <2>3, HandlerMoves
  <2> QED
    BY <1>4, <2>2, <2>3 DEF GetWorkerGroup
<1>5. ASSUME NEW c \in Conns, LookupOld(c)
      PROVE  RegistryInv'
  <2>1. /\ hs[c] \notin PastSetActive /\ UNCHANGED <<activeWorkers, rem, todo, cur>>
        /\ \A d \in Conns : hs[d] \in PastSetActive => hs'[d] = hs[d]
    BY <1>5 DEF LookupOld, PastSetActive, TypeOK, RegType
  <2>2. \A g \in Guids : activeWorkers[g] \in Conns \cup {None}
    BY DEF TypeOK, RegType
  <2>3. GuidOf[c] \in Guids
    BY GuidOfType
  <2>4. \A d \in Conns : old'[d] # None => old'[d] \in Conns /\ hs'[old'[d]] \in PastSetActive
    <3> SUFFICES ASSUME NEW d \in Conns, old'[d] # None
                 PROVE  old'[d] \in Conns /\ hs[old'[d]] \in PastSetActive
      BY <2>1
    <3>1. CASE old'[d] = old[d]
      BY <3>1 DEF RegistryInv, TypeOK, RegType
    <3>2. CASE old'[d] = activeWorkers[GuidOf[c]]
      BY <2>2, <2>3, <3>2 DEF RegistryInv, ActiveNotRemoved
    <3> QED
      BY <1>5, <3>1, <3>2 DEF LookupOld, TypeOK, RegType
  <2>5. ActiveNotRemoved'
    BY <2>1, <2>2 DEF RegistryInv, ActiveNotRemoved
  <2> QED
    BY <2>1, <2>4, <2>5 DEF RegistryInv
<1>6. ASSUME NEW c \in Conns, SetActiveWorker(c)
      PROVE  RegistryInv'
  <2> DEFINE s == IF Shutting THEN "skip" ELSE "active"
  <2>1. hs' = [hs EXCEPT ![c] = s] /\ s \in PastSetActive /\ UNCHANGED <<old, rem, todo, cur>>
    BY <1>6 DEF SetActiveWorker, PastSetActive
  <2> HIDE DEF s
  <2>2. CASE UNCHANGED activeWorkers
    BY <2>1, <2>2, HandlerMoves
  <2>3. CASE activeWorkers' = [activeWorkers EXCEPT ![GuidOf[c]] = c]
    <3>1. \A d \in Conns : hs'[d] = IF d = c THEN s ELSE hs[d]
      BY <2>1 DEF TypeOK, RegType
    <3>2. \A g \in Guids : activeWorkers'[g] = IF g = GuidOf[c] THEN c ELSE activeWorkers[g]
      BY <2>3 DEF TypeOK, RegType
    <3>3. rem[c] = "idle"
      BY <1>6 DEF RegistryInv, SetActiveWorker, PastSetActive
    <3>4. \A g \in Guids : activeWorkers[g] \in Conns \cup {None}
      BY DEF TypeOK, RegType
    <3>5. \A d \in Conns : old[d] \in Conns \cup {None}
      BY DEF TypeOK, RegType
    <3>6. ActiveNotRemoved'
      BY <2>1, <3>1, <3>2, <3>3, <3>4 DEF RegistryInv, ActiveNotRemoved
    <3> QED
      BY <2>1, <3>1, <3>5, <3>6 DEF RegistryInv
  <2> QED
    BY <1>6, <2>2, <2>3 DEF SetActiveWorker
<1>7. ASSUME NEW c \in Conns, AddWorkerToGroup(c)
      PROVE  RegistryInv'
  BY <1>7, HandlerMoves DEF AddWorkerToGroup, PastSetActive
<1>8. ASSUME NEW c \in Conns, HandlerUp(c)
      PROVE  RegistryInv'
  BY <1>8, HandlerMoves DEF HandlerUp, PastSetActive
<1>9. ASSUME NEW c \in Conns, RemoveBegin(c)
      PROVE  RegistryInv'
  <2>1. /\ rem' = [rem EXCEPT ![c] = "group"] /\ UNCHANGED <<hs, old, todo, cur>>
        /\ RemoveCalled(c)
    BY <1>9 DEF RemoveBegin
  <2>2. \A d \in Conns : rem'[d] = IF d = c THEN "group" ELSE rem[d]
    BY <2>1 DEF TypeOK, RemType
  <2>3. hs[c] \in PastSetActive
    BY <2>1, NoneIsNil DEF RemoveCalled, RegistryInv, PastSetActive
  <2>4. \A g \in Guids : activeWorkers[g] \in Conns \cup {None}
    BY DEF TypeOK, RegType
  <2>5. ASSUME NEW g \in Guids
        PROVE  activeWorkers'[g] = IF activeWorkers[g] = c THEN None ELSE activeWorkers[g]
    <3>1. activeWorkers[g] = c => g = GuidOf[c]
      BY NoneIsNil DEF RegistryInv, ActiveNotRemoved
    <3> QED
      BY <1>9, <3>1 DEF RemoveBegin, TypeOK, RegType
  <2>6. ActiveNotRemoved'
    BY <2>1, <2>2, <2>4, <2>5 DEF RegistryInv, ActiveNotRemoved
  <2> QED
    BY <2>1, <2>2, <2>3, <2>6 DEF RegistryInv
<1>10. ASSUME NEW c \in Conns, RemoveFromGroup(c)
       PROVE  RegistryInv'
  BY <1>10 DEF RemoveFromGroup, RegistryInv, ActiveNotRemoved, TypeOK, RegType, RemType
<1>11. ASSUME NEW c \in Conns, NEW id \in Ids, RemoveVisit(c, id)
       PROVE  RegistryInv'
  BY <1>0, <1>11 DEF RemoveVisit
<1>19. ASSUME NEW c \in Conns, RemoveDelete(c)
       PROVE  RegistryInv'
  BY <1>0, <1>19 DEF RemoveDelete
<1>12. ASSUME NEW c \in Conns, RemoveDone(c)
       PROVE  RegistryInv'
  BY <1>12 DEF RemoveDone, RegistryInv, ActiveNotRemoved, TypeOK, RegType, RemType
<1>13. ASSUME NEW c \in Conns, RemoveOffline(c)
       PROVE  RegistryInv'
  BY <1>13 DEF RemoveOffline, RegistryInv, ActiveNotRemoved, TypeOK, RegType, RemType
<1>14. CASE ShutdownSignal \/ ServerFails \/ CloseAllSessions
  BY <1>0, <1>14 DEF ShutdownSignal, ServerFails, CloseAllSessions
<1>15. CASE CloseAllWorkers
  BY <1>15, GuidOfType, NoneIsNil DEF CloseAllWorkers, RegistryInv, ActiveNotRemoved
<1>16. ASSUME NEW x \in Conns \cup Proxies, CloseNext(x)
       PROVE  RegistryInv'
  BY <1>16 DEF CloseNext, RegistryInv, ActiveNotRemoved
<1>17. CASE CloseReturns
  BY <1>17, NoneIsNil DEF CloseReturns, RegistryInv, ActiveNotRemoved
<1>18. CASE CloseAllProxyConnections
  BY <1>18, NamesApart DEF CloseAllProxyConnections, RegistryInv, ActiveNotRemoved
<1> QED
  BY RegistryFrame, <1>0, <1>1, <1>2, <1>3, <1>4, <1>5, <1>6, <1>7, <1>8, <1>9, <1>10, <1>11,
     <1>12, <1>13, <1>14, <1>15, <1>16, <1>17, <1>18, <1>19
     DEF WorkerHandler, RemoveWorker, Main

\* A step that leaves g's registry entry, its handlers in progress and its
\* removals in progress as they are keeps g accounted for.
LEMMA AccountedFrame ==
    ASSUME NEW g, Accounted(g), activeWorkers'[g] = activeWorkers[g],
           \A c \in Conns : GuidOf[c] = g /\ hs[c] \in {"registered", "grouped", "made"}
                              => hs'[c] \in {"registered", "grouped", "made"},
           \A c \in Conns : GuidOf[c] = g /\ c \in wasActive /\ rem[c] \in {"group", "range", "db"}
                              => c \in wasActive' /\ rem'[c] \in {"group", "range", "db"}
    PROVE  Accounted(g)'
  BY DEF Accounted

\* The steps of workerHandler keep the online flags accounted for.
LEMMA OnlineHandler ==
    ASSUME TypeOK, RegistryInv, phase = "serving", NEW c \in Conns, WorkerHandler(c),
           \A g \in online \ tainted : Accounted(g), NEW g \in online' \ tainted'
    PROVE  Accounted(g)'
<1> USE DEF regVars, remVars, dbVars, TypeOK, RegType
<1>1. CASE WorkerUpgrade(c)
  BY <1>1, AccountedFrame DEF WorkerUpgrade
<1>2. CASE WorkerHello(c)
  <2>1. \A d \in Conns : hs[d] \in {"registered", "grouped", "made"} => hs'[d] = hs[d]
    BY <1>2 DEF WorkerHello
  <2> QED
    BY <1>2, <2>1, AccountedFrame DEF WorkerHello
<1>3. CASE RegisterWorker(c)
  <2>1. UNCHANGED <<activeWorkers, rem, wasActive>>
    BY <1>3 DEF RegisterWorker
  <2>2. \A d \in Conns : hs[d] \in {"registered", "grouped", "made"} => hs'[d] = hs[d]
    BY <1>3 DEF RegisterWorker
  <2>3. (g = GuidOf[c] /\ hs'[c] = "registered") \/ g \in online \ tainted
    BY <1>3 DEF RegisterWorker
  <2>4. CASE g = GuidOf[c] /\ hs'[c] = "registered"
    BY <2>4 DEF Accounted
  <2>5. CASE g \in online \ tainted
    BY <2>1, <2>2, <2>5, AccountedFrame
  <2> QED
    BY <2>3, <2>4, <2>5
<1>4. CASE GetWorkerGroup(c)
  <2>1. UNCHANGED <<activeWorkers, rem, wasActive, online>> /\ g \in online \ tainted
    BY <1>4 DEF GetWorkerGroup
  <2>2. \A d \in Conns : hs[d] \in {"registered", "grouped", "made"} =>
          hs'[d] \in {"registered", "grouped", "made"} \/ GuidOf[d] # g
    BY <1>4, <2>1 DEF GetWorkerGroup
  <2> QED
    BY <2>1, <2>2, AccountedFrame
<1>5. CASE LookupOld(c)
  <2>1. UNCHANGED <<activeWorkers, rem, wasActive, online, tainted>>
    BY <1>5 DEF LookupOld
  <2>2. \A d \in Conns : hs[d] \in {"registered", "grouped", "made"} =>
          hs'[d] \in {"registered", "grouped", "made"}
    BY <1>5 DEF LookupOld, Shutting
  <2> QED
    BY <2>1, <2>2, AccountedFrame
<1>6. CASE SetActiveWorker(c)
  <2>1. UNCHANGED <<rem, wasActive, online, tainted>>
        /\ \A d \in Conns : d # c => hs'[d] = hs[d]
    BY <1>6 DEF SetActiveWorker
  <2>2. activeWorkers' = [activeWorkers EXCEPT ![GuidOf[c]] = c] /\ GuidOf[c] \in Guids
    BY <1>6, GuidOfType DEF SetActiveWorker, Shutting
  <2>3. CASE g = GuidOf[c]
    BY <2>2, <2>3, NoneIsNil DEF Accounted
  <2>4. CASE g # GuidOf[c]
    <3>1. activeWorkers'[g] = activeWorkers[g]
      BY <2>1, <2>2, <2>4 DEF DbType
    <3> QED
      BY <2>1, <2>4, <3>1, AccountedFrame
  <2> QED
    BY <2>3, <2>4
<1>7. CASE AddWorkerToGroup(c)
  BY <1>7, AccountedFrame DEF AddWorkerToGroup
<1>8. CASE HandlerUp(c)
  BY <1>8, AccountedFrame DEF HandlerUp
<1> QED
  BY <1>1, <1>2, <1>3, <1>4, <1>5, <1>6, <1>7, <1>8 DEF WorkerHandler

\* The steps of removeWorker keep the online flags accounted for: it hands
\* the responsibility from the registry entry to the pending UPDATE.
LEMMA OnlineRemove ==
    ASSUME TypeOK, RegistryInv, NEW c \in Conns, RemoveWorker(c),
           \A g \in online \ tainted : Accounted(g), NEW g \in online' \ tainted'
    PROVE  Accounted(g)'
<1> USE DEF regVars, remVars, dbVars, TypeOK, RemType
<1>1. CASE RemoveBegin(c)
  <2>1. UNCHANGED <<hs, online, tainted>> /\ rem[c] = "idle"
    BY <1>1 DEF RemoveBegin
  <2>2. \A d \in Conns : rem'[d] = IF d = c THEN "group" ELSE rem[d]
    BY <1>1 DEF RemoveBegin
  <2>3. CASE activeWorkers[GuidOf[c]] = c
    <3>1. /\ activeWorkers' = [activeWorkers EXCEPT ![GuidOf[c]] = None]
          /\ wasActive' = wasActive \cup {c}
      BY <1>1, <2>3 DEF RemoveBegin
    <3>2. CASE g = GuidOf[c]
      BY <2>2, <3>1, <3>2 DEF Accounted
    <3>3. CASE g # GuidOf[c]
      <4>1. activeWorkers'[g] = activeWorkers[g]
        BY <2>1, <3>1, <3>3 DEF RegType, DbType
      <4> QED
        BY <2>1, <2>2, <3>1, <4>1, AccountedFrame
    <3> QED
      BY <3>2, <3>3
  <2>4. CASE activeWorkers[GuidOf[c]] # c
    <3>1. UNCHANGED <<activeWorkers, wasActive>>
      BY <1>1, <2>4 DEF RemoveBegin
    <3> QED
      BY <2>1, <2>2, <3>1, AccountedFrame
  <2> QED
    BY <2>3, <2>4
<1>2. CASE RemoveFromGroup(c)
  <2>1. UNCHANGED <<hs, activeWorkers, wasActive, online, tainted>>
        /\ \A d \in Conns : rem'[d] = IF d = c THEN "range" ELSE rem[d]
    BY <1>2 DEF RemoveFromGroup
  <2> QED
    BY <2>1, AccountedFrame
<1>3. ASSUME NEW id \in Ids, RemoveVisit(c, id)
      PROVE  Accounted(g)'
  BY <1>3, AccountedFrame DEF RemoveVisit
<1>6. CASE RemoveDelete(c)
  BY <1>6, AccountedFrame DEF RemoveDelete
<1>4. CASE RemoveDone(c)
  <2>1. UNCHANGED <<hs, activeWorkers, wasActive, online, tainted>>
    BY <1>4 DEF RemoveDone
  <2>2. \A d \in Conns : d # c => rem'[d] = rem[d]
    BY <1>4 DEF RemoveDone
  <2>3. c \in wasActive => rem'[c] = "db"
    BY <1>4 DEF RemoveDone
  <2> QED
    BY <2>1, <2>2, <2>3, AccountedFrame
<1>5. CASE RemoveOffline(c)
  <2>1. UNCHANGED <<hs, activeWorkers, wasActive>> /\ \A d \in Conns : d # c => rem'[d] = rem[d]
    BY <1>5 DEF RemoveOffline
  <2>2. g \in online \ tainted /\ g # GuidOf[c]
    BY <1>5 DEF RemoveOffline
  <2> QED
    BY <2>1, <2>2, AccountedFrame
<1> QED
  BY <1>1, <1>2, <1>3, <1>4, <1>5, <1>6 DEF RemoveWorker

\* OnlineAccounted is preserved by every step.
LEMMA OnlineStep ==
    TypeOK /\ RegistryInv /\ OnlineAccounted /\ [Next]_vars => OnlineAccounted'
<1> SUFFICES ASSUME TypeOK, RegistryInv, OnlineAccounted, [Next]_vars
             PROVE  OnlineAccounted'
  OBVIOUS
<1> USE DEF mainVars, regVars, remVars, dbVars
<1>0. CASE UNCHANGED <<phase, hs, activeWorkers, rem, wasActive, online, tainted>>
  BY <1>0 DEF OnlineAccounted, Shutting, Accounted
<1>1. ASSUME NEW c \in Conns, WorkerHandler(c)
      PROVE  OnlineAccounted'
  <2>1. phase' = phase
    BY <1>1 DEF WorkerHandler, WorkerUpgrade, WorkerHello, RegisterWorker, GetWorkerGroup,
                LookupOld, SetActiveWorker, AddWorkerToGroup, HandlerUp
  <2> QED
    BY <1>1, <2>1, OnlineHandler DEF OnlineAccounted, Shutting
<1>2. ASSUME NEW c \in Conns, RemoveWorker(c)
      PROVE  OnlineAccounted'
  <2>1. phase' = phase
    BY <1>2 DEF RemoveWorker, RemoveBegin, RemoveFromGroup, RemoveVisit, RemoveDelete, RemoveDone,
       RemoveOffline
  <2> QED
    BY <1>2, <2>1, OnlineRemove DEF OnlineAccounted, Shutting
<1>3. CASE Admin
  <2>1. UNCHANGED <<phase, hs, activeWorkers, rem, wasActive>>
    BY <1>3 DEF Admin, AdminRead, AdminSave, AdminDelete
  <2>2. online' \ tainted' \subseteq online \ tainted
    BY <1>3 DEF Admin, AdminRead, AdminSave, AdminDelete
  <2> QED
    BY <2>1, <2>2 DEF OnlineAccounted, Shutting, Accounted
<1>4. CASE Main
  <2>1. UNCHANGED <<hs, activeWorkers, rem, wasActive, online, tainted>>
    BY <1>4 DEF Main, ShutdownSignal, ServerFails, CloseAllWorkers, CloseNext, CloseReturns,
                CloseAllProxyConnections, CloseAllSessions
  <2>2. phase' = phase \/ phase' # "serving"
    BY <1>4 DEF Main, ShutdownSignal, ServerFails, CloseAllWorkers, CloseNext, CloseReturns,
                CloseAllProxyConnections, CloseAllSessions
  <2> QED
    BY <2>1, <2>2 DEF OnlineAccounted, Shutting, Accounted
<1>5. CASE UNCHANGED vars \/ SyncWorkersFromDB
  BY <1>0, <1>5 DEF vars, SyncWorkersFromDB, SyncLoad, SyncPick, SyncMove
<1>6. ASSUME NEW c \in Conns, WorkerReader(c) \/ WorkerWrite(c)
      PROVE  OnlineAccounted'
  BY <1>0, <1>6 DEF WorkerReader, WorkerRead, WorkerForward, WorkerDelete, WorkerWrite
<1>7. ASSUME NEW p \in Proxies, ProxyHandler(p)
      PROVE  OnlineAccounted'
  BY <1>0, <1>7 DEF ProxyHandler, ProxyUpgrade, NewProxyConnection, ProxyHello, ProxyReadEnds,
     ProxyRequest, OpenStore, OpenSend, ProxyBinary, ForwardData, ForwardClose, EndClose,
     ProxyReply,
     ProxyHandlerExit
<1>8. ASSUME NEW p \in Proxies, ProxyClose(p) \/ ProxyWrite(p)
      PROVE  OnlineAccounted'
  BY <1>0, <1>8 DEF ProxyClose, ProxyCloseBegin, ProxyCloseRange, ProxyCloseVisit, ProxyCloseEnd,
     ProxyWrite
<1>9. ASSUME NEW id \in Ids, CloserSend(id)
      PROVE  OnlineAccounted'
  BY <1>0, <1>9 DEF CloserSend
<1> QED
  BY <1>1, <1>2, <1>3, <1>4, <1>5, <1>6, <1>7, <1>8, <1>9 DEF Next, Running, Exited

\* ActiveNotRemoved always holds: getActiveWorker never returns a Worker that
\* removeWorker has begun to remove, for any number of connections per GUID.
THEOREM RegistrySafe == Spec => []ActiveNotRemoved
<1>1. Init => RegistryInv
  BY NoneIsNil DEF Init, RegistryInv, ActiveNotRemoved
<1>2. RegistryInv => ActiveNotRemoved
  BY DEF RegistryInv
<1> QED
  BY <1>1, <1>2, TypeCorrect, RegistryStep, PTL DEF Spec

\* OnlineAccounted always holds: while the broker serves, online=TRUE is only
\* ever left behind by a failed query, a stale PATCH or a crash.
THEOREM OnlineSafe == Spec => []OnlineAccounted
<1>1. Init => RegistryInv
  BY NoneIsNil DEF Init, RegistryInv, ActiveNotRemoved
<1>2. Init => OnlineAccounted
  BY DEF Init, OnlineAccounted
<1> QED
  BY <1>1, <1>2, TypeCorrect, RegistryStep, OnlineStep, PTL DEF Spec

-----------------------------------------------------------------------------
(* The session table: what every proof about it needs.                     *)

\* Only these steps touch the session table, the channels, the proxy side or
\* the progress of a removal.
LEMMA SessionFrame ==
    ASSUME [Next]_vars
    PROVE  \/ UNCHANGED <<chanVars, sessVars, proxyVars, rem, due, visit>>
           \/ \E c \in Conns : RemoveWorker(c) \/ WorkerReader(c) \/ WorkerWrite(c)
           \/ \E p \in Proxies : ProxyHandler(p) \/ ProxyClose(p) \/ ProxyWrite(p)
           \/ \E id \in Ids : CloserSend(id)
           \/ CloseAllSessions
<1> USE DEF remVars
<1>1. CASE UNCHANGED vars
  BY <1>1 DEF vars
<1>2. CASE SyncWorkersFromDB
  BY <1>2 DEF SyncWorkersFromDB, SyncLoad, SyncPick, SyncMove
<1>3. CASE Admin
  BY <1>3 DEF Admin, AdminRead, AdminSave, AdminDelete
<1>4. ASSUME NEW c \in Conns, WorkerHandler(c)
      PROVE  UNCHANGED <<chanVars, sessVars, proxyVars, rem, due, visit>>
  BY <1>4 DEF WorkerHandler, WorkerUpgrade, WorkerHello, RegisterWorker, GetWorkerGroup,
     LookupOld, SetActiveWorker, AddWorkerToGroup, HandlerUp
<1>5. CASE Main
  BY <1>5 DEF Main, ShutdownSignal, ServerFails, CloseAllWorkers, CloseNext, CloseReturns,
     CloseAllProxyConnections
<1> QED
  BY <1>1, <1>2, <1>3, <1>4, <1>5 DEF Next, Running, Exited

\* When the process is gone nothing changes any more.
LEMMA ExitIsFinal == [Next]_vars /\ phase = "exited" => UNCHANGED vars
  BY DEF Next, Running, Exited

\* The two ends of a session are set once, by the request that opens it.
LEMMA EndsStable ==
    ASSUME TypeOK, SessionsBound, [Next]_vars, NEW id \in Ids
    PROVE  /\ proxyOf[id] # None => proxyOf'[id] = proxyOf[id]
           /\ workerOf[id] # None => workerOf'[id] = workerOf[id]
<1> USE DEF chanVars, sessVars
<1>1. ASSUME NEW c \in Conns, RemoveWorker(c) \/ WorkerReader(c) \/ WorkerWrite(c)
      PROVE  UNCHANGED <<proxyOf, workerOf>>
  BY <1>1 DEF RemoveWorker, RemoveBegin, RemoveFromGroup, RemoveVisit, RemoveDelete, RemoveDone,
     RemoveOffline, WorkerReader, WorkerRead, WorkerForward, WorkerDelete, WorkerWrite
<1>2. ASSUME NEW p \in Proxies, NEW i \in Ids, NEW g \in Groups, ProxyRequest(p, i, g)
      PROVE  /\ proxyOf[id] # None => proxyOf'[id] = proxyOf[id]
             /\ workerOf[id] # None => workerOf'[id] = workerOf[id]
  BY <1>2 DEF ProxyRequest, TypeOK, SessType, SessionsBound
<1>3. ASSUME NEW p \in Proxies, ProxyHandler(p),
             ~ \E i \in Ids, g \in Groups : ProxyRequest(p, i, g)
      PROVE  UNCHANGED <<proxyOf, workerOf>>
  BY <1>3 DEF ProxyHandler, ProxyUpgrade, NewProxyConnection, ProxyHello, ProxyReadEnds,
     OpenStore, OpenSend, ProxyBinary, ForwardData, ForwardClose, EndClose, ProxyReply,
     ProxyHandlerExit
<1>4. ASSUME NEW p \in Proxies, ProxyClose(p) \/ ProxyWrite(p)
      PROVE  UNCHANGED <<proxyOf, workerOf>>
  BY <1>4 DEF ProxyClose, ProxyCloseBegin, ProxyCloseRange, ProxyCloseVisit, ProxyCloseEnd,
     ProxyWrite
<1>5. CASE CloseAllSessions \/ \E i \in Ids : CloserSend(i)
  BY <1>5 DEF CloseAllSessions, CloserSend
<1> QED
  BY <1>1, <1>2, <1>3, <1>4, <1>5, SessionFrame

-----------------------------------------------------------------------------
(* Isolation.                                                              *)

\* What a Tail holds was there before.
LEMMA TailElements ==
    ASSUME NEW S, NEW s \in Seq(S), s # <<>>, NEW i \in 1 .. Len(Tail(s))
    PROVE  i + 1 \in 1 .. Len(s) /\ Tail(s)[i] = s[i + 1]
  OBVIOUS

\* What an Append holds was there before, or is the new element.
LEMMA AppendElements ==
    ASSUME NEW S, NEW s \in Seq(S), NEW e \in S, NEW i \in 1 .. Len(Append(s, e))
    PROVE  (i \in 1 .. Len(s) /\ Append(s, e)[i] = s[i]) \/ Append(s, e)[i] = e
  OBVIOUS

\* The new message of sendToWorker is of a session of that Worker.
LEMMA SendIsolated ==
    ASSUME TypeOK, Isolation, NEW id \in Ids, workerOf[id] # None,
           NEW cmd \in {"Connect", "Data", "Close"}, SendToWorker(workerOf[id], id, cmd),
           NEW c \in Conns, NEW i \in 1 .. Len(send'[c])
    PROVE  send'[c][i].id \in Ids /\ workerOf[send'[c][i].id] = c
<1> DEFINE m == [id |-> id, cmd |-> cmd]
           w == workerOf[id]
<1>1. m \in ToWorker /\ m.id = id
  BY DEF ToWorker
<1>2. send' = [send EXCEPT ![w] = Append(send[w], m)] /\ w \in Conns
  BY DEF SendToWorker, TypeOK, SessType
<1>3. send[c] \in Seq(ToWorker)
  BY DEF TypeOK, ChanType
<1>4. \A j \in 1 .. Len(send[c]) : send[c][j].id \in Ids /\ workerOf[send[c][j].id] = c
  <2> SUFFICES ASSUME NEW j \in 1 .. Len(send[c])
               PROVE  send[c][j].id \in Ids /\ workerOf[send[c][j].id] = c
    OBVIOUS
  <2>1. send[c][j] \in ToWorker
    BY <1>3
  <2> QED
    BY <2>1 DEF Isolation, ToWorker
<1> HIDE DEF m
<1>5. CASE c = w
  <2>1. send'[c] = Append(send[c], m)
    BY <1>2, <1>5 DEF TypeOK, ChanType
  <2>2. (i \in 1 .. Len(send[c]) /\ send'[c][i] = send[c][i]) \/ send'[c][i] = m
    BY <1>1, <1>3, <2>1, AppendElements
  <2> QED
    BY <1>1, <1>4, <1>5, <2>2
<1>6. CASE c # w
  BY <1>2, <1>4, <1>6 DEF TypeOK, ChanType
<1> QED
  BY <1>5, <1>6

\* The new message of ProxyConnection.write is of a session of that Proxy.
LEMMA WriteIsolated ==
    ASSUME TypeOK, Isolation, NEW id \in Ids, proxyOf[id] # None,
           NEW cmd \in {"Data", "Close", "Error"}, WriteProxy(proxyOf[id], id, cmd),
           NEW p \in Proxies, NEW i \in 1 .. Len(psend'[p])
    PROVE  psend'[p][i].id \in Ids /\ proxyOf[psend'[p][i].id] = p
<1> DEFINE m == [id |-> id, cmd |-> cmd]
           w == proxyOf[id]
<1>1. m \in ToProxy /\ m.id = id
  BY DEF ToProxy
<1>2. psend' = [psend EXCEPT ![w] = Append(psend[w], m)] /\ w \in Proxies
  BY DEF WriteProxy, TypeOK, SessType
<1>3. psend[p] \in Seq(ToProxy)
  BY DEF TypeOK, ChanType
<1>4. \A j \in 1 .. Len(psend[p]) : psend[p][j].id \in Ids /\ proxyOf[psend[p][j].id] = p
  <2> SUFFICES ASSUME NEW j \in 1 .. Len(psend[p])
               PROVE  psend[p][j].id \in Ids /\ proxyOf[psend[p][j].id] = p
    OBVIOUS
  <2>1. psend[p][j] \in ToProxy
    BY <1>3
  <2> QED
    BY <2>1 DEF Isolation, ToProxy
<1> HIDE DEF m
<1>5. CASE p = w
  <2>1. psend'[p] = Append(psend[p], m)
    BY <1>2, <1>5 DEF TypeOK, ChanType
  <2>2. (i \in 1 .. Len(psend[p]) /\ psend'[p][i] = psend[p][i]) \/ psend'[p][i] = m
    BY <1>1, <1>3, <2>1, AppendElements
  <2> QED
    BY <1>1, <1>4, <1>5, <2>2
<1>6. CASE p # w
  BY <1>2, <1>4, <1>6 DEF TypeOK, ChanType
<1> QED
  BY <1>5, <1>6

\* Every message queued for a Worker after a step is of a session that had
\* that Worker before it.
LEMMA SendStep ==
    ASSUME TypeOK, SessionsBound, Isolation, [Next]_vars,
           NEW c \in Conns, NEW i \in 1 .. Len(send'[c])
    PROVE  send'[c][i].id \in Ids /\ workerOf[send'[c][i].id] = c
<1> USE DEF chanVars
<1>0. send[c] \in Seq(ToWorker)
      /\ \A j \in 1 .. Len(send[c]) : send[c][j].id \in Ids /\ workerOf[send[c][j].id] = c
  <2>1. send[c] \in Seq(ToWorker)
    BY DEF TypeOK, ChanType
  <2>2. \A j \in 1 .. Len(send[c]) : send[c][j] \in ToWorker
    BY <2>1
  <2> QED
    BY <2>1, <2>2 DEF Isolation, ToWorker
<1>1. CASE UNCHANGED send
  BY <1>0, <1>1
<1>2. ASSUME NEW d \in Conns, WorkerWrite(d)
      PROVE  send'[c][i].id \in Ids /\ workerOf[send'[c][i].id] = c
  <2>1. send' = [send EXCEPT ![d] = Tail(send[d])] /\ send[d] # <<>>
    BY <1>2 DEF WorkerWrite
  <2>2. CASE c = d
    <3>1. send'[c] = Tail(send[c])
      BY <2>1, <2>2 DEF TypeOK, ChanType
    <3>2. i \in 1 .. Len(Tail(send[c])) /\ send[c] # <<>> /\ send[c] \in Seq(ToWorker)
      BY <1>0, <2>1, <2>2, <3>1
    <3>3. i + 1 \in 1 .. Len(send[c]) /\ Tail(send[c])[i] = send[c][i + 1]
      BY <3>2, TailElements
    <3> QED
      BY <1>0, <3>1, <3>3
  <2>3. CASE c # d
    BY <1>0, <2>1, <2>3 DEF TypeOK, ChanType
  <2> QED
    BY <2>2, <2>3
<1>3. ASSUME NEW id \in Ids, NEW cmd \in {"Connect", "Data", "Close"}, workerOf[id] # None,
             SendToWorker(workerOf[id], id, cmd)
      PROVE  send'[c][i].id \in Ids /\ workerOf[send'[c][i].id] = c
  BY <1>3, SendIsolated
<1>4. ASSUME NEW p \in Proxies, OpenSend(p) \/ ForwardData(p) \/ ForwardClose(p)
      PROVE  send'[c][i].id \in Ids /\ workerOf[send'[c][i].id] = c
  <2>1. req[p] \in Ids /\ workerOf[req[p]] # None
    BY <1>4 DEF OpenSend, ForwardData, ForwardClose, TypeOK, ProxyType, SessionsBound
  <2>2. UNCHANGED send \/ \E cmd \in {"Connect", "Data", "Close"} :
          SendToWorker(workerOf[req[p]], req[p], cmd)
    BY <1>4 DEF OpenSend, ForwardData, ForwardClose
  <2> QED
    BY <1>1, <1>3, <2>1, <2>2
<1>5. ASSUME NEW id \in Ids, CloserSend(id)
      PROVE  send'[c][i].id \in Ids /\ workerOf[send'[c][i].id] = c
  <2>1. workerOf[id] # None
    BY <1>5 DEF CloserSend, SessionsBound
  <2>2. UNCHANGED send \/ SendToWorker(workerOf[id], id, "Close")
    BY <1>5 DEF CloserSend
  <2> QED
    BY <1>1, <1>3, <2>1, <2>2
<1>6. ASSUME NEW d \in Conns, RemoveWorker(d) \/ WorkerReader(d)
      PROVE  UNCHANGED send
  BY <1>6 DEF RemoveWorker, RemoveBegin, RemoveFromGroup, RemoveVisit, RemoveDelete, RemoveDone,
     RemoveOffline, WorkerReader, WorkerRead, WorkerForward, WorkerDelete
<1>7. ASSUME NEW p \in Proxies, ProxyHandler(p), ~(OpenSend(p) \/ ForwardData(p) \/ ForwardClose(p))
      PROVE  UNCHANGED send
  BY <1>7 DEF ProxyHandler, ProxyUpgrade, NewProxyConnection, ProxyHello, ProxyReadEnds,
     ProxyRequest, OpenStore, ProxyBinary, EndClose, ProxyReply, ProxyHandlerExit
<1>8. ASSUME NEW p \in Proxies, ProxyClose(p) \/ ProxyWrite(p)
      PROVE  UNCHANGED send
  BY <1>8 DEF ProxyClose, ProxyCloseBegin, ProxyCloseRange, ProxyCloseVisit, ProxyCloseEnd,
     ProxyWrite
<1>9. CloseAllSessions => UNCHANGED send
  BY DEF CloseAllSessions
<1> QED
  BY <1>1, <1>2, <1>4, <1>5, <1>6, <1>7, <1>8, <1>9, SessionFrame

\* Every message queued for a Proxy after a step is of a session that had
\* that Proxy before it.
LEMMA WriteStep ==
    ASSUME TypeOK, SessionsBound, Isolation, [Next]_vars,
           NEW p \in Proxies, NEW i \in 1 .. Len(psend'[p])
    PROVE  psend'[p][i].id \in Ids /\ proxyOf[psend'[p][i].id] = p
<1> USE DEF chanVars
<1>0. psend[p] \in Seq(ToProxy)
      /\ \A j \in 1 .. Len(psend[p]) : psend[p][j].id \in Ids /\ proxyOf[psend[p][j].id] = p
  <2>1. psend[p] \in Seq(ToProxy)
    BY DEF TypeOK, ChanType
  <2>2. \A j \in 1 .. Len(psend[p]) : psend[p][j] \in ToProxy
    BY <2>1
  <2> QED
    BY <2>1, <2>2 DEF Isolation, ToProxy
<1>1. CASE UNCHANGED psend
  BY <1>0, <1>1
<1>2. ASSUME NEW q \in Proxies, ProxyWrite(q)
      PROVE  psend'[p][i].id \in Ids /\ proxyOf[psend'[p][i].id] = p
  <2>1. psend' = [psend EXCEPT ![q] = Tail(psend[q])] /\ psend[q] # <<>>
    BY <1>2 DEF ProxyWrite
  <2>2. CASE p = q
    <3>1. psend'[p] = Tail(psend[p])
      BY <2>1, <2>2 DEF TypeOK, ChanType
    <3>2. i \in 1 .. Len(Tail(psend[p])) /\ psend[p] # <<>> /\ psend[p] \in Seq(ToProxy)
      BY <1>0, <2>1, <2>2, <3>1
    <3>3. i + 1 \in 1 .. Len(psend[p]) /\ Tail(psend[p])[i] = psend[p][i + 1]
      BY <3>2, TailElements
    <3> QED
      BY <1>0, <3>1, <3>3
  <2>3. CASE p # q
    BY <1>0, <2>1, <2>3 DEF TypeOK, ChanType
  <2> QED
    BY <2>2, <2>3
<1>3. ASSUME NEW id \in Ids, NEW cmd \in {"Data", "Close", "Error"},
             proxyOf[id] # None, WriteProxy(proxyOf[id], id, cmd)
      PROVE  psend'[p][i].id \in Ids /\ proxyOf[psend'[p][i].id] = p
  BY <1>3, WriteIsolated
<1>4. ASSUME NEW id \in Ids, NEW cmd \in {"Close", "Error"}, proxyOf[id] # None,
             TellProxy(id, cmd)
      PROVE  psend'[p][i].id \in Ids /\ proxyOf[psend'[p][i].id] = p
  BY <1>1, <1>3, <1>4 DEF TellProxy, WriteFails
<1>5. ASSUME NEW c \in Conns, NEW id \in Ids, RemoveVisit(c, id)
      PROVE  psend'[p][i].id \in Ids /\ proxyOf[psend'[p][i].id] = p
  <2>1. proxyOf[id] # None /\ TellProxy(id, "Close")
    BY <1>5 DEF RemoveVisit, SessionsBound
  <2> QED
    BY <1>4, <2>1
<1>6. ASSUME NEW c \in Conns, WorkerForward(c)
      PROVE  psend'[p][i].id \in Ids /\ proxyOf[psend'[p][i].id] = p
  <2>1. /\ rd[c].id \in Ids /\ rd[c].cmd \in {"Data", "Close"}
        /\ proxyOf[rd[c].id] # None
    BY <1>6 DEF WorkerForward, TypeOK, ChanType, FromWorker, ToDelete, SessionsBound
  <2>2. \/ TellProxy(rd[c].id, "Close")
        \/ WriteProxy(proxyOf[rd[c].id], rd[c].id, rd[c].cmd)
        \/ UNCHANGED psend
    BY <1>6 DEF WorkerForward, WriteFails
  <2> QED
    BY <1>1, <1>3, <1>4, <2>1, <2>2
<1>7. ASSUME NEW q \in Proxies, ProxyReply(q)
      PROVE  psend'[p][i].id \in Ids /\ proxyOf[psend'[p][i].id] = p
  <2>1. /\ req[q] \in Ids /\ proxyOf[req[q]] # None
        /\ TellProxy(req[q], "Close") \/ TellProxy(req[q], "Error")
    BY <1>7, NoneIsNil DEF ProxyReply, TypeOK, ProxyType, SessionsBound
  <2> QED
    BY <1>4, <2>1
<1>8. ASSUME NEW c \in Conns, RemoveWorker(c), ~ \E id \in Ids : RemoveVisit(c, id)
      PROVE  UNCHANGED psend
  BY <1>8 DEF RemoveWorker, RemoveBegin, RemoveFromGroup, RemoveDelete, RemoveDone, RemoveOffline
<1>9. ASSUME NEW c \in Conns, WorkerReader(c) \/ WorkerWrite(c), ~ WorkerForward(c)
      PROVE  UNCHANGED psend
  BY <1>9 DEF WorkerReader, WorkerRead, WorkerDelete, WorkerWrite
<1>10. ASSUME NEW q \in Proxies, ProxyHandler(q), ~ ProxyReply(q)
       PROVE  UNCHANGED psend
  BY <1>10 DEF ProxyHandler, ProxyUpgrade, NewProxyConnection, ProxyHello, ProxyReadEnds,
     ProxyRequest, OpenStore, OpenSend, ProxyBinary, ForwardData, ForwardClose, EndClose,
     ProxyHandlerExit
<1>11. ASSUME NEW q \in Proxies, ProxyClose(q)
       PROVE  UNCHANGED psend
  BY <1>11 DEF ProxyClose, ProxyCloseBegin, ProxyCloseRange, ProxyCloseVisit, ProxyCloseEnd
<1>12. CASE CloseAllSessions \/ \E id \in Ids : CloserSend(id)
  BY <1>1, <1>12 DEF CloseAllSessions, CloserSend
<1> QED
  BY <1>1, <1>2, <1>5, <1>6, <1>7, <1>8, <1>9, <1>10, <1>11, <1>12, SessionFrame

\* Only a reader moves its message on.
LEMMA ReaderFrame ==
    ASSUME [Next]_vars
    PROVE  UNCHANGED rd \/ \E c \in Conns : WorkerReader(c)
<1> USE DEF chanVars
<1>1. ASSUME NEW c \in Conns, RemoveWorker(c) \/ WorkerWrite(c)
      PROVE  UNCHANGED rd
  BY <1>1 DEF RemoveWorker, RemoveBegin, RemoveFromGroup, RemoveVisit, RemoveDelete, RemoveDone,
     RemoveOffline, WorkerWrite
<1>2. ASSUME NEW p \in Proxies, ProxyHandler(p)
      PROVE  UNCHANGED rd
  BY <1>2 DEF ProxyHandler, ProxyUpgrade, NewProxyConnection, ProxyHello, ProxyReadEnds,
     ProxyRequest, OpenStore, OpenSend, ProxyBinary, ForwardData, ForwardClose, EndClose,
     ProxyReply, ProxyHandlerExit
<1>3. ASSUME NEW p \in Proxies, ProxyClose(p) \/ ProxyWrite(p)
      PROVE  UNCHANGED rd
  BY <1>3 DEF ProxyClose, ProxyCloseBegin, ProxyCloseRange, ProxyCloseVisit, ProxyCloseEnd,
     ProxyWrite
<1>4. CloseAllSessions \/ (\E id \in Ids : CloserSend(id)) => UNCHANGED rd
  BY DEF CloseAllSessions, CloserSend
<1> QED
  BY <1>1, <1>2, <1>3, <1>4, SessionFrame

\* What a reader has loaded concerns its own Worker.
LEMMA ReadStep ==
    ASSUME TypeOK, SessionsBound, Isolation, [Next]_vars, NEW c \in Conns, rd'[c] # None
    PROVE  rd'[c].id \in Ids /\ workerOf[rd'[c].id] = c
<1> USE DEF chanVars
<1>1. CASE rd'[c] # None => rd[c] # None /\ rd'[c].id = rd[c].id
  BY <1>1 DEF Isolation, TypeOK, ChanType, FromWorker, ToDelete
<1>2. ASSUME NEW d \in Conns, NEW id \in Ids, NEW cmd \in {"Data", "Close"},
             WorkerRead(d, id, cmd)
      PROVE  rd'[c].id \in Ids /\ workerOf[rd'[c].id] = c
  <2>1. CASE c = d
    BY <1>2, <2>1 DEF WorkerRead, TypeOK, ChanType
  <2>2. CASE c # d
    BY <1>1, <1>2, <2>2 DEF WorkerRead, TypeOK, ChanType
  <2> QED
    BY <2>1, <2>2
<1>3. ASSUME NEW d \in Conns, WorkerForward(d)
      PROVE  rd'[c].id \in Ids /\ workerOf[rd'[c].id] = c
  <2>1. rd \in [Conns -> FromWorker \cup ToDelete \cup {None}]
    BY DEF TypeOK, ChanType
  <2>2. CASE c = d
    BY <1>1, <1>3, <2>1, <2>2 DEF WorkerForward
  <2>3. CASE c # d
    BY <1>1, <1>3, <2>1, <2>3 DEF WorkerForward
  <2> QED
    BY <2>2, <2>3
<1>4. ASSUME NEW d \in Conns, WorkerDelete(d)
      PROVE  rd'[c].id \in Ids /\ workerOf[rd'[c].id] = c
  BY <1>1, <1>4 DEF WorkerDelete, TypeOK, ChanType
<1> QED
  BY <1>1, <1>2, <1>3, <1>4, ReaderFrame DEF WorkerReader

\* What a Proxy handler works on is a session of its own Proxy.
LEMMA RequestStep ==
    ASSUME TypeOK, SessionsBound, Isolation, [Next]_vars, NEW p \in Proxies, req'[p] # None
    PROVE  proxyOf'[req'[p]] = p
<1> USE DEF chanVars, sessVars, proxyVars
<1>0. CASE req'[p] = req[p]
  <2>1. req[p] \in Ids /\ proxyOf[req[p]] = p /\ p # None
    BY <1>0, NoneIsNil DEF Isolation, TypeOK, ProxyType
  <2> QED
    BY <1>0, <2>1, EndsStable
<1>1. ASSUME NEW q \in Proxies, NEW id \in Ids, NEW g \in Groups, ProxyRequest(q, id, g)
      PROVE  proxyOf'[req'[p]] = p
  <2>1. CASE p = q
    BY <1>1, <2>1 DEF ProxyRequest, TypeOK, SessType, ProxyType
  <2>2. CASE p # q
    BY <1>0, <1>1, <2>2 DEF ProxyRequest, TypeOK, ProxyType
  <2> QED
    BY <2>1, <2>2
<1>2. ASSUME NEW q \in Proxies, NEW id \in Ids, NEW cmd \in {"Data", "Close"},
             ProxyBinary(q, id, cmd)
      PROVE  proxyOf'[req'[p]] = p
  <2>1. CASE p = q
    BY <1>2, <2>1 DEF ProxyBinary, TypeOK, ProxyType
  <2>2. CASE p # q
    BY <1>0, <1>2, <2>2 DEF ProxyBinary, TypeOK, ProxyType
  <2> QED
    BY <2>1, <2>2
<1>3. ASSUME NEW q \in Proxies,
             OpenSend(q) \/ ForwardData(q) \/ ForwardClose(q) \/ EndClose(q) \/ ProxyReply(q)
      PROVE  req'[p] = req[p] \/ req'[p] = None
  BY <1>3 DEF OpenSend, ForwardData, ForwardClose, EndClose, ProxyReply, TypeOK, ProxyType
<1>4. ASSUME NEW q \in Proxies,
             \/ ProxyUpgrade(q) \/ NewProxyConnection(q) \/ ProxyHello(q) \/ ProxyReadEnds(q)
             \/ OpenStore(q) \/ ProxyHandlerExit(q) \/ ProxyClose(q) \/ ProxyWrite(q)
      PROVE  UNCHANGED req
  BY <1>4 DEF ProxyUpgrade, NewProxyConnection, ProxyHello, ProxyReadEnds, OpenStore,
     ProxyHandlerExit, ProxyClose, ProxyCloseBegin, ProxyCloseRange, ProxyCloseVisit,
     ProxyCloseEnd, ProxyWrite
<1>5. ASSUME NEW c \in Conns, RemoveWorker(c) \/ WorkerReader(c) \/ WorkerWrite(c)
      PROVE  UNCHANGED req
  BY <1>5 DEF RemoveWorker, RemoveBegin, RemoveFromGroup, RemoveVisit, RemoveDelete, RemoveDone,
     RemoveOffline, WorkerReader, WorkerRead, WorkerForward, WorkerDelete, WorkerWrite
<1>6. CASE CloseAllSessions \/ \E id \in Ids : CloserSend(id)
  BY <1>0, <1>6 DEF CloseAllSessions, CloserSend
<1> QED
  BY <1>0, <1>1, <1>2, <1>3, <1>4, <1>5, <1>6, SessionFrame DEF ProxyHandler

\* Isolation is preserved by every step.
LEMMA IsolationStep == TypeOK /\ SessionsBound /\ Isolation /\ [Next]_vars => Isolation'
<1> SUFFICES ASSUME TypeOK, SessionsBound, Isolation, [Next]_vars PROVE Isolation'
  OBVIOUS
<1>1. ASSUME NEW c \in Conns, NEW i \in 1 .. Len(send'[c])
      PROVE  workerOf'[send'[c][i].id] = c
  BY <1>1, SendStep, EndsStable, NoneIsNil
<1>2. ASSUME NEW p \in Proxies, NEW i \in 1 .. Len(psend'[p])
      PROVE  proxyOf'[psend'[p][i].id] = p
  BY <1>2, WriteStep, EndsStable, NoneIsNil
<1>3. ASSUME NEW c \in Conns, rd'[c] # None
      PROVE  workerOf'[rd'[c].id] = c
  BY <1>3, ReadStep, EndsStable, NoneIsNil
<1> QED
  BY <1>1, <1>2, <1>3, RequestStep DEF Isolation

\* Isolation always holds, for any number of Workers, Proxies and sessions
\* multiplexed over them and any channel capacities.
THEOREM IsolationSafe == Spec => []Isolation
<1>1. Init => Isolation
  BY DEF Init, Isolation
<1> QED
  BY <1>1, TypeAndBound, IsolationStep, PTL DEF Spec

-----------------------------------------------------------------------------
(* SweptSessions.                                                          *)

\* SweptInv is preserved by every step: a Range that ends has visited every
\* session it owed a visit, and no session joins the table unnoticed.
LEMMA SweptStep == TypeOK /\ SessionsBound /\ SweptInv /\ [Next]_vars => SweptInv'
<1> SUFFICES ASSUME TypeOK, SessionsBound, SweptInv, [Next]_vars PROVE SweptInv'
  OBVIOUS
<1> USE DEF remVars, chanVars, sessVars, proxyVars
<1> DEFINE Kept == sessions' \ late' \subseteq sessions \ late
<1>1. ASSUME NEW id \in sessions
      PROVE  /\ id \in Ids /\ workerOf[id] \in Conns /\ proxyOf[id] \in Proxies
             /\ workerOf'[id] = workerOf[id] /\ proxyOf'[id] = proxyOf[id]
  BY <1>1, EndsStable DEF TypeOK, SessType, SessionsBound
<1>2. CASE Kept /\ UNCHANGED <<rem, due, pcl, pdue>>
  BY <1>1, <1>2 DEF SweptInv
<1>3. ASSUME NEW c \in Conns, RemoveBegin(c)
      PROVE  SweptInv'
  <2>1. Kept /\ UNCHANGED <<due, pcl, pdue>> /\ rem[c] = "idle"
    BY <1>3 DEF RemoveBegin
  <2>2. \A d \in Conns : rem'[d] = IF d = c THEN "group" ELSE rem[d]
    BY <1>3 DEF RemoveBegin, TypeOK, RemType
  <2> QED
    BY <1>1, <2>1, <2>2 DEF SweptInv
<1>4. ASSUME NEW c \in Conns, RemoveFromGroup(c)
      PROVE  SweptInv'
  <2>1. Kept /\ UNCHANGED <<sessions, workerOf, pcl, pdue>> /\ rem[c] = "group"
    BY <1>4 DEF RemoveFromGroup
  <2>2. \A d \in Conns : rem'[d] = IF d = c THEN "range" ELSE rem[d]
    BY <1>4 DEF RemoveFromGroup, TypeOK, RemType
  <2>3. /\ \A i \in sessions : workerOf[i] = c => i \in due'[c]
        /\ \A d \in Conns : d # c => due'[d] = due[d]
    BY <1>4 DEF RemoveFromGroup, TypeOK, RemType
  <2> QED
    BY <1>1, <2>1, <2>2, <2>3 DEF SweptInv
<1>5. ASSUME NEW c \in Conns, RemoveDone(c)
      PROVE  SweptInv'
  <2>1. Kept /\ UNCHANGED <<due, pcl, pdue>> /\ rem[c] = "range" /\ due[c] \cap sessions = {}
    BY <1>5 DEF RemoveDone
  <2>2. \A d \in Conns : d # c => rem'[d] = rem[d]
    BY <1>5 DEF RemoveDone, TypeOK, RemType
  <2>3. \A id \in sessions \ late : workerOf[id] # c
    BY <1>1, <2>1 DEF SweptInv
  <2> QED
    BY <1>1, <2>1, <2>2, <2>3 DEF SweptInv
<1>6. ASSUME NEW c \in Conns, RemoveOffline(c)
      PROVE  SweptInv'
  <2>1. Kept /\ UNCHANGED <<due, pcl, pdue>> /\ rem[c] = "db"
    BY <1>6 DEF RemoveOffline
  <2>2. \A d \in Conns : d # c => rem'[d] = rem[d]
    BY <1>6 DEF RemoveOffline, TypeOK, RemType
  <2>3. \A id \in sessions \ late : workerOf[id] # c
    BY <1>1, <2>1 DEF SweptInv
  <2> QED
    BY <1>1, <2>1, <2>2, <2>3 DEF SweptInv
<1>7. ASSUME NEW p \in Proxies, OpenStore(p)
      PROVE  SweptInv'
  <2>1. UNCHANGED <<rem, due, pcl, pdue, proxyOf, workerOf>>
    BY <1>7 DEF OpenStore
  <2>2. req[p] \in Ids /\ proxyOf[req[p]] = p /\ workerOf[req[p]] \in Conns
    BY <1>7 DEF OpenStore, TypeOK, SessType, ProxyType, SessionsBound
  <2>3. ASSUME NEW id \in sessions' \ late'
        PROVE  \/ id \in sessions \ late
               \/ id = req[p] /\ rem[workerOf[id]] \in {"idle", "group"}
                              /\ pcl[p] \in {"idle", "done"}
    BY <1>7, <2>2 DEF OpenStore, Delisted, TypeOK, RemType, RemStages, ProxyType, PclStages
  <2> QED
    BY <2>1, <2>2, <2>3 DEF SweptInv
<1>8. ASSUME NEW p \in Proxies, ProxyCloseBegin(p)
      PROVE  SweptInv'
  <2>1. Kept /\ UNCHANGED <<rem, due, pdue>> /\ pcl[p] = "idle"
    BY <1>8 DEF ProxyCloseBegin
  <2>2. \A q \in Proxies : pcl'[q] = IF q = p THEN "done" ELSE pcl[q]
    BY <1>8 DEF ProxyCloseBegin, TypeOK, ProxyType
  <2> QED
    BY <1>1, <2>1, <2>2 DEF SweptInv
<1>15. ASSUME NEW p \in Proxies, ProxyCloseRange(p)
      PROVE  SweptInv'
  <2>1. Kept /\ UNCHANGED <<sessions, proxyOf, rem, due>> /\ pcl[p] = "done"
    BY <1>15 DEF ProxyCloseRange
  <2>2. \A q \in Proxies : pcl'[q] = IF q = p THEN "range" ELSE pcl[q]
    BY <1>15 DEF ProxyCloseRange, TypeOK, ProxyType
  <2>3. /\ \A i \in sessions : proxyOf[i] = p => i \in pdue'[p]
        /\ \A q \in Proxies : q # p => pdue'[q] = pdue[q]
    BY <1>15 DEF ProxyCloseRange, TypeOK, ProxyType
  <2> QED
    BY <1>1, <2>1, <2>2, <2>3 DEF SweptInv
<1>9. ASSUME NEW p \in Proxies, ProxyCloseEnd(p)
      PROVE  SweptInv'
  <2>1. Kept /\ UNCHANGED <<rem, due, pdue>> /\ pcl[p] = "range" /\ pdue[p] \cap sessions = {}
    BY <1>9 DEF ProxyCloseEnd
  <2>2. \A q \in Proxies : q # p => pcl'[q] = pcl[q]
    BY <1>9 DEF ProxyCloseEnd, TypeOK, ProxyType
  <2>3. \A id \in sessions \ late : proxyOf[id] # p
    BY <1>1, <2>1 DEF SweptInv
  <2> QED
    BY <1>1, <2>1, <2>2, <2>3 DEF SweptInv
<1>10. ASSUME NEW c \in Conns,
              \/ WorkerReader(c) \/ WorkerWrite(c) \/ RemoveDelete(c)
              \/ \E id \in Ids : RemoveVisit(c, id)
       PROVE  SweptInv'
  BY <1>2, <1>10 DEF WorkerReader, WorkerRead, WorkerForward, WorkerDelete, WorkerWrite,
     RemoveVisit, RemoveDelete
<1>11. ASSUME NEW p \in Proxies, ProxyHandler(p), ~ OpenStore(p)
       PROVE  SweptInv'
  BY <1>2, <1>11 DEF ProxyHandler, ProxyUpgrade, NewProxyConnection, ProxyHello, ProxyReadEnds,
     ProxyRequest, OpenSend, ProxyBinary, ForwardData, ForwardClose, EndClose, ProxyReply,
     ProxyHandlerExit
<1>12. ASSUME NEW p \in Proxies, ProxyWrite(p) \/ \E id \in Ids : ProxyCloseVisit(p, id)
       PROVE  SweptInv'
  BY <1>2, <1>12 DEF ProxyWrite, ProxyCloseVisit
<1>13. CASE CloseAllSessions \/ \E id \in Ids : CloserSend(id)
  BY <1>2, <1>13 DEF CloseAllSessions, CloserSend
<1>14. CASE UNCHANGED <<chanVars, sessVars, proxyVars, rem, due, visit>>
  BY <1>2, <1>14
<1> QED
  BY <1>3, <1>4, <1>5, <1>6, <1>7, <1>8, <1>9, <1>10, <1>11, <1>12, <1>13, <1>14, <1>15,
     SessionFrame DEF RemoveWorker, ProxyClose

\* SweptSessions always holds: no Range of removeWorker or of
\* ProxyConnection.close misses a session that was stored before it.
THEOREM SweptSafe == Spec => []SweptSessions
<1>1. Init => SweptInv
  BY DEF Init, SweptInv
<1>2. SweptInv => SweptSessions
  BY DEF SweptInv, SweptSessions, Done
<1> QED
  BY <1>1, <1>2, TypeAndBound, SweptStep, PTL DEF Spec

-----------------------------------------------------------------------------
(* EndIsAnnounced.                                                         *)

\* The Proxy of session id knows, or is about to learn, that it has ended.
Announced(id) ==
    \/ id \in told \cup hungup
    \/ pcl[proxyOf[id]] # "idle"
    \/ req[proxyOf[id]] = id /\ ph[proxyOf[id]] \in {"replyClose", "replyError"}
    \/ phase = "exited"

\* The end of a session is told to its Proxy, or its Proxy is closed.
LEMMA TellAnnounces ==
    ASSUME NEW id, NEW cmd, TellProxy(id, cmd), UNCHANGED <<pcl, proxyOf>>
    PROVE  told \subseteq told' /\ Announced(id)'
  BY DEF TellProxy, WriteFails, Announced

\* What has been announced stays so, but for the reply that delivers it.
LEMMA AnnouncedStays ==
    ASSUME TypeOK, [Next]_vars
    PROVE  /\ told \subseteq told' /\ hungup \subseteq hungup'
           /\ \A p \in Proxies : pcl[p] # "idle" => pcl'[p] # "idle"
           /\ \A p \in Proxies :
                ph[p] \in {"replyClose", "replyError"} /\ ~ ProxyReply(p) =>
                    ph'[p] = ph[p] /\ req'[p] = req[p]
<1> USE DEF chanVars, sessVars, proxyVars, TypeOK, SessType, ProxyType
<1> DEFINE Goal == /\ told \subseteq told' /\ hungup \subseteq hungup'
                   /\ \A p \in Proxies : pcl[p] # "idle" => pcl'[p] # "idle"
                   /\ \A p \in Proxies :
                        ph[p] \in {"replyClose", "replyError"} /\ ~ ProxyReply(p) =>
                            ph'[p] = ph[p] /\ req'[p] = req[p]
<1> SUFFICES Goal
  OBVIOUS
<1>1. CASE UNCHANGED <<told, hungup, ph, req, pcl>>
  BY <1>1
<1>2. ASSUME NEW c \in Conns, RemoveWorker(c)
      PROVE  Goal
  BY <1>2 DEF RemoveWorker, RemoveBegin, RemoveFromGroup, RemoveVisit, RemoveDelete, RemoveDone,
     RemoveOffline,
     TellProxy
<1>3. ASSUME NEW c \in Conns, WorkerReader(c) \/ WorkerWrite(c)
      PROVE  Goal
  BY <1>3 DEF WorkerReader, WorkerRead, WorkerForward, WorkerDelete, WorkerWrite, TellProxy
<1>4. ASSUME NEW p \in Proxies,
             ProxyUpgrade(p) \/ NewProxyConnection(p) \/ ProxyHello(p) \/ ProxyReadEnds(p)
      PROVE  Goal
  BY <1>4 DEF ProxyUpgrade, NewProxyConnection, ProxyHello, ProxyReadEnds
<1>5. ASSUME NEW p \in Proxies, NEW id \in Ids, NEW g \in Groups, ProxyRequest(p, id, g)
      PROVE  Goal
  BY <1>5 DEF ProxyRequest
<1>6. ASSUME NEW p \in Proxies, OpenStore(p)
      PROVE  Goal
  BY <1>6 DEF OpenStore
<1>7. ASSUME NEW p \in Proxies, OpenSend(p)
      PROVE  Goal
  BY <1>7 DEF OpenSend
<1>8. ASSUME NEW p \in Proxies, NEW id \in Ids, NEW cmd \in {"Data", "Close"},
             ProxyBinary(p, id, cmd)
      PROVE  Goal
  BY <1>8 DEF ProxyBinary
<1>9. ASSUME NEW p \in Proxies,
             ForwardData(p) \/ ForwardClose(p) \/ EndClose(p) \/ ProxyHandlerExit(p)
      PROVE  Goal
  BY <1>9 DEF ForwardData, ForwardClose, EndClose, ProxyHandlerExit
<1>10. ASSUME NEW p \in Proxies, ProxyReply(p)
       PROVE  Goal
  <2>1. told \subseteq told' /\ UNCHANGED <<hungup, pcl>>
    BY <1>10 DEF ProxyReply, TellProxy
  <2>2. \A q \in Proxies : q # p => ph'[q] = ph[q] /\ req'[q] = req[q]
    BY <1>10 DEF ProxyReply
  <2> QED
    BY <1>10, <2>1, <2>2
<1>11. ASSUME NEW p \in Proxies, ProxyClose(p) \/ ProxyWrite(p)
       PROVE  Goal
  BY <1>11 DEF ProxyClose, ProxyCloseBegin, ProxyCloseRange, ProxyCloseVisit, ProxyCloseEnd,
     ProxyWrite
<1>12. CASE CloseAllSessions \/ \E id \in Ids : CloserSend(id)
  BY <1>1, <1>12 DEF CloseAllSessions, CloserSend
<1>13. CASE UNCHANGED <<chanVars, sessVars, proxyVars, rem, due, visit>>
  BY <1>1, <1>13
<1> HIDE DEF Goal
<1> QED
  BY <1>2, <1>3, <1>4, <1>5, <1>6, <1>7, <1>8, <1>9, <1>10, <1>11, <1>12, <1>13, SessionFrame
     DEF ProxyHandler

\* A session that a step takes out of the table is announced by that step.
LEMMA LeavingIsAnnounced ==
    ASSUME TypeOK, SessionsBound, EndInv, [Next]_vars, NEW id \in sessions \ sessions'
    PROVE  Announced(id)'
<1> USE DEF chanVars, sessVars, proxyVars
<1>1. id \in Ids /\ proxyOf[id] \in Proxies /\ proxyOf'[id] = proxyOf[id]
  BY EndsStable DEF TypeOK, SessType, SessionsBound
<1>2. ASSUME NEW c \in Conns, RemoveWorker(c)
      PROVE  Announced(id)'
  <2>1. RemoveDelete(c) /\ id = visit[c] /\ visit[c] # None
    BY <1>2 DEF RemoveWorker, RemoveBegin, RemoveFromGroup, RemoveVisit, RemoveDelete, RemoveDone,
       RemoveOffline
  <2>2. Told(id) /\ UNCHANGED <<told, pcl, proxyOf>>
    BY <2>1 DEF EndInv, RemoveDelete
  <2> QED
    BY <2>2 DEF Told, Announced
<1>3. ASSUME NEW c \in Conns, WorkerReader(c) \/ WorkerWrite(c)
      PROVE  Announced(id)'
  <2>1. WorkerDelete(c) /\ id = rd[c].id
    BY <1>3 DEF WorkerReader, WorkerRead, WorkerForward, WorkerDelete, WorkerWrite
  <2>2. Told(id) /\ UNCHANGED <<told, pcl, proxyOf>>
    BY <2>1 DEF EndInv, WorkerDelete
  <2> QED
    BY <2>2 DEF Told, Announced
<1>4. ASSUME NEW p \in Proxies, OpenSend(p) \/ ForwardData(p)
      PROVE  Announced(id)'
  <2>1. id = req[p] /\ proxyOf[id] = p
    BY <1>4 DEF OpenSend, ForwardData, SessionsBound
  <2>2. req'[p] = id /\ ph'[p] \in {"replyClose", "replyError"}
    BY <1>4, <2>1 DEF OpenSend, ForwardData, TypeOK, ProxyType
  <2> QED
    BY <1>1, <2>1, <2>2 DEF Announced
<1>5. ASSUME NEW p \in Proxies, EndClose(p)
      PROVE  Announced(id)'
  BY <1>5 DEF EndClose, Announced
<1>6. ASSUME NEW p \in Proxies, ProxyHandler(p),
             ~ (OpenSend(p) \/ ForwardData(p) \/ EndClose(p))
      PROVE  FALSE
  BY <1>6 DEF ProxyHandler, ProxyUpgrade, NewProxyConnection, ProxyHello, ProxyReadEnds,
     ProxyRequest, OpenStore, ProxyBinary, ForwardClose, ProxyReply, ProxyHandlerExit
<1>7. ASSUME NEW p \in Proxies, ProxyClose(p) \/ ProxyWrite(p)
      PROVE  Announced(id)'
  <2>1. ProxyCloseVisit(p, id)
    BY <1>7 DEF ProxyClose, ProxyCloseBegin, ProxyCloseRange, ProxyCloseVisit, ProxyCloseEnd,
       ProxyWrite
  <2> QED
    BY <2>1 DEF ProxyCloseVisit, Announced
<1>8. CASE CloseAllSessions \/ \E i \in Ids : CloserSend(i)
  BY <1>8 DEF CloseAllSessions, CloserSend, Announced
<1> QED
  BY <1>2, <1>3, <1>4, <1>5, <1>6, <1>7, <1>8, SessionFrame

\* A session enters the table when it is stored, so it ends after it began.
LEMMA StoredStep ==
    ASSUME [Next]_vars
    PROVE  stored \subseteq stored' /\ stored' \subseteq stored \cup sessions'
<1> USE DEF chanVars, sessVars
<1>1. ASSUME NEW c \in Conns, RemoveWorker(c) \/ WorkerReader(c) \/ WorkerWrite(c)
      PROVE  UNCHANGED stored
  BY <1>1 DEF RemoveWorker, RemoveBegin, RemoveFromGroup, RemoveVisit, RemoveDelete, RemoveDone,
     RemoveOffline, WorkerReader, WorkerRead, WorkerForward, WorkerDelete, WorkerWrite
<1>2. ASSUME NEW p \in Proxies, ProxyHandler(p)
      PROVE  stored \subseteq stored' /\ stored' \subseteq stored \cup sessions'
  BY <1>2 DEF ProxyHandler, ProxyUpgrade, NewProxyConnection, ProxyHello, ProxyReadEnds,
     ProxyRequest, OpenStore, OpenSend, ProxyBinary, ForwardData, ForwardClose, EndClose,
     ProxyReply,
     ProxyHandlerExit
<1>3. ASSUME NEW p \in Proxies, ProxyClose(p) \/ ProxyWrite(p)
      PROVE  UNCHANGED stored
  BY <1>3 DEF ProxyClose, ProxyCloseBegin, ProxyCloseRange, ProxyCloseVisit, ProxyCloseEnd,
     ProxyWrite
<1>4. CASE CloseAllSessions \/ \E id \in Ids : CloserSend(id)
  BY <1>4 DEF CloseAllSessions, CloserSend
<1> QED
  BY <1>1, <1>2, <1>3, <1>4, SessionFrame

\* Only removeWorker moves its Range on.
LEMMA VisitFrame ==
    ASSUME [Next]_vars
    PROVE  UNCHANGED visit \/ \E c \in Conns : RemoveWorker(c)
<1> USE DEF remVars
<1>1. ASSUME NEW c \in Conns, WorkerReader(c) \/ WorkerWrite(c)
      PROVE  UNCHANGED visit
  BY <1>1 DEF WorkerReader, WorkerRead, WorkerForward, WorkerDelete, WorkerWrite
<1>2. ASSUME NEW p \in Proxies, ProxyHandler(p)
      PROVE  UNCHANGED visit
  BY <1>2 DEF ProxyHandler, ProxyUpgrade, NewProxyConnection, ProxyHello, ProxyReadEnds,
     ProxyRequest, OpenStore, OpenSend, ProxyBinary, ForwardData, ForwardClose, EndClose,
     ProxyReply, ProxyHandlerExit
<1>3. ASSUME NEW p \in Proxies, ProxyClose(p) \/ ProxyWrite(p)
      PROVE  UNCHANGED visit
  BY <1>3 DEF ProxyClose, ProxyCloseBegin, ProxyCloseRange, ProxyCloseVisit, ProxyCloseEnd,
     ProxyWrite
<1>4. CloseAllSessions \/ (\E id \in Ids : CloserSend(id)) => UNCHANGED visit
  BY DEF CloseAllSessions, CloserSend
<1> QED
  BY <1>1, <1>2, <1>3, <1>4, SessionFrame

\* EndIsAnnounced is preserved by every step.
LEMMA AnnouncedStep ==
    TypeOK /\ SessionsBound /\ EndInv /\ [Next]_vars => EndIsAnnounced'
<1> SUFFICES ASSUME TypeOK, SessionsBound, EndInv, [Next]_vars,
                    NEW id \in stored' \ sessions'
             PROVE  Announced(id)'
  BY DEF EndIsAnnounced, Announced
<1>1. id \in stored
  BY StoredStep
<1>2. CASE id \in sessions
  BY <1>2, LeavingIsAnnounced
<1>3. CASE id \notin sessions
  <2>1. id \in Ids /\ proxyOf[id] \in Proxies /\ proxyOf'[id] = proxyOf[id]
    BY <1>1, EndsStable DEF TypeOK, SessType, SessionsBound
  <2>2. Announced(id)
    BY <1>1, <1>3 DEF EndInv, EndIsAnnounced, Announced
  <2>3. CASE id \in told \cup hungup \/ pcl[proxyOf[id]] # "idle"
    BY <2>1, <2>3, AnnouncedStays DEF Announced
  <2>4. CASE phase = "exited"
    BY <2>4, ExitIsFinal DEF Announced, vars, mainVars
  <2>5. CASE req[proxyOf[id]] = id /\ ph[proxyOf[id]] \in {"replyClose", "replyError"}
    <3>1. CASE ProxyReply(proxyOf[id])
      <4>1. UNCHANGED <<pcl, proxyOf>> /\ \E cmd \in {"Close", "Error"} : TellProxy(id, cmd)
        BY <2>5, <3>1 DEF ProxyReply
      <4> QED
        BY <4>1, TellAnnounces
    <3>2. CASE ~ ProxyReply(proxyOf[id])
      BY <2>1, <2>5, <3>2, AnnouncedStays DEF Announced
    <3> QED
      BY <3>1, <3>2
  <2> QED
    BY <2>2, <2>3, <2>4, <2>5 DEF Announced
<1> QED
  BY <1>2, <1>3

\* What the Proxy of a session has been told stays told.
LEMMA ToldStays ==
    ASSUME TypeOK, SessionsBound, [Next]_vars, NEW id \in Ids, proxyOf[id] # None, Told(id)
    PROVE  Told(id)'
<1>1. proxyOf[id] \in Proxies /\ proxyOf'[id] = proxyOf[id]
  BY EndsStable DEF TypeOK, SessType
<1> QED
  BY <1>1, AnnouncedStays DEF Told

\* A session about to be deleted by the removal of its Worker has been told.
LEMMA VisitTold ==
    ASSUME TypeOK, SessionsBound, EndInv, [Next]_vars,
           NEW c \in Conns, NEW id \in Ids, visit'[c] = id
    PROVE  id \in stored' /\ Told(id)'
<1> USE NoneIsNil DEF sessVars, proxyVars
<1>1. CASE visit[c] = id
  <2>1. id \in stored /\ Told(id)
    BY <1>1 DEF EndInv, Told
  <2>2. proxyOf[id] # None
    BY <2>1 DEF SessionsBound
  <2> QED
    BY <2>1, <2>2, ToldStays, StoredStep
<1>2. CASE visit[c] # id
  <2>1. PICK d \in Conns : RemoveWorker(d)
    BY <1>2, VisitFrame
  <2>2. RemoveVisit(c, id)
    BY <1>2, <2>1 DEF RemoveWorker, RemoveBegin, RemoveFromGroup, RemoveVisit, RemoveDelete,
       RemoveDone, RemoveOffline, TypeOK, RemType
  <2>3. id \in stored' /\ UNCHANGED <<pcl, proxyOf>>
    BY <2>2 DEF RemoveVisit, SessionsBound
  <2> QED
    BY <2>2, <2>3 DEF RemoveVisit, TellProxy, WriteFails, Told
<1> QED
  BY <1>1, <1>2

\* A session about to be deleted by the reader of its Worker has been told.
LEMMA DeleteTold ==
    ASSUME TypeOK, SessionsBound, EndInv, [Next]_vars,
           NEW c \in Conns, NEW id \in Ids,
           rd'[c] = [id |-> id, cmd |-> "Delete"], rd'[c] # None
    PROVE  Told(id)'
<1> USE NoneIsNil DEF chanVars, sessVars, proxyVars
<1>1. CASE rd[c] = [id |-> id, cmd |-> "Delete"]
  <2>1. rd[c] # None
    BY <1>1
  <2>2. Told(id) /\ workerOf[id] # None
    BY <1>1, <2>1 DEF EndInv, Told, SessionsBound
  <2>3. proxyOf[id] # None
    BY <2>2 DEF SessionsBound
  <2> QED
    BY <2>2, <2>3, ToldStays
<1>2. CASE rd[c] # [id |-> id, cmd |-> "Delete"]
  <2>1. PICK d \in Conns : WorkerReader(d)
    BY <1>2, ReaderFrame
  <2>2. WorkerForward(c) /\ rd[c].id = id
    BY <1>2, <2>1 DEF WorkerReader, WorkerRead, WorkerForward, WorkerDelete, TypeOK, ChanType
  <2>3. /\ UNCHANGED <<pcl, proxyOf>>
        /\ TellProxy(id, "Close") \/ WriteFails(proxyOf[id])
    BY <2>2 DEF WorkerForward, TypeOK, ChanType
  <2> QED
    BY <2>3 DEF TellProxy, WriteFails, Told
<1> QED
  BY <1>1, <1>2

\* EndInv is preserved by every step.
LEMMA EndStep == TypeOK /\ SessionsBound /\ EndInv /\ [Next]_vars => EndInv'
<1> SUFFICES ASSUME TypeOK, TypeOK', SessionsBound, EndInv, [Next]_vars PROVE EndInv'
  BY TypeStep
<1>1. ASSUME NEW c \in Conns, visit'[c] # None
      PROVE  visit'[c] \in stored' /\ (visit'[c] \in told' \/ pcl'[proxyOf'[visit'[c]]] # "idle")
  <2>1. PICK id \in Ids : visit'[c] = id
    BY <1>1 DEF TypeOK, RemType
  <2> QED
    BY <2>1, VisitTold DEF Told
<1>2. ASSUME NEW c \in Conns, rd'[c] # None, rd'[c].cmd = "Delete"
      PROVE  rd'[c].id \in told' \/ pcl'[proxyOf'[rd'[c].id]] # "idle"
  <2>1. PICK id \in Ids : rd'[c] = [id |-> id, cmd |-> "Delete"]
    BY <1>2 DEF TypeOK, ChanType, FromWorker, ToDelete
  <2> QED
    BY <1>2, <2>1, DeleteTold DEF Told
<1> QED
  BY <1>1, <1>2, AnnouncedStep DEF EndInv, Told

\* EndIsAnnounced always holds: whichever goroutine ends a session, and in
\* whatever order, its Proxy hears of it unless it is closed or hung up.
THEOREM EndsAnnounced == Spec => []EndIsAnnounced
<1>1. Init => EndInv
  BY DEF Init, EndInv, EndIsAnnounced
<1>2. EndInv => EndIsAnnounced
  BY DEF EndInv
<1> QED
  BY <1>1, <1>2, TypeAndBound, EndStep, PTL DEF Spec

-----------------------------------------------------------------------------
(* ActiveIsRoutable.                                                       *)

\* The handler of c is past addWorkerToGroup and its removal is not yet past
\* removeWorkerFromGroup.
Routable(c) == hs[c] \in {"listed", "up"} /\ rem[c] \in {"idle", "group"} /\ groupName[c] # NoGroup

\* append(g.workers, w) lists w and keeps the others.
LEMMA AppendLists ==
    ASSUME NEW s \in Seq(Conns), NEW c \in Conns
    PROVE  Listed(Append(s, c), c) /\ \A d \in Conns : Listed(s, d) => Listed(Append(s, c), d)
<1>1. Len(Append(s, c)) = Len(s) + 1 /\ Append(s, c)[Len(s) + 1] = c
  OBVIOUS
<1>2. \A i \in 1 .. Len(s) : Append(s, c)[i] = s[i] /\ i \in 1 .. Len(Append(s, c))
  OBVIOUS
<1>3. Len(s) + 1 \in 1 .. Len(Append(s, c))
  BY <1>1
<1> QED
  BY <1>1, <1>2, <1>3 DEF Listed

\* removeWorkerFromGroup(c, g) keeps every other worker in its group.
LEMMA DelistKeeps ==
    ASSUME RegType, NEW c \in Conns, NEW g \in AllGroups, NEW d \in Conns, d # c,
           NEW h \in AllGroups, Listed(groups[h], d)
    PROVE  Listed(Delist(c, g)[h], d)
<1>1. groups[g] \in Seq(Conns) /\ groups[h] \in Seq(Conns)
  BY DEF RegType
<1>2. CASE g = h
  <2>1. Delist(c, g)[h] = RemoveFirst(groups[h], c)
    BY <1>2 DEF Delist, RegType
  <2>2. Listed(RemoveFirst(groups[h], c), d)
    BY <1>1, RemoveFirstKeeps
  <2> QED
    BY <2>1, <2>2
<1>3. CASE g # h
  BY <1>3 DEF Delist, RegType
<1> QED
  BY <1>2, <1>3

\* moveWorkerToGroup loses no worker.
LEMMA MoveRoutable ==
    ASSUME TypeOK, SyncMove, NEW d \in Conns, Routable(d)',
           Routable(d) => Listed(groups[groupName[d]], d)
    PROVE  Listed(groups'[groupName'[d]], d)
<1> USE NoneIsNil DEF AllGroups
<1> DEFINE w == mv.w
           g == mv.g
           f == groupName[w]
<1>1. w \in Conns /\ g \in AllGroups /\ f \in AllGroups /\ UNCHANGED <<hs, rem>>
  BY DEF SyncMove, remVars, TypeOK, SyncType, RegType
<1>2. groups \in [AllGroups -> Seq(Conns)] /\ groupName \in [Conns -> AllGroups] /\ RegType
  BY DEF TypeOK, RegType
<1>3. Delist(w, f) \in [AllGroups -> Seq(Conns)]
  BY <1>1, <1>2, DelistType
<1> HIDE DEF w, g, f
<1>4. CASE UNCHANGED <<groups, groupName>>
  BY <1>1, <1>4 DEF Routable
<1>5. CASE /\ groupName' = [groupName EXCEPT ![w] = g]
           /\ groups' = IF g = NoGroup THEN Delist(w, f)
                        ELSE [Delist(w, f) EXCEPT ![g] = Append(@, w)]
  <2>1. CASE d = w
    <3>1. groupName'[d] = g /\ g # NoGroup
      BY <1>2, <1>5, <2>1 DEF Routable
    <3>2. groups'[g] = Append(Delist(w, f)[g], w)
      BY <1>1, <1>3, <1>5, <3>1
    <3>3. Delist(w, f)[g] \in Seq(Conns)
      BY <1>1, <1>3
    <3> QED
      BY <1>1, <2>1, <3>1, <3>2, <3>3, AppendLists
  <2>2. CASE d # w
    <3> DEFINE h == groupName[d]
    <3>1. groupName'[d] = h /\ h \in AllGroups /\ Listed(groups[h], d)
      BY <1>1, <1>2, <1>5, <2>2 DEF Routable
    <3>2. Listed(Delist(w, f)[h], d) /\ Delist(w, f)[h] \in Seq(Conns)
      BY <1>1, <1>2, <1>3, <2>2, <3>1, DelistKeeps
    <3> HIDE DEF h
    <3>3. groups'[h] = Delist(w, f)[h] \/ groups'[h] = Append(Delist(w, f)[h], w)
      BY <1>1, <1>3, <1>5, <3>1
    <3>4. Listed(groups'[h], d)
      BY <1>1, <3>2, <3>3, AppendLists
    <3> QED
      BY <3>1, <3>4
  <2> QED
    BY <2>1, <2>2
<1> QED
  BY <1>4, <1>5 DEF SyncMove, w, g, f

\* Once shutting down, always shutting down.
LEMMA ServingBefore ==
    ASSUME [Next]_vars, phase' = "serving"
    PROVE  phase = "serving"
<1> USE DEF mainVars
<1>1. CASE Main
  BY <1>1 DEF Main, ShutdownSignal, ServerFails, CloseAllWorkers, CloseNext, CloseReturns,
     CloseAllProxyConnections, CloseAllSessions
<1>2. CASE UNCHANGED phase
  BY <1>2
<1>3. ASSUME NEW c \in Conns, WorkerHandler(c) \/ RemoveWorker(c)
      PROVE  UNCHANGED phase
  BY <1>3 DEF WorkerHandler, WorkerUpgrade, WorkerHello, RegisterWorker, GetWorkerGroup,
     LookupOld, SetActiveWorker, AddWorkerToGroup, HandlerUp, RemoveWorker, RemoveBegin,
     RemoveFromGroup, RemoveVisit, RemoveDelete, RemoveDone, RemoveOffline
<1>4. ASSUME NEW c \in Conns, WorkerReader(c) \/ WorkerWrite(c)
      PROVE  UNCHANGED phase
  BY <1>4 DEF WorkerReader, WorkerRead, WorkerForward, WorkerDelete, WorkerWrite
<1>5. SyncWorkersFromDB \/ Admin => UNCHANGED phase
  BY DEF SyncWorkersFromDB, SyncLoad, SyncPick, SyncMove, Admin, AdminRead, AdminSave,
     AdminDelete
<1>6. ASSUME NEW p \in Proxies, ProxyHandler(p)
      PROVE  UNCHANGED phase
  BY <1>6 DEF ProxyHandler, ProxyUpgrade, NewProxyConnection, ProxyHello, ProxyReadEnds,
     ProxyRequest, OpenStore, OpenSend, ProxyBinary, ForwardData, ForwardClose, EndClose,
     ProxyReply,
     ProxyHandlerExit
<1>7. ASSUME NEW p \in Proxies, ProxyClose(p) \/ ProxyWrite(p)
      PROVE  UNCHANGED phase
  BY <1>7 DEF ProxyClose, ProxyCloseBegin, ProxyCloseRange, ProxyCloseVisit, ProxyCloseEnd,
     ProxyWrite
<1>8. (\E id \in Ids : CloserSend(id)) \/ UNCHANGED vars => UNCHANGED phase
  BY DEF CloserSend, vars
<1> QED
  BY <1>1, <1>2, <1>3, <1>4, <1>5, <1>6, <1>7, <1>8 DEF Next, Running, Exited

\* Only a handler, a removal or the sync loop changes the group lists.
LEMMA GroupFrame ==
    ASSUME [Next]_vars
    PROVE  \/ UNCHANGED <<hs, rem, groupName, groups, misplaced>>
           \/ \E c \in Conns : WorkerHandler(c) \/ RemoveWorker(c)
           \/ SyncMove
<1> USE DEF regVars, remVars
<1>1. CASE SyncWorkersFromDB /\ ~ SyncMove
  BY <1>1 DEF SyncWorkersFromDB, SyncLoad, SyncPick
<1>2. CASE Admin
  BY <1>2 DEF Admin, AdminRead, AdminSave, AdminDelete
<1>3. ASSUME NEW c \in Conns, WorkerReader(c) \/ WorkerWrite(c)
       PROVE  UNCHANGED <<hs, rem, groupName, groups, misplaced>>
  BY <1>3 DEF WorkerReader, WorkerRead, WorkerForward, WorkerDelete, WorkerWrite
<1>4. ASSUME NEW p \in Proxies, ProxyHandler(p)
       PROVE  UNCHANGED <<hs, rem, groupName, groups, misplaced>>
  BY <1>4 DEF ProxyHandler, ProxyUpgrade, NewProxyConnection, ProxyHello, ProxyReadEnds,
     ProxyRequest, OpenStore, OpenSend, ProxyBinary, ForwardData, ForwardClose, EndClose,
     ProxyReply,
     ProxyHandlerExit
<1>5. ASSUME NEW p \in Proxies, ProxyClose(p) \/ ProxyWrite(p)
       PROVE  UNCHANGED <<hs, rem, groupName, groups, misplaced>>
  BY <1>5 DEF ProxyClose, ProxyCloseBegin, ProxyCloseRange, ProxyCloseVisit, ProxyCloseEnd,
     ProxyWrite
<1>6. Main \/ (\E id \in Ids : CloserSend(id)) \/ UNCHANGED vars
         => UNCHANGED <<hs, rem, groupName, groups, misplaced>>
  BY DEF CloserSend, vars, Main, ShutdownSignal, ServerFails, CloseAllWorkers, CloseNext,
     CloseReturns, CloseAllProxyConnections, CloseAllSessions
<1> QED
  BY <1>1, <1>2, <1>3, <1>4, <1>5, <1>6 DEF Next, Running, Exited

\* ActiveIsRoutable is preserved by every step.
LEMMA RoutableStep == TypeOK /\ ActiveIsRoutable /\ [Next]_vars => ActiveIsRoutable'
<1> SUFFICES ASSUME TypeOK, ActiveIsRoutable, [Next]_vars, phase' = "serving",
                    NEW d \in Conns, Routable(d)'
             PROVE  Listed(groups'[groupName'[d]], d)
  BY DEF ActiveIsRoutable, Routable, Listed, Shutting
<1> USE DEF mainVars, regVars, remVars
<1>1. phase = "serving"
  BY ServingBefore
<1>2. Routable(d) => Listed(groups[groupName[d]], d)
  BY <1>1 DEF ActiveIsRoutable, Routable, Listed, Shutting
<1>3. CASE UNCHANGED <<hs, rem, groupName, groups>>
  BY <1>2, <1>3 DEF Routable
<1>4. ASSUME NEW c \in Conns, WorkerHandler(c), ~ AddWorkerToGroup(c)
      PROVE  Listed(groups'[groupName'[d]], d)
  <2>1. UNCHANGED <<groups, rem>>
    BY <1>4 DEF WorkerHandler, WorkerUpgrade, WorkerHello, RegisterWorker, GetWorkerGroup,
       LookupOld, SetActiveWorker, HandlerUp
  <2>2. hs'[d] \in {"listed", "up"} => hs[d] \in {"listed", "up"} /\ groupName'[d] = groupName[d]
    BY <1>4 DEF WorkerHandler, WorkerUpgrade, WorkerHello, RegisterWorker, GetWorkerGroup,
       LookupOld, SetActiveWorker, HandlerUp, TypeOK, RegType
  <2> QED
    BY <1>2, <2>1, <2>2 DEF Routable
<1>5. ASSUME NEW c \in Conns, AddWorkerToGroup(c)
      PROVE  Listed(groups'[groupName'[d]], d)
  <2> DEFINE g == groupName[c]
  <2>1. g \in AllGroups /\ groups[g] \in Seq(Conns) /\ groups[groupName[d]] \in Seq(Conns)
    BY DEF TypeOK, RegType
  <2>2. groups' = [groups EXCEPT ![g] = Append(groups[g], c)] /\ UNCHANGED <<groupName, rem>>
    BY <1>1, <1>5 DEF AddWorkerToGroup, Shutting
  <2>3. CASE d = c
    BY <2>1, <2>2, <2>3, AppendLists DEF TypeOK, RegType
  <2>4. CASE d # c
    <3>1. hs'[d] = hs[d]
      BY <1>5, <2>4 DEF AddWorkerToGroup, TypeOK, RegType
    <3>2. Listed(groups[groupName[d]], d) /\ groupName[d] \in AllGroups
      BY <1>2, <2>2, <3>1 DEF Routable, TypeOK, RegType
    <3>3. \/ groups'[groupName[d]] = groups[groupName[d]]
          \/ groups'[groupName[d]] = Append(groups[groupName[d]], c)
      BY <2>2, <3>2 DEF TypeOK, RegType
    <3> QED
      BY <2>1, <2>2, <3>2, <3>3, AppendLists
  <2> QED
    BY <2>3, <2>4
<1>6. ASSUME NEW c \in Conns, RemoveFromGroup(c)
      PROVE  Listed(groups'[groupName'[d]], d)
  <2>1. d # c /\ rem'[d] = rem[d]
    BY <1>6 DEF RemoveFromGroup, Routable, TypeOK, RemType
  <2>2. groups' = Delist(c, groupName[c]) /\ UNCHANGED <<hs, groupName>>
    BY <1>6 DEF RemoveFromGroup
  <2>3. RegType /\ groupName[c] \in AllGroups /\ groupName[d] \in AllGroups
    BY DEF TypeOK, RegType
  <2> QED
    BY <1>2, <2>1, <2>2, <2>3, DelistKeeps DEF Routable
<1>7. ASSUME NEW c \in Conns, RemoveWorker(c), ~ RemoveFromGroup(c)
      PROVE  Listed(groups'[groupName'[d]], d)
  <2>1. UNCHANGED <<hs, groupName, groups>>
    BY <1>7 DEF RemoveWorker, RemoveBegin, RemoveVisit, RemoveDelete, RemoveDone, RemoveOffline
  <2>2. rem'[d] \in {"idle", "group"} => rem[d] \in {"idle", "group"}
    BY <1>7 DEF RemoveWorker, RemoveBegin, RemoveVisit, RemoveDelete, RemoveDone, RemoveOffline,
       TypeOK, RemType
  <2> QED
    BY <1>2, <2>1, <2>2 DEF Routable
<1>8. CASE SyncMove
  BY <1>2, <1>8, MoveRoutable
<1> QED
  BY <1>3, <1>4, <1>5, <1>6, <1>7, <1>8, GroupFrame

\* ActiveIsRoutable always holds: a connected Worker with a group name can be
\* chosen for that group, whatever the sync loop and the other handlers do.
THEOREM RoutableSafe == Spec => []ActiveIsRoutable
<1>1. Init => ActiveIsRoutable
  BY DEF Init, ActiveIsRoutable
<1> QED
  BY <1>1, TypeCorrect, RoutableStep, PTL DEF Spec

-----------------------------------------------------------------------------
(* UpIsRegistered and ActiveIsOnline.                                      *)

\* The handler of c has registered it and its removal has not begun.
Up(c) == hs[c] \in {"active", "listed", "up"} /\ rem[c] = "idle"

\* The registry names c, or the handler that replaced it will remove it.
Known(c) ==
    \/ activeWorkers[GuidOf[c]] = c
    \/ \E d \in Conns : hs[d] \in {"active", "listed"} /\ old[d] = c

\* setActiveWorker knows whom it replaces, but for those it counts as missed.
LEMMA SetActiveKnown ==
    ASSUME TypeOK, phase = "serving", NEW e \in Conns, SetActiveWorker(e),
           NEW c \in Conns, c \notin missed', Up(c)', Up(c) => Known(c)
    PROVE  Known(c)'
<1> USE NoneIsNil, GuidOfType DEF TypeOK, RegType
<1>1. /\ hs' = [hs EXCEPT ![e] = "active"] /\ UNCHANGED <<old, rem>> /\ hs[e] = "made"
      /\ activeWorkers' = [activeWorkers EXCEPT ![GuidOf[e]] = e]
      /\ missed' = missed \cup ({activeWorkers[GuidOf[e]]} \ {None, old[e]})
  BY DEF SetActiveWorker, Shutting, remVars
<1>2. GuidOf[e] \in Guids /\ GuidOf[c] \in Guids
  OBVIOUS
<1>3. CASE c = e
  BY <1>1, <1>2, <1>3 DEF Known
<1>4. CASE c # e
  <2>1. Known(c)
    BY <1>1, <1>4 DEF Up
  <2>2. CASE activeWorkers[GuidOf[c]] = c /\ GuidOf[c] = GuidOf[e]
    <3>1. old[e] = c /\ c # None
      BY <1>1, <2>2
    <3>2. hs'[e] = "active" /\ old'[e] = c
      BY <1>1, <3>1
    <3> QED
      BY <3>2 DEF Known
  <2>3. CASE activeWorkers[GuidOf[c]] = c /\ GuidOf[c] # GuidOf[e]
    BY <1>1, <1>2, <2>3 DEF Known
  <2>4. ASSUME NEW d \in Conns, hs[d] \in {"active", "listed"}, old[d] = c
        PROVE  Known(c)'
    <3>1. hs'[d] = hs[d] /\ old'[d] = c
      BY <1>1, <2>4
    <3> QED
      BY <2>4, <3>1 DEF Known
  <2> QED
    BY <2>1, <2>2, <2>3, <2>4 DEF Known
<1> QED
  BY <1>3, <1>4

\* A handler goes up only when its removeWorker(old) has returned.
LEMMA HandlerKnown ==
    ASSUME TypeOK, phase = "serving", NEW e \in Conns, WorkerHandler(e), ~ SetActiveWorker(e),
           NEW c \in Conns, Up(c)', Up(c) => Known(c)
    PROVE  Known(c)'
<1> USE NoneIsNil DEF TypeOK, RegType, remVars
<1>1. CASE AddWorkerToGroup(e)
  <2>1. /\ hs[e] = "active" /\ hs' = [hs EXCEPT ![e] = "listed"]
        /\ UNCHANGED <<old, activeWorkers, rem>>
    BY <1>1 DEF AddWorkerToGroup, Shutting
  <2>2. Up(c)
    BY <2>1 DEF Up
  <2>3. \A d \in Conns : hs[d] \in {"active", "listed"} => hs'[d] \in {"active", "listed"}
    BY <2>1
  <2> QED
    BY <2>1, <2>2, <2>3 DEF Known
<1>2. CASE HandlerUp(e)
  <2>1. /\ hs[e] = "listed" /\ hs' = [hs EXCEPT ![e] = "up"]
        /\ UNCHANGED <<old, activeWorkers, rem>> /\ (old[e] # None => rem[old[e]] = "finished")
    BY <1>2 DEF HandlerUp
  <2>2. Up(c) /\ old[e] # c
    BY <2>1 DEF Up
  <2>3. \A d \in Conns : d # e => hs'[d] = hs[d]
    BY <2>1
  <2> QED
    BY <2>1, <2>2, <2>3 DEF Known
<1>3. CASE \/ WorkerUpgrade(e) \/ WorkerHello(e) \/ RegisterWorker(e)
           \/ GetWorkerGroup(e) \/ LookupOld(e)
  <2>1. /\ hs[e] \notin {"active", "listed", "up"} /\ hs'[e] \notin {"active", "listed", "up"}
        /\ \A d \in Conns : d # e => hs'[d] = hs[d] /\ old'[d] = old[d]
        /\ UNCHANGED <<activeWorkers, rem>>
    BY <1>3 DEF WorkerUpgrade, WorkerHello, RegisterWorker, GetWorkerGroup, LookupOld
  <2>2. Up(c) /\ c # e
    BY <2>1 DEF Up
  <2> QED
    BY <2>1, <2>2 DEF Known
<1> QED
  BY <1>1, <1>2, <1>3 DEF WorkerHandler

\* UpIsRegistered is preserved by every step.
LEMMA UpStep == TypeOK /\ UpIsRegistered /\ [Next]_vars => UpIsRegistered'
<1> SUFFICES ASSUME TypeOK, UpIsRegistered, [Next]_vars, phase' = "serving",
                    NEW c \in Conns, c \notin missed', Up(c)'
             PROVE  Known(c)'
  BY DEF UpIsRegistered, Up, Known, Shutting
<1> USE NoneIsNil DEF regVars, remVars
<1>1. phase = "serving"
  BY ServingBefore
<1>2. c \notin missed /\ Up(c) => Known(c)
  BY <1>1 DEF UpIsRegistered, Up, Known, Shutting
<1>3. CASE UNCHANGED <<hs, old, activeWorkers, missed, rem>>
  BY <1>2, <1>3 DEF Up, Known
<1>4. ASSUME NEW e \in Conns, WorkerHandler(e)
      PROVE  Known(c)'
  <2>1. missed \subseteq missed'
    BY <1>4 DEF WorkerHandler, WorkerUpgrade, WorkerHello, RegisterWorker, GetWorkerGroup,
       LookupOld, SetActiveWorker, AddWorkerToGroup, HandlerUp
  <2> QED
    BY <1>1, <1>2, <1>4, <2>1, SetActiveKnown, HandlerKnown
<1>5. ASSUME NEW e \in Conns, RemoveBegin(e)
      PROVE  Known(c)'
  <2>1. c # e /\ rem'[c] = rem[c] /\ UNCHANGED <<hs, old, missed>>
    BY <1>5 DEF RemoveBegin, Up, TypeOK, RemType
  <2>2. activeWorkers[GuidOf[c]] = c => activeWorkers'[GuidOf[c]] = c
    BY <1>5, <2>1, GuidOfType DEF RemoveBegin, TypeOK, RegType
  <2> QED
    BY <1>2, <2>1, <2>2 DEF Up, Known
<1>6. ASSUME NEW e \in Conns, RemoveWorker(e), ~ RemoveBegin(e)
      PROVE  Known(c)'
  <2>1. UNCHANGED <<hs, old, activeWorkers, missed>> /\ (rem'[c] = "idle" => rem[c] = "idle")
    BY <1>6 DEF RemoveWorker, RemoveFromGroup, RemoveVisit, RemoveDelete, RemoveDone, RemoveOffline,
       TypeOK, RemType
  <2> QED
    BY <1>2, <2>1 DEF Up, Known
<1>7. CASE Main
  BY <1>3, <1>7 DEF Main, ShutdownSignal, ServerFails, CloseAllWorkers, CloseNext, CloseReturns,
     CloseAllProxyConnections, CloseAllSessions
<1> QED
  BY <1>3, <1>4, <1>5, <1>6, <1>7, RegistryFrame

\* UpIsRegistered always holds: a connected Worker is known to the registry or
\* about to be removed, unless the handler that replaced it never saw it.
THEOREM UpSafe == Spec => []UpIsRegistered
<1>1. Init => UpIsRegistered
  BY DEF Init, UpIsRegistered
<1> QED
  BY <1>1, TypeCorrect, UpStep, PTL DEF Spec

\* Only a handler, a removal and the admin API write the online flags.
LEMMA OnlineFrame ==
    ASSUME [Next]_vars
    PROVE  \/ UNCHANGED <<online, blanked>>
           \/ \E c \in Conns : WorkerHandler(c) \/ RemoveWorker(c)
           \/ Admin
<1> USE DEF dbVars
<1>1. CASE UNCHANGED vars
  BY <1>1 DEF vars
<1>2. CASE SyncWorkersFromDB
  BY <1>2 DEF SyncWorkersFromDB, SyncLoad, SyncPick, SyncMove
<1>3. CASE Main
  BY <1>3 DEF Main, ShutdownSignal, ServerFails, CloseAllWorkers, CloseNext, CloseReturns,
     CloseAllProxyConnections, CloseAllSessions
<1>4. ASSUME NEW c \in Conns, WorkerReader(c) \/ WorkerWrite(c)
      PROVE  UNCHANGED <<online, blanked>>
  BY <1>4 DEF WorkerReader, WorkerRead, WorkerForward, WorkerDelete, WorkerWrite
<1>5. ASSUME NEW p \in Proxies, ProxyHandler(p)
      PROVE  UNCHANGED <<online, blanked>>
  BY <1>5 DEF ProxyHandler, ProxyUpgrade, NewProxyConnection, ProxyHello, ProxyReadEnds,
     ProxyRequest, OpenStore, OpenSend, ProxyBinary, ForwardData, ForwardClose, EndClose,
     ProxyReply, ProxyHandlerExit
<1>6. ASSUME NEW p \in Proxies, ProxyClose(p) \/ ProxyWrite(p)
      PROVE  UNCHANGED <<online, blanked>>
  BY <1>6 DEF ProxyClose, ProxyCloseBegin, ProxyCloseRange, ProxyCloseVisit, ProxyCloseEnd,
     ProxyWrite
<1>7. ASSUME NEW id \in Ids, CloserSend(id)
      PROVE  UNCHANGED <<online, blanked>>
  BY <1>7 DEF CloserSend
<1> QED
  BY <1>1, <1>2, <1>3, <1>4, <1>5, <1>6, <1>7 DEF Next, Running, Exited

\* A row leaves online=TRUE only as the blanked rows say.
LEMMA OnlineKept ==
    ASSUME TypeOK, OnlineInv, [Next]_vars
    PROVE  online \cup blanked \subseteq online' \cup blanked'
<1> USE DEF dbVars
<1>1. ASSUME NEW c \in Conns, WorkerHandler(c)
      PROVE  online \cup blanked \subseteq online' \cup blanked'
  BY <1>1 DEF WorkerHandler, WorkerUpgrade, WorkerHello, RegisterWorker, GetWorkerGroup,
     LookupOld, SetActiveWorker, AddWorkerToGroup, HandlerUp
<1>2. ASSUME NEW c \in Conns, RemoveWorker(c)
      PROVE  online \cup blanked \subseteq online' \cup blanked'
  BY <1>2 DEF RemoveWorker, RemoveBegin, RemoveFromGroup, RemoveVisit, RemoveDelete, RemoveDone,
     RemoveOffline, OnlineInv
<1>3. CASE Admin
  BY <1>3 DEF Admin, AdminRead, AdminSave, AdminDelete
<1> QED
  BY <1>1, <1>2, <1>3, OnlineFrame

\* OnlineInv is preserved by every step.
LEMMA OnlineInvStep == TypeOK /\ OnlineInv /\ [Next]_vars => OnlineInv'
<1> SUFFICES ASSUME TypeOK, OnlineInv, [Next]_vars PROVE OnlineInv'
  OBVIOUS
<1> USE NoneIsNil, GuidOfType DEF TypeOK, RegType, RemType, regVars, remVars
<1>1. ASSUME NEW g \in Guids, activeWorkers'[g] # None
      PROVE  g \in online' \cup blanked'
  <2>1. CASE activeWorkers[g] # None
    BY <2>1, OnlineKept DEF OnlineInv, ActiveIsOnline
  <2>2. CASE activeWorkers[g] = None
    <3>1. PICK c \in Conns : SetActiveWorker(c) /\ g = GuidOf[c]
      <4>1. ASSUME NEW c \in Conns, WorkerHandler(c), ~ SetActiveWorker(c)
            PROVE  UNCHANGED activeWorkers
        BY <4>1 DEF WorkerHandler, WorkerUpgrade, WorkerHello, RegisterWorker, GetWorkerGroup,
           LookupOld, AddWorkerToGroup, HandlerUp
      <4>2. ASSUME NEW c \in Conns, RemoveWorker(c)
            PROVE  activeWorkers'[g] = activeWorkers[g] \/ activeWorkers'[g] = None
        BY <4>2 DEF RemoveWorker, RemoveBegin, RemoveFromGroup, RemoveVisit, RemoveDelete,
           RemoveDone, RemoveOffline
      <4>3. CASE Main
        BY <1>1, <2>2, <4>3 DEF Main, ShutdownSignal, ServerFails, CloseAllWorkers, CloseNext,
           CloseReturns, CloseAllProxyConnections, CloseAllSessions
      <4>4. ASSUME NEW c \in Conns, SetActiveWorker(c), g # GuidOf[c]
            PROVE  activeWorkers'[g] = activeWorkers[g]
        BY <4>4 DEF SetActiveWorker
      <4> QED
        BY <1>1, <2>2, <4>1, <4>2, <4>3, <4>4, RegistryFrame
    <3>2. g \in online \cup blanked
      BY <3>1 DEF SetActiveWorker, OnlineInv
    <3> QED
      BY <3>2, OnlineKept
  <2> QED
    BY <2>1, <2>2
<1>2. ASSUME NEW c \in Conns, hs'[c] \in {"registered", "grouped", "made"}
      PROVE  GuidOf[c] \in online' \cup blanked'
  <2>1. CASE hs[c] \in {"registered", "grouped", "made"}
    BY <2>1, OnlineKept DEF OnlineInv
  <2>2. CASE hs[c] \notin {"registered", "grouped", "made"}
    <3>1. RegisterWorker(c)
      <4>1. ASSUME NEW d \in Conns, WorkerHandler(d)
            PROVE  RegisterWorker(c)
        BY <1>2, <2>2, <4>1 DEF WorkerHandler, WorkerUpgrade, WorkerHello, RegisterWorker,
           GetWorkerGroup, LookupOld, SetActiveWorker, AddWorkerToGroup, HandlerUp
      <4>2. ASSUME NEW d \in Conns, RemoveWorker(d)
            PROVE  UNCHANGED hs
        BY <4>2 DEF RemoveWorker, RemoveBegin, RemoveFromGroup, RemoveVisit, RemoveDelete,
           RemoveDone, RemoveOffline
      <4>3. Main => UNCHANGED hs
        BY DEF Main, ShutdownSignal, ServerFails, CloseAllWorkers, CloseNext, CloseReturns,
           CloseAllProxyConnections, CloseAllSessions
      <4> QED
        BY <1>2, <2>2, <4>1, <4>2, <4>3, RegistryFrame
    <3> QED
      BY <1>2, <3>1 DEF RegisterWorker
  <2> QED
    BY <2>1, <2>2
<1>3. ASSUME NEW c \in Conns, rem'[c] = "db"
      PROVE  c \in wasActive'
  <2>1. ASSUME NEW d \in Conns, RemoveWorker(d)
        PROVE  c \in wasActive'
    BY <1>3, <2>1 DEF RemoveWorker, RemoveBegin, RemoveFromGroup, RemoveVisit, RemoveDelete,
       RemoveDone, RemoveOffline, OnlineInv
  <2>2. ASSUME NEW d \in Conns, WorkerHandler(d)
        PROVE  UNCHANGED <<rem, wasActive>>
    BY <2>2 DEF WorkerHandler, WorkerUpgrade, WorkerHello, RegisterWorker, GetWorkerGroup,
       LookupOld, SetActiveWorker, AddWorkerToGroup, HandlerUp
  <2>3. Main => UNCHANGED <<rem, wasActive>>
    BY DEF Main, ShutdownSignal, ServerFails, CloseAllWorkers, CloseNext, CloseReturns,
       CloseAllProxyConnections, CloseAllSessions
  <2> QED
    BY <1>3, <2>1, <2>2, <2>3, RegistryFrame DEF OnlineInv
<1> QED
  BY <1>1, <1>2, <1>3 DEF OnlineInv, ActiveIsOnline

\* ActiveIsOnline always holds: the removal of an earlier connection never
\* shows the registered Worker of its GUID offline, but for the rows named.
THEOREM ActiveOnlineSafe == Spec => []ActiveIsOnline
<1>1. Init => OnlineInv
  BY DEF Init, OnlineInv, ActiveIsOnline
<1>2. OnlineInv => ActiveIsOnline
  BY DEF OnlineInv
<1> QED
  BY <1>1, <1>2, TypeCorrect, OnlineInvStep, PTL DEF Spec

-----------------------------------------------------------------------------
(* ListedOnce.                                                             *)

\* e occurs in s at most once.
Once(s, e) == \A i, j \in 1 .. Len(s) : s[i] = e /\ s[j] = e => i = j

\* What RemoveFirst leaves is the sequence without one position.
LEMMA RemoveFirstShifts ==
    ASSUME NEW S, NEW s \in Seq(S), NEW e, Listed(s, e)
    PROVE  \E k \in 1 .. Len(s) :
             /\ s[k] = e /\ Len(RemoveFirst(s, e)) = Len(s) - 1
             /\ \A i \in 1 .. (Len(s) - 1) :
                  RemoveFirst(s, e)[i] = IF i < k THEN s[i] ELSE s[i + 1]
<1>1. PICK k \in 1 .. Len(s) :
        s[k] = e /\ RemoveFirst(s, e) = SubSeq(s, 1, k - 1) \o SubSeq(s, k + 1, Len(s))
  BY RemoveFirstSplits DEF Listed
<1> DEFINE a == SubSeq(s, 1, k - 1)
           b == SubSeq(s, k + 1, Len(s))
<1>2. a \in Seq(S) /\ b \in Seq(S) /\ Len(a) = k - 1 /\ Len(b) = Len(s) - k
  BY <1>1
<1>3. /\ \A i \in 1 .. (k - 1) : a[i] = s[i]
      /\ \A i \in 1 .. (Len(s) - k) : b[i] = s[k + i]
  BY <1>1
<1>4. RemoveFirst(s, e) = a \o b
  BY <1>1
<1> HIDE DEF a, b
<1>5. Len(a \o b) = Len(s) - 1
  <2>1. Len(a \o b) = Len(a) + Len(b)
    BY <1>2, ConcatElements
  <2>2. k \in Int /\ Len(s) \in Nat
    OBVIOUS
  <2> QED
    BY <1>2, <2>1, <2>2
<1>6. ASSUME NEW i \in 1 .. (Len(s) - 1)
      PROVE  (a \o b)[i] = IF i < k THEN s[i] ELSE s[i + 1]
  <2>1. CASE i < k
    <3>1. i \in 1 .. Len(a) /\ i \in 1 .. (k - 1)
      BY <1>2, <2>1
    <3>2. (a \o b)[i] = a[i]
      BY <1>2, <3>1, ConcatElements
    <3> QED
      BY <1>3, <2>1, <3>1, <3>2
  <2>2. CASE ~ (i < k)
    <3>1. i - (k - 1) \in 1 .. Len(b) /\ Len(a) + (i - (k - 1)) = i
      BY <1>1, <1>2, <2>2
    <3>2. (a \o b)[i] = b[i - (k - 1)]
      BY <1>2, <3>1, ConcatElements
    <3>3. b[i - (k - 1)] = s[k + (i - (k - 1))] /\ k + (i - (k - 1)) = i + 1
      BY <1>2, <1>3, <3>1
    <3> QED
      BY <2>2, <3>2, <3>3
  <2> QED
    BY <2>1, <2>2
<1> QED
  BY <1>1, <1>4, <1>5, <1>6

\* removeWorkerFromGroup of a worker listed once leaves it unlisted.
LEMMA RemoveFirstUnlists ==
    ASSUME NEW S, NEW s \in Seq(S), NEW e
    PROVE  Once(s, e) => ~ Listed(RemoveFirst(s, e), e)
<1>1. CASE Listed(s, e)
  <2>1. PICK k \in 1 .. Len(s) :
          /\ s[k] = e /\ Len(RemoveFirst(s, e)) = Len(s) - 1
          /\ \A i \in 1 .. (Len(s) - 1) :
               RemoveFirst(s, e)[i] = IF i < k THEN s[i] ELSE s[i + 1]
    BY <1>1, RemoveFirstShifts
  <2> DEFINE t == RemoveFirst(s, e)
  <2>2. /\ s[k] = e /\ Len(t) = Len(s) - 1
        /\ \A i \in 1 .. (Len(s) - 1) : t[i] = IF i < k THEN s[i] ELSE s[i + 1]
    BY <2>1
  <2> HIDE DEF t
  <2>3. ASSUME Once(s, e), NEW i \in 1 .. Len(t), t[i] = e
        PROVE  FALSE
    <3>1. i \in 1 .. Len(s) /\ i + 1 \in 1 .. Len(s)
      BY <2>2
    <3>2. CASE i < k
      <4>1. s[i] = e
        BY <2>2, <2>3, <3>2
      <4> QED
        BY <2>2, <2>3, <3>1, <3>2, <4>1 DEF Once
    <3>3. CASE ~ (i < k)
      <4>1. i \in 1 .. (Len(s) - 1)
        BY <2>2
      <4>2. t[i] = s[i + 1]
        BY <2>2, <3>3, <4>1
      <4>3. s[i + 1] = e /\ i + 1 # k
        BY <2>3, <3>3, <4>2
      <4> QED
        BY <2>2, <2>3, <3>1, <4>3 DEF Once
    <3> QED
      BY <3>2, <3>3
  <2> QED
    BY <2>3 DEF Listed, t
<1>2. CASE ~ Listed(s, e)
  BY <1>2 DEF RemoveFirst, Listed
<1> QED
  BY <1>1, <1>2

\* It lists no other worker anew, and none twice.
LEMMA RemoveFirstKeepsOnce ==
    ASSUME NEW S, NEW s \in Seq(S), NEW e, NEW d
    PROVE  /\ Listed(RemoveFirst(s, e), d) => Listed(s, d)
           /\ Once(s, d) => Once(RemoveFirst(s, e), d)
<1>1. CASE Listed(s, e)
  <2>1. PICK k \in 1 .. Len(s) :
          /\ s[k] = e /\ Len(RemoveFirst(s, e)) = Len(s) - 1
          /\ \A i \in 1 .. (Len(s) - 1) :
               RemoveFirst(s, e)[i] = IF i < k THEN s[i] ELSE s[i + 1]
    BY <1>1, RemoveFirstShifts
  <2> DEFINE t == RemoveFirst(s, e)
             at(i) == IF i < k THEN i ELSE i + 1
  <2>2. \A i \in 1 .. Len(t) : at(i) \in 1 .. Len(s) /\ t[i] = s[at(i)]
    BY <2>1
  <2>3. \A i, j \in 1 .. Len(t) : at(i) = at(j) => i = j
    BY <2>1
  <2> HIDE DEF t, at
  <2>4. (Listed(t, d) => Listed(s, d)) /\ (Once(s, d) => Once(t, d))
    BY <2>2, <2>3 DEF Listed, Once
  <2> QED
    BY <2>4 DEF t
<1>2. CASE ~ Listed(s, e)
  BY <1>2 DEF RemoveFirst, Listed
<1> QED
  BY <1>1, <1>2

\* append(g.workers, w) lists w once more, and no other.
LEMMA AppendOnce ==
    ASSUME NEW s \in Seq(Conns), NEW c \in Conns, NEW d \in Conns
    PROVE  /\ d # c => /\ Listed(Append(s, c), d) => Listed(s, d)
                       /\ Once(s, d) => Once(Append(s, c), d)
           /\ ~ Listed(s, c) => Once(Append(s, c), c)
<1> DEFINE t == Append(s, c)
<1>1. Len(t) = Len(s) + 1 /\ t[Len(s) + 1] = c /\ \A i \in 1 .. Len(s) : t[i] = s[i]
  OBVIOUS
<1>2. \A i \in 1 .. Len(t) : i \in 1 .. Len(s) \/ i = Len(s) + 1
  BY <1>1
<1> HIDE DEF t
<1>3. ASSUME d # c
      PROVE  (Listed(t, d) => Listed(s, d)) /\ (Once(s, d) => Once(t, d))
  <2>1. \A i \in 1 .. Len(t) : t[i] = d => i \in 1 .. Len(s) /\ s[i] = d
    BY <1>1, <1>2, <1>3
  <2> QED
    BY <2>1 DEF Listed, Once
<1>4. ASSUME ~ Listed(s, c)
      PROVE  Once(t, c)
  <2>1. \A i \in 1 .. Len(t) : t[i] = c => i = Len(s) + 1
    BY <1>1, <1>2, <1>4 DEF Listed
  <2> QED
    BY <2>1 DEF Once
<1> QED
  BY <1>3, <1>4 DEF t

\* c is in no list but that of its group's name, there once and not removed.
Placed(c) ==
    \A g \in AllGroups : Listed(groups[g], c) =>
        g = groupName[c] /\ ~ Delisted(c) /\ Once(groups[g], c)

\* c is in no list.
Unlisted(c) == \A g \in AllGroups : ~ Listed(groups[g], c)

\* ListInv of one connection.
WellListed(c) == Placed(c) /\ (hs[c] \notin {"listed", "up"} => Unlisted(c))

\* ListInv, connection by connection.
LEMMA ListInvIs == ListInv <=> \A c \in Conns \ misplaced : WellListed(c)
<1>1. ListedOnce <=> \A c \in Conns \ misplaced : Placed(c)
  BY DEF ListedOnce, Placed, Listed, Once
<1> QED
  BY <1>1 DEF ListInv, WellListed, Unlisted, Listed

\* removeWorkerFromGroup(w, groupName[w]) leaves w in no list, and moves no
\* other worker.
LEMMA DelistOnce ==
    ASSUME RegType, NEW w \in Conns, NEW d \in Conns
    PROVE  /\ Placed(w) => \A g \in AllGroups : ~ Listed(Delist(w, groupName[w])[g], w)
           /\ \A g \in AllGroups :
                /\ Listed(Delist(w, groupName[w])[g], d) => Listed(groups[g], d)
                /\ Once(groups[g], d) => Once(Delist(w, groupName[w])[g], d)
<1> DEFINE f == groupName[w]
<1>1. f \in AllGroups /\ \A g \in AllGroups : groups[g] \in Seq(Conns)
  BY DEF RegType
<1>2. \A g \in AllGroups :
        Delist(w, f)[g] = IF g = f THEN RemoveFirst(groups[g], w) ELSE groups[g]
  BY <1>1 DEF Delist, RegType
<1> HIDE DEF f
<1>3. ASSUME Placed(w), NEW g \in AllGroups
      PROVE  ~ Listed(Delist(w, f)[g], w)
  <2>1. CASE g = f
    <3>1. Once(groups[g], w)
      BY <1>3 DEF Placed, Listed, Once
    <3> QED
      BY <1>1, <1>2, <2>1, <3>1, RemoveFirstUnlists
  <2>2. CASE g # f
    BY <1>2, <1>3, <2>2 DEF Placed, f
  <2> QED
    BY <2>1, <2>2
<1>4. ASSUME NEW g \in AllGroups
      PROVE  /\ Listed(Delist(w, f)[g], d) => Listed(groups[g], d)
             /\ Once(groups[g], d) => Once(Delist(w, f)[g], d)
  BY <1>1, <1>2, RemoveFirstKeepsOnce
<1> QED
  BY <1>3, <1>4 DEF f

\* addWorkerToGroup lists the new Worker, once.
LEMMA AddListed ==
    ASSUME TypeOK, NEW c \in Conns, AddWorkerToGroup(c), NEW d \in Conns \ misplaced',
           WellListed(d)
    PROVE  WellListed(d)'
<1>1. groupName[c] \in AllGroups /\ \A g \in AllGroups : groups[g] \in Seq(Conns)
  BY DEF TypeOK, RegType
<1>2. /\ hs' = [hs EXCEPT ![c] = "listed"] /\ UNCHANGED <<groupName, rem>>
      /\ hs[c] \notin {"listed", "up"}
  BY DEF AddWorkerToGroup, remVars
<1>3. CASE UNCHANGED groups
  BY <1>2, <1>3 DEF WellListed, Placed, Unlisted, Delisted, TypeOK, RegType
<1>4. CASE /\ groups' = [groups EXCEPT ![groupName[c]] = Append(@, c)]
           /\ misplaced' = IF Delisted(c) THEN misplaced \cup {c} ELSE misplaced
  <2>1. \A g \in AllGroups :
          groups'[g] = IF g = groupName[c] THEN Append(groups[g], c) ELSE groups[g]
    BY <1>4 DEF TypeOK, RegType
  <2>2. CASE d = c
    <3>1. Unlisted(c) /\ ~ Delisted(c)
      BY <1>2, <1>4, <2>2 DEF WellListed
    <3>2. \A g \in AllGroups : Listed(groups'[g], c) => g = groupName[c] /\ Once(groups'[g], c)
      BY <1>1, <2>1, <3>1, AppendOnce DEF Unlisted
    <3>3. hs'[c] = "listed" /\ ~ Delisted(c)'
      BY <1>2, <3>1 DEF Delisted, TypeOK, RegType
    <3> QED
      BY <1>2, <2>2, <3>2, <3>3 DEF WellListed, Placed
  <2>3. CASE d # c
    <3>1. \A g \in AllGroups : /\ Listed(groups'[g], d) => Listed(groups[g], d)
                               /\ Once(groups[g], d) => Once(groups'[g], d)
      BY <1>1, <2>1, <2>3, AppendOnce
    <3>2. hs'[d] = hs[d] /\ Delisted(d)' = Delisted(d)
      BY <1>2, <2>3 DEF Delisted, TypeOK, RegType
    <3> QED
      BY <1>2, <3>1, <3>2 DEF WellListed, Placed, Unlisted
  <2> QED
    BY <2>2, <2>3
<1> QED
  BY <1>3, <1>4 DEF AddWorkerToGroup

\* moveWorkerToGroup keeps every worker in one list.
LEMMA MoveListed ==
    ASSUME TypeOK, SyncMove, NEW d \in Conns \ misplaced', WellListed(d)
    PROVE  WellListed(d)'
<1> USE NoneIsNil DEF AllGroups
<1>0. PICK w \in Conns, g \in AllGroups : w = mv.w /\ g = mv.g
  BY DEF SyncMove, TypeOK, SyncType
<1> DEFINE ds == Delist(w, groupName[w])
<1>1. UNCHANGED <<hs, rem>> /\ RegType
  BY DEF SyncMove, remVars, TypeOK
<1>2. ds \in [AllGroups -> Seq(Conns)]
  BY <1>1, DelistType DEF RegType
<1>3. CASE UNCHANGED <<groups, groupName>>
  BY <1>1, <1>3 DEF WellListed, Placed, Unlisted, Delisted
<1>4. CASE /\ groupName' = [groupName EXCEPT ![w] = g]
           /\ groups' = IF g = NoGroup THEN ds ELSE [ds EXCEPT ![g] = Append(@, w)]
           /\ misplaced' = IF hs[w] \notin {"listed", "up"} \/ Delisted(w)
                           THEN misplaced \cup {w} ELSE misplaced
  <2>1. \A h \in AllGroups : \/ groups'[h] = ds[h]
                             \/ h = g /\ groups'[h] = Append(ds[h], w)
    BY <1>2, <1>4
  <2>2. CASE d = w
    <3>1. hs[w] \in {"listed", "up"} /\ ~ Delisted(w)
      BY <1>1, <1>4, <2>2
    <3>2. \A h \in AllGroups : ~ Listed(ds[h], w)
      BY <1>1, <2>2, DelistOnce DEF WellListed
    <3> HIDE DEF ds
    <3>3. ASSUME NEW h \in AllGroups, Listed(groups'[h], w)
          PROVE  h = g /\ Once(groups'[h], w)
      <4>1. ds[h] \in Seq(Conns) /\ ~ Listed(ds[h], w)
        BY <1>2, <3>2
      <4>2. h = g /\ groups'[h] = Append(ds[h], w)
        BY <2>1, <3>3, <4>1
      <4> QED
        BY <4>1, <4>2, AppendOnce
    <3>4. groupName'[w] = g /\ hs'[w] = hs[w] /\ ~ Delisted(w)'
      BY <1>1, <1>4, <3>1 DEF Delisted, RegType
    <3> QED
      BY <2>2, <3>1, <3>3, <3>4 DEF WellListed, Placed
  <2>3. CASE d # w
    <3>1. \A h \in AllGroups : /\ Listed(ds[h], d) => Listed(groups[h], d)
                               /\ Once(groups[h], d) => Once(ds[h], d)
      BY <1>1, DelistOnce
    <3> HIDE DEF ds
    <3>2. ASSUME NEW h \in AllGroups
          PROVE  /\ Listed(groups'[h], d) => Listed(ds[h], d)
                 /\ Once(ds[h], d) => Once(groups'[h], d)
      <4>1. ds[h] \in Seq(Conns)
        BY <1>2
      <4>2. groups'[h] = ds[h] \/ groups'[h] = Append(ds[h], w)
        BY <2>1
      <4>3. CASE groups'[h] = ds[h]
        BY <4>3
      <4>4. CASE groups'[h] = Append(ds[h], w)
        BY <2>3, <4>1, <4>4, AppendOnce
      <4> QED
        BY <4>2, <4>3, <4>4
    <3>3. groupName'[d] = groupName[d] /\ hs'[d] = hs[d] /\ Delisted(d)' = Delisted(d)
      BY <1>1, <1>4, <2>3 DEF Delisted, RegType
    <3> QED
      BY <3>1, <3>2, <3>3 DEF WellListed, Placed, Unlisted
  <2> QED
    BY <2>2, <2>3
<1> QED
  BY <1>0, <1>3, <1>4 DEF SyncMove

\* removeWorkerFromGroup leaves its Worker in no list.
LEMMA RemoveListed ==
    ASSUME TypeOK, NEW c \in Conns, RemoveFromGroup(c), NEW d \in Conns \ misplaced',
           WellListed(d)
    PROVE  WellListed(d)'
<1>1. /\ groups' = Delist(c, groupName[c]) /\ UNCHANGED <<hs, groupName>>
      /\ rem' = [rem EXCEPT ![c] = "range"] /\ RegType
  BY DEF RemoveFromGroup, TypeOK
<1>2. \A g \in AllGroups : /\ Listed(groups'[g], d) => Listed(groups[g], d)
                           /\ Once(groups[g], d) => Once(groups'[g], d)
  BY <1>1, DelistOnce
<1>3. CASE d = c
  BY <1>1, <1>3, DelistOnce DEF WellListed, Placed, Unlisted
<1>4. CASE d # c
  <2>1. Delisted(d)' = Delisted(d)
    BY <1>1, <1>4 DEF Delisted, TypeOK, RemType
  <2> QED
    BY <1>1, <1>2, <2>1 DEF WellListed, Placed, Unlisted
<1> QED
  BY <1>3, <1>4

\* ListInv is preserved by every step.
LEMMA ListStep == TypeOK /\ ListInv /\ [Next]_vars => ListInv'
<1>0. (ListInv <=> \A c \in Conns \ misplaced : WellListed(c))'
  BY ListInvIs, PTL
<1> SUFFICES ASSUME TypeOK, ListInv, [Next]_vars, NEW d \in Conns, d \notin misplaced'
             PROVE  WellListed(d)'
  BY <1>0
<1> USE DEF regVars, remVars
<1>1. d \notin misplaced => WellListed(d)
  BY ListInvIs
<1>2. CASE UNCHANGED <<hs, rem, groupName, groups, misplaced>>
  BY <1>1, <1>2 DEF WellListed, Placed, Unlisted, Delisted
<1>3. ASSUME NEW c \in Conns, AddWorkerToGroup(c)
      PROVE  WellListed(d)'
  <2>1. misplaced \subseteq misplaced'
    BY <1>3 DEF AddWorkerToGroup
  <2> QED
    BY <1>1, <1>3, <2>1, AddListed
<1>4. ASSUME NEW c \in Conns, WorkerHandler(c), ~ AddWorkerToGroup(c)
      PROVE  WellListed(d)'
  <2>1. UNCHANGED <<groups, rem, misplaced>>
    BY <1>4 DEF WorkerHandler, WorkerUpgrade, WorkerHello, RegisterWorker, GetWorkerGroup,
       LookupOld, SetActiveWorker, HandlerUp
  <2>2. \/ /\ groupName'[d] = groupName[d]
           /\ hs'[d] \in {"listed", "up"} <=> hs[d] \in {"listed", "up"}
        \/ hs[d] \notin {"listed", "up"} /\ hs'[d] \notin {"listed", "up"}
    BY <1>4 DEF WorkerHandler, WorkerUpgrade, WorkerHello, RegisterWorker, GetWorkerGroup,
       LookupOld, SetActiveWorker, HandlerUp, TypeOK, RegType
  <2>3. WellListed(d) /\ Delisted(d)' = Delisted(d)
    BY <1>1, <2>1 DEF Delisted
  <2> QED
    BY <2>1, <2>2, <2>3 DEF WellListed, Placed, Unlisted
<1>5. ASSUME NEW c \in Conns, RemoveFromGroup(c)
      PROVE  WellListed(d)'
  BY <1>1, <1>5, RemoveListed DEF RemoveFromGroup
<1>6. ASSUME NEW c \in Conns, RemoveWorker(c), ~ RemoveFromGroup(c)
      PROVE  WellListed(d)'
  <2>1. UNCHANGED <<hs, groupName, groups, misplaced>>
    BY <1>6 DEF RemoveWorker, RemoveBegin, RemoveVisit, RemoveDelete, RemoveDone, RemoveOffline
  <2>2. Delisted(d)' = Delisted(d)
    BY <1>6 DEF RemoveWorker, RemoveBegin, RemoveVisit, RemoveDelete, RemoveDone, RemoveOffline,
       Delisted, TypeOK, RemType
  <2> QED
    BY <1>1, <2>1, <2>2 DEF WellListed, Placed, Unlisted
<1>7. CASE SyncMove
  <2>1. misplaced \subseteq misplaced'
    BY <1>7 DEF SyncMove
  <2> QED
    BY <1>1, <1>7, <2>1, MoveListed
<1> QED
  BY <1>2, <1>3, <1>4, <1>5, <1>6, <1>7, GroupFrame

\* ListedOnce always holds: no interleaving of the handlers, the sync loop and
\* the removals lists a Worker twice or a removed one, but for those named.
THEOREM ListSafe == Spec => []ListedOnce
<1>1. Init => ListInv
  BY DEF Init, ListInv, ListedOnce
<1>2. ListInv => ListedOnce
  BY DEF ListInv
<1> QED
  BY <1>1, <1>2, TypeCorrect, ListStep, PTL DEF Spec


=============================================================================
