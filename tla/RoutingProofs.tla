---------------------------- MODULE RoutingProofs ----------------------------
(***************************************************************************)
(* TypeOK, RoutesNameGroups and LongestMatch of Routing, proved for any    *)
(* groups, keys, hosts and addresses, any number of requests at a time and *)
(* any contents of the stores at the start whose routes name groups; and   *)
(* DnsTypeOK, OneQueryPerHost and AnswerNotStale of DNSCache, for any sets *)
(* of clients and hosts and any size of the cache.                         *)
(***************************************************************************)
EXTENDS Routing, DNSCache, FiniteSetTheorems, TLAPS, WellFoundedInduction

-----------------------------------------------------------------------------
(* Requests of the Admin API.                                              *)

DestroyOps == {"inDomains", "inCidrs", "inDefault", "delete"}

AdminType ==
    /\ groups \in [GroupIds -> Groups \cup {None}]
    /\ domains \in [DomainKeys -> Routes \cup {None}]
    /\ cidrs \in [CidrKeys -> Routes \cup {None}] /\ default \in Routes \cup {None}
    /\ adm \in [Admins -> Requests \cup {None}] /\ edits \in 0 .. MaxEdits
    /\ renamed \in SUBSET Groups

\* A new request keeps the types.
LEMMA BeginType ==
    ASSUME AdminType, RequestInv, NEW a \in Admins,
           NEW op \in {"domains", "cidrs", "patch", "default"} \cup DestroyOps,
           NEW keys \in SUBSET (DomainKeys \cup CidrKeys), NEW pk \in GroupIds \cup {None},
           NEW route \in Routes, Begin(a, op, keys, pk, route),
           SoundRequest([op |-> op, keys |-> keys, pk |-> pk, route |-> route])
    PROVE  AdminType' /\ RequestInv'
<1> DEFINE r == [op |-> op, keys |-> keys, pk |-> pk, route |-> route]
<1>1. r \in Requests
  BY DEF Requests, DestroyOps
<1>2. adm' = [adm EXCEPT ![a] = r] /\ edits' = edits + 1 /\ edits < MaxEdits
  BY DEF Begin
<1>3. edits' \in 0 .. MaxEdits
  BY <1>2, RoutingBound DEF AdminType
<1>4. UNCHANGED <<redisVars, groups, renamed>>
  BY DEF Begin
<1>5. AdminType'
  BY <1>1, <1>2, <1>3, <1>4 DEF AdminType, redisVars
<1>6. RequestInv'
  BY <1>2 DEF AdminType, RequestInv
<1> QED
  BY <1>5, <1>6

\* A step of a request, which goes on with some keys, op, or is over.
LEMMA GoesOnType ==
    ASSUME AdminType, RequestInv, NEW a \in Admins, adm[a] # None, NEW next,
           adm' = [adm EXCEPT ![a] = next], UNCHANGED <<groups, edits>>,
           next = None \/ (next \in Requests /\ SoundRequest(next))
    PROVE  /\ adm' \in [Admins -> Requests \cup {None}] /\ RequestInv'
           /\ groups' \in [GroupIds -> Groups \cup {None}] /\ edits' \in 0 .. MaxEdits
<1>1. adm' \in [Admins -> Requests \cup {None}]
  BY DEF AdminType
<1>2. RequestInv'
  BY DEF AdminType, RequestInv
<1> QED
  BY <1>1, <1>2 DEF AdminType

\* The history of written routes.
LEMMA WrittenType ==
    ASSUME AdminType, RequestInv, NEW route, Written(route)
    PROVE  renamed' \in SUBSET Groups /\ renamed \subseteq renamed'
<1>1. ASSUME NEW b \in Admins, adm[b] # None, adm[b].route = route, adm[b].op \in DestroyOps
      PROVE  route \in Groups
  BY <1>1 DEF RequestInv, SoundRequest, DestroyOps
<1> QED
  BY <1>1 DEF Written, AdminType, DestroyOps

\* The request without one of its keys.
LEMMA WithoutNext ==
    ASSUME AdminType, NEW a \in Admins, adm[a] # None, NEW k, Without(a, k)
    PROVE  \E next : /\ adm' = [adm EXCEPT ![a] = next]
                     /\ \/ next = None
                        \/ /\ next \in Requests
                           /\ next.op = adm[a].op /\ next.pk = adm[a].pk
                           /\ next.route = adm[a].route
<1> DEFINE rest == adm[a].keys \ {k}
           next == IF rest = {} THEN None ELSE [adm[a] EXCEPT !.keys = rest]
<1>1. adm[a] \in Requests
  BY DEF AdminType
<1>2. adm' = [adm EXCEPT ![a] = next]
  BY DEF Without
<1>3. next = None \/ /\ next \in Requests
                     /\ next.op = adm[a].op /\ next.pk = adm[a].pk
                     /\ next.route = adm[a].route
  BY <1>1 DEF Requests
<1> QED
  BY <1>2, <1>3

\* A write of a route, which ends a request or lets it go on.
LEMMA SetType ==
    ASSUME AdminType, RequestInv, NEW a \in Admins, adm[a] # None,
           adm[a].op \in {"domains", "cidrs", "default"}, Written(adm[a].route),
           UNCHANGED <<groups, edits>>,
           (\E k : Without(a, k)) \/ adm' = [adm EXCEPT ![a] = None],
           domains' \in [DomainKeys -> Routes \cup {None}],
           cidrs' \in [CidrKeys -> Routes \cup {None}], default' \in Routes \cup {None}
    PROVE  AdminType' /\ RequestInv'
<1>1. renamed' \in SUBSET Groups
  BY WrittenType
<1>2. PICK next : /\ adm' = [adm EXCEPT ![a] = next]
                  /\ next = None \/ (next \in Requests /\ next.op = adm[a].op)
  BY WithoutNext
<1>3. next = None \/ (next \in Requests /\ SoundRequest(next))
  BY <1>2 DEF SoundRequest
<1>4. /\ adm' \in [Admins -> Requests \cup {None}] /\ RequestInv'
      /\ groups' \in [GroupIds -> Groups \cup {None}] /\ edits' \in 0 .. MaxEdits
  BY <1>2, <1>3, GoesOnType
<1> QED
  BY <1>1, <1>4 DEF AdminType

\* The name of a group, and the route of a request.
LEMMA RouteType ==
    ASSUME AdminType
    PROVE  /\ \A pk \in GroupIds : groups[pk] # None => groups[pk] \in Groups
           /\ \A pk \in GroupIds \cup {None} : RouteTo(pk) # None => RouteTo(pk) \in Routes
           /\ \A a \in Admins : adm[a] # None => adm[a] \in Requests /\ adm[a].route \in Routes
           /\ Named \subseteq Groups
<1>1. \A pk \in GroupIds : groups[pk] # None => groups[pk] \in Groups
  BY DEF AdminType
<1>2. \A pk \in GroupIds \cup {None} : RouteTo(pk) # None => RouteTo(pk) \in Routes
  BY <1>1 DEF RouteTo, Routes
<1>3. \A a \in Admins : adm[a] # None => adm[a] \in Requests
  BY DEF AdminType
<1>4. \A r \in Requests : r.route \in Routes
  BY DEF Requests
<1> QED
  BY <1>1, <1>2, <1>3, <1>4 DEF Named

\* Every step of the Admin API keeps the types.
LEMMA AdminTypeStep ==
    ASSUME AdminType, RequestInv, Admin
    PROVE  AdminType' /\ RequestInv'
<1> USE DEF redisVars, adminVars
<1>1. ASSUME NEW a \in Admins, NEW pk \in GroupIds \cup {None},
             BeginDomains(a, pk) \/ BeginCidrs(a, pk) \/ BeginPatch(a, pk) \/ BeginDefault(a, pk)
      PROVE  AdminType' /\ RequestInv'
  <2>1. RouteTo(pk) # None /\ RouteTo(pk) \in Routes
    BY <1>1, RouteType DEF BeginDomains, BeginCidrs, BeginPatch, BeginDefault
  <2>2. PICK op \in {"domains", "cidrs", "patch", "default"},
             keys \in SUBSET (DomainKeys \cup CidrKeys) :
          (op = "patch" => keys \subseteq CidrKeys) /\ Begin(a, op, keys, pk, RouteTo(pk))
    <3>1. CASE BeginDomains(a, pk)
      BY <3>1 DEF BeginDomains
    <3>2. CASE BeginCidrs(a, pk)
      BY <3>2 DEF BeginCidrs
    <3>3. CASE BeginPatch(a, pk)
      BY <3>3 DEF BeginPatch
    <3>4. CASE BeginDefault(a, pk)
      BY <3>4 DEF BeginDefault
    <3> QED
      BY <1>1, <3>1, <3>2, <3>3, <3>4
  <2>3. SoundRequest([op |-> op, keys |-> keys, pk |-> pk, route |-> RouteTo(pk)])
    BY <2>2 DEF SoundRequest
  <2> QED
    BY <2>1, <2>2, <2>3, BeginType
<1>2. ASSUME NEW a \in Admins, NEW pk \in GroupIds, BeginDestroy(a, pk)
      PROVE  AdminType' /\ RequestInv'
  <2>1. groups[pk] \in Groups /\ groups[pk] \in Routes
    BY <1>2, RouteType DEF BeginDestroy, Routes
  <2>2. Begin(a, "inDomains", {}, pk, groups[pk])
    BY <1>2 DEF BeginDestroy
  <2>3. SoundRequest([op |-> "inDomains", keys |-> {}, pk |-> pk, route |-> groups[pk]])
    BY <2>1 DEF SoundRequest
  <2> QED
    BY <2>1, <2>2, <2>3, BeginType DEF DestroyOps
<1>3. ASSUME NEW a \in Admins, NEW k \in DomainKeys, SetDomain(a, k)
      PROVE  AdminType' /\ RequestInv'
  <2>1. adm[a] # None /\ adm[a].op = "domains" /\ adm[a].route \in Routes
    BY <1>3, RouteType DEF SetDomain
  <2>2. domains' \in [DomainKeys -> Routes \cup {None}]
    BY <1>3, <2>1 DEF SetDomain, AdminType
  <2>3. /\ UNCHANGED <<cidrs, default, groups, edits>>
        /\ Without(a, k) /\ Written(adm[a].route)
    BY <1>3 DEF SetDomain
  <2>4. cidrs' \in [CidrKeys -> Routes \cup {None}] /\ default' \in Routes \cup {None}
    BY <2>3 DEF AdminType
  <2> QED
    BY <2>1, <2>2, <2>3, <2>4, SetType
<1>4. ASSUME NEW a \in Admins, NEW k \in CidrKeys, SetCidr(a, k)
      PROVE  AdminType' /\ RequestInv'
  <2>1. adm[a] # None /\ adm[a].op = "cidrs" /\ adm[a].route \in Routes
    BY <1>4, RouteType DEF SetCidr
  <2>2. cidrs' \in [CidrKeys -> Routes \cup {None}]
    BY <1>4, <2>1 DEF SetCidr, AdminType
  <2>3. /\ UNCHANGED <<domains, default, groups, edits>>
        /\ Without(a, k) /\ Written(adm[a].route)
    BY <1>4 DEF SetCidr
  <2>4. domains' \in [DomainKeys -> Routes \cup {None}] /\ default' \in Routes \cup {None}
    BY <2>3 DEF AdminType
  <2> QED
    BY <2>1, <2>2, <2>3, <2>4, SetType
<1>5. ASSUME NEW a \in Admins, SetDefault(a)
      PROVE  AdminType' /\ RequestInv'
  <2>1. adm[a] # None /\ adm[a].op = "default" /\ adm[a].route \in Routes
    BY <1>5, RouteType DEF SetDefault
  <2>2. /\ UNCHANGED <<domains, cidrs, groups, edits>>
        /\ default' = adm[a].route
        /\ adm' = [adm EXCEPT ![a] = None] /\ Written(adm[a].route)
    BY <1>5 DEF SetDefault
  <2>3. /\ domains' \in [DomainKeys -> Routes \cup {None}]
        /\ cidrs' \in [CidrKeys -> Routes \cup {None}] /\ default' \in Routes \cup {None}
    BY <2>1, <2>2 DEF AdminType
  <2> QED
    BY <2>1, <2>2, <2>3, SetType
<1>6. ASSUME NEW a \in Admins, PatchExists(a)
      PROVE  AdminType' /\ RequestInv'
  <2>1. adm[a] # None /\ adm[a] \in Requests /\ adm[a].op = "patch"
    BY <1>6, RouteType DEF PatchExists
  <2>2. UNCHANGED <<domains, cidrs, default, groups, edits, renamed>>
    BY <1>6 DEF PatchExists
  <2>3. PICK k \in adm[a].keys :
          \/ cidrs[k] # None /\ adm' = [adm EXCEPT ![a].op = "cidrs", ![a].keys = {Canonical(k)}]
          \/ adm' = [adm EXCEPT ![a] = None]
    BY <1>6 DEF PatchExists
  <2>4. CASE adm' = [adm EXCEPT ![a] = None]
    BY <2>1, <2>2, <2>4, GoesOnType DEF AdminType
  <2>5. CASE cidrs[k] # None /\ adm' = [adm EXCEPT ![a].op = "cidrs", ![a].keys = {Canonical(k)}]
    <3> DEFINE next == [adm[a] EXCEPT !.op = "cidrs", !.keys = {Canonical(k)}]
    <3>2. k \in CidrKeys
      BY <2>1 DEF RequestInv, SoundRequest
    <3>3. next \in Requests /\ SoundRequest(next)
      BY <2>1, <3>2, RoutingCidrs DEF Requests, SoundRequest
    <3>4. adm' = [adm EXCEPT ![a] = next]
      BY <2>5 DEF AdminType
    <3> QED
      BY <2>1, <2>2, <3>3, <3>4, GoesOnType DEF AdminType
  <2> QED
    BY <2>3, <2>4, <2>5
<1>7. ASSUME NEW a \in Admins, HasRoutes(a)
      PROVE  AdminType' /\ RequestInv'
  <2>1. adm[a] # None /\ adm[a] \in Requests /\ adm[a].op \in {"inDomains", "inCidrs", "inDefault"}
    BY <1>7, RouteType DEF HasRoutes
  <2>2. UNCHANGED <<domains, cidrs, default, groups, edits, renamed>>
    BY <1>7 DEF HasRoutes
  <2>3. PICK op \in DestroyOps :
          adm' = [adm EXCEPT ![a] = None] \/ adm' = [adm EXCEPT ![a].op = op]
    BY <1>7, <2>1 DEF HasRoutes, DestroyOps
  <2>4. CASE adm' = [adm EXCEPT ![a] = None]
    BY <2>1, <2>2, <2>4, GoesOnType DEF AdminType
  <2>5. CASE adm' = [adm EXCEPT ![a].op = op]
    <3> DEFINE next == [adm[a] EXCEPT !.op = op]
    <3>1. next \in Requests /\ next.pk = adm[a].pk /\ next.route = adm[a].route
      BY <2>1 DEF Requests, DestroyOps
    <3>2. adm' = [adm EXCEPT ![a] = next]
      BY <2>5 DEF AdminType
    <3>3. SoundRequest(next)
      BY <2>1, <3>1 DEF RequestInv, SoundRequest, DestroyOps
    <3> QED
      BY <2>1, <2>2, <3>1, <3>2, <3>3, GoesOnType DEF AdminType
  <2> QED
    BY <2>3, <2>4, <2>5
<1>8. ASSUME NEW a \in Admins, DestroyGroup(a)
      PROVE  AdminType' /\ RequestInv'
  <2>1. adm[a] # None /\ adm[a].op = "delete" /\ adm[a].pk \in GroupIds
    BY <1>8 DEF DestroyGroup, RequestInv, SoundRequest
  <2>2. groups[adm[a].pk] \in Groups \cup {None}
    BY <2>1 DEF AdminType
  <2>3. renamed' \in SUBSET Groups
    BY <1>8, <2>2 DEF DestroyGroup, AdminType
  <2>4. /\ groups' = [groups EXCEPT ![adm[a].pk] = None] /\ adm' = [adm EXCEPT ![a] = None]
        /\ UNCHANGED <<domains, cidrs, default, edits>>
    BY <1>8 DEF DestroyGroup
  <2>5. AdminType'
    BY <2>1, <2>3, <2>4 DEF AdminType
  <2>6. RequestInv'
    BY <2>4 DEF RequestInv, AdminType
  <2> QED
    BY <2>5, <2>6
<1>9. ASSUME NEW k \in DomainKeys, DeleteDomain(k)
      PROVE  AdminType' /\ RequestInv'
  BY <1>9, RoutingBound DEF DeleteDomain, AdminType, RequestInv
<1>10. ASSUME NEW k \in CidrKeys, DeleteCidr(k)
       PROVE  AdminType' /\ RequestInv'
  BY <1>10, RoutingBound DEF DeleteCidr, AdminType, RequestInv
<1>11. ASSUME NEW pk \in GroupIds, NEW g \in Groups, CreateGroup(pk, g) \/ RenameGroup(pk, g)
       PROVE  AdminType' /\ RequestInv'
  <2>1. /\ edits < MaxEdits /\ edits' = edits + 1 /\ groups' = [groups EXCEPT ![pk] = g]
        /\ UNCHANGED <<domains, cidrs, default, adm>>
    BY <1>11 DEF CreateGroup, RenameGroup
  <2>2. renamed' \in SUBSET Groups
    BY <1>11 DEF CreateGroup, RenameGroup, AdminType
  <2> QED
    BY <2>1, <2>2, RoutingBound DEF AdminType, RequestInv
<1> QED
  BY <1>1, <1>2, <1>3, <1>4, <1>5, <1>6, <1>7, <1>8, <1>9, <1>10, <1>11 DEF Admin

-----------------------------------------------------------------------------
(* RoutesNameGroups.                                                       *)

Stored == {domains[k] : k \in DomainKeys} \cup {cidrs[k] : k \in CidrKeys} \cup {default}

\* The routes that name something still there, or are excused.
Known == Named \cup {RouteDirect, None} \cup renamed

\* A step that stores at most routes already stored or the route of a
\* request, and forgets no name.
LEMMA KnownKept ==
    ASSUME RoutesNameGroups, NEW route \in Known, Known \subseteq Known',
           \A r \in Stored' : r \in Stored \cup {route}
    PROVE  RoutesNameGroups'
  BY DEF RoutesNameGroups, Stored, Known

\* The request a writes its route; its own record and the other stores are
\* left alone.
LEMMA WriteNames ==
    ASSUME AdminType, RequestInv, NamesInv, NEW a \in Admins, adm[a] # None,
           adm[a].op \in {"domains", "cidrs", "default"}, Written(adm[a].route),
           UNCHANGED groups,
           (\E k : Without(a, k)) \/ adm' = [adm EXCEPT ![a] = None],
           \A k \in DomainKeys : domains'[k] \in {domains[k], adm[a].route},
           \A k \in CidrKeys : cidrs'[k] \in {cidrs[k], adm[a].route},
           default' \in {default, adm[a].route}
    PROVE  NamesInv'
<1>1. renamed \subseteq renamed'
  BY WrittenType
<1>2. Named' = Named
  BY DEF Named
<1>3. adm[a].route \in Named \cup {RouteDirect} \cup renamed
  BY DEF NamesInv
<1>4. RoutesNameGroups'
  <2>1. adm[a].route \in Known /\ Known \subseteq Known'
    BY <1>1, <1>2, <1>3 DEF Known
  <2>2. \A r \in Stored' : r \in Stored \cup {adm[a].route}
    BY DEF Stored
  <2> QED
    BY <2>1, <2>2, KnownKept DEF NamesInv
<1>5. PICK next : /\ adm' = [adm EXCEPT ![a] = next]
                  /\ next = None \/ (next.op = adm[a].op /\ next.route = adm[a].route)
  BY WithoutNext
<1>6. ASSUME NEW b \in Admins, adm'[b] # None
      PROVE  /\ adm'[b].route \in Named' \cup {RouteDirect} \cup renamed'
             /\ adm'[b].route \in renamed' \/ NoneSeen(adm[b].op, adm[b].route)'
  <2>1. adm[b] # None /\ adm'[b].op = adm[b].op /\ adm'[b].route = adm[b].route
    BY <1>5, <1>6 DEF AdminType
  <2>2. adm'[b].route \in Named' \cup {RouteDirect} \cup renamed'
    BY <2>1, <1>1, <1>2 DEF NamesInv
  <2>3. CASE adm[b].op \notin DestroyOps
    BY <2>1, <2>2, <2>3 DEF NoneSeen, DestroyOps
  <2>4. CASE adm[b].op \in DestroyOps /\ adm[b].route = adm[a].route
    BY <2>1, <2>2, <2>4 DEF Written, DestroyOps
  <2>5. CASE adm[b].route # adm[a].route
    BY <2>1, <2>2, <2>5, <1>1 DEF NamesInv, NoneSeen
  <2> QED
    BY <2>2, <2>3, <2>4, <2>5
<1> QED
  BY <1>4, <1>6 DEF NamesInv

\* A step that stores no route: a request moves on or begins, a row of the
\* groups changes, a route is deleted.
LEMMA QuietNames ==
    ASSUME AdminType, NamesInv,
           \A k \in DomainKeys : domains'[k] \in {domains[k], None},
           \A k \in CidrKeys : cidrs'[k] \in {cidrs[k], None}, default' \in {default, None},
           Known \subseteq Known', renamed \subseteq renamed',
           \A b \in Admins : adm'[b] # None =>
              /\ adm'[b].route \in Routes
              /\ \/ adm[b] # None /\ adm'[b].route = adm[b].route
                 \/ adm'[b].route \in Named \cup {RouteDirect}
              /\ \/ NoneSeen(adm'[b].op, adm'[b].route)
                 \/ /\ adm[b] # None /\ adm'[b].route = adm[b].route
                    /\ adm'[b].op = adm[b].op \/ adm[b].route \in renamed
    PROVE  NamesInv'
<1>1. RoutesNameGroups'
  <2>1. \A r \in Stored' : r \in Stored \cup {None}
    BY DEF Stored
  <2> QED
    BY <2>1, KnownKept DEF NamesInv, Known
<1>2. ASSUME NEW b \in Admins, adm'[b] # None
      PROVE  /\ adm'[b].route \in Named' \cup {RouteDirect} \cup renamed'
             /\ adm'[b].route \in renamed' \/ NoneSeen(adm[b].op, adm[b].route)'
  <2>1. adm'[b].route \in Known /\ adm'[b].route # None
    BY <1>2, RoutingNone DEF NamesInv, Known, Routes
  <2>2. adm'[b].route \in Named' \cup {RouteDirect} \cup renamed'
    BY <2>1 DEF Known
  <2>3. adm'[b].route \in renamed \/ NoneSeen(adm'[b].op, adm'[b].route)
    BY <1>2 DEF NamesInv
  <2>4. NoneSeen(adm'[b].op, adm'[b].route) => NoneSeen(adm[b].op, adm[b].route)'
    BY <1>2, RoutingNone DEF NoneSeen, Routes
  <2> QED
    BY <2>2, <2>3, <2>4
<1> QED
  BY <1>1, <1>2 DEF NamesInv

\* A new request, for a route to a group or the direct one.
LEMMA BeginNames ==
    ASSUME AdminType, NamesInv, NEW a \in Admins, NEW op, NEW keys, NEW pk,
           NEW route \in Routes \cap (Named \cup {RouteDirect}), Begin(a, op, keys, pk, route),
           op \notin {"inCidrs", "inDefault", "delete"}
    PROVE  NamesInv'
<1>1. /\ adm' = [adm EXCEPT ![a] = [op |-> op, keys |-> keys, pk |-> pk, route |-> route]]
      /\ UNCHANGED <<domains, cidrs, default, groups, renamed>>
  BY DEF Begin, redisVars
<1>2. Known' = Known
  BY <1>1 DEF Known, Named
<1>3. NoneSeen(op, route)
  BY DEF NoneSeen
<1>4. ASSUME NEW b \in Admins, adm'[b] # None
      PROVE  /\ adm'[b].route \in Routes
             /\ \/ adm[b] # None /\ adm'[b].route = adm[b].route
                \/ adm'[b].route \in Named \cup {RouteDirect}
             /\ \/ NoneSeen(adm'[b].op, adm'[b].route)
                \/ /\ adm[b] # None /\ adm'[b].route = adm[b].route
                   /\ adm'[b].op = adm[b].op \/ adm[b].route \in renamed
  <2>1. CASE b = a
    BY <2>1, <1>1, <1>3 DEF AdminType
  <2>2. CASE b # a
    <3>1. adm'[b] = adm[b]
      BY <2>2, <1>1 DEF AdminType
    <3> QED
      BY <3>1, <1>4, RouteType
  <2> QED
    BY <2>1, <2>2
<1> QED
  BY <1>1, <1>2, <1>4, QuietNames

\* A request that goes on under another op, or is over; nothing is stored.
LEMMA MoveNames ==
    ASSUME AdminType, NamesInv, NEW a \in Admins, adm[a] # None,
           UNCHANGED <<domains, cidrs, default, groups, renamed>>,
           \A b \in Admins \ {a} : adm'[b] = adm[b],
           adm'[a] # None => /\ adm'[a].route = adm[a].route
                             /\ adm[a].route \in renamed \/ NoneSeen(adm'[a].op, adm[a].route)
    PROVE  NamesInv'
<1>1. Known' = Known
  BY DEF Known, Named
<1>2. ASSUME NEW b \in Admins, adm'[b] # None
      PROVE  /\ adm'[b].route \in Routes
             /\ \/ adm[b] # None /\ adm'[b].route = adm[b].route
                \/ adm'[b].route \in Named \cup {RouteDirect}
             /\ \/ NoneSeen(adm'[b].op, adm'[b].route)
                \/ /\ adm[b] # None /\ adm'[b].route = adm[b].route
                   /\ adm'[b].op = adm[b].op \/ adm[b].route \in renamed
  <2>1. CASE b = a
    BY <2>1, <1>2, RouteType
  <2>2. CASE b # a
    BY <2>2, <1>2, RouteType
  <2> QED
    BY <2>1, <2>2
<1> QED
  BY <1>1, <1>2, QuietNames

\* A step that leaves the requests alone.
LEMMA EditNames ==
    ASSUME AdminType, NamesInv, UNCHANGED adm,
           \A k \in DomainKeys : domains'[k] \in {domains[k], None},
           \A k \in CidrKeys : cidrs'[k] \in {cidrs[k], None}, default' \in {default, None},
           Known \subseteq Known', renamed \subseteq renamed'
    PROVE  NamesInv'
<1>1. ASSUME NEW b \in Admins, adm'[b] # None
      PROVE  adm'[b].route \in Routes /\ adm[b] # None /\ adm'[b] = adm[b]
  BY <1>1, RouteType
<1> QED
  BY <1>1, QuietNames

\* The deletion of a group: no route to it was seen in the three reads, and
\* none was written since, or it is excused.
LEMMA DestroyNames ==
    ASSUME AdminType, RequestInv, NamesInv, NEW a \in Admins, DestroyGroup(a)
    PROVE  NamesInv'
<1> DEFINE name == groups[adm[a].pk]
<1>1. adm[a] # None /\ adm[a].op = "delete" /\ adm[a].pk \in GroupIds
  BY DEF DestroyGroup, RequestInv, SoundRequest
<1>2. /\ groups' = [groups EXCEPT ![adm[a].pk] = None] /\ adm' = [adm EXCEPT ![a] = None]
      /\ UNCHANGED <<domains, cidrs, default>> /\ renamed \subseteq renamed'
  BY DEF DestroyGroup, redisVars
<1>3. Named \subseteq Named' \cup {name}
  BY <1>1, <1>2 DEF Named, AdminType
<1>4. Known \subseteq Known' \cup {name}
  BY <1>2, <1>3 DEF Known
<1>5. \/ name = None \/ name \in renamed'
      \/ /\ name = adm[a].route
         /\ \A b \in Admins \ {a} : adm[b] # None => adm[b].route # name
  BY DEF DestroyGroup
<1>6. RoutesNameGroups'
  <2>1. Stored' = Stored
    BY <1>2 DEF Stored
  <2>2. ASSUME NEW r \in Stored
        PROVE  r \in Known'
    <3>1. CASE r # name \/ name = None \/ name \in renamed'
      BY <3>1, <1>4 DEF Known, NamesInv, RoutesNameGroups, Stored
    <3>2. CASE r = name /\ name = adm[a].route
      <4>1. adm[a].route \in renamed
        BY <3>2, <1>1 DEF NamesInv, NoneSeen, Stored
      <4> QED
        BY <4>1, <3>2, <1>2 DEF Known
    <3> QED
      BY <3>1, <3>2, <1>5
  <2> QED
    BY <2>1, <2>2 DEF RoutesNameGroups, Stored, Known
<1>7. ASSUME NEW b \in Admins, adm'[b] # None
      PROVE  /\ adm'[b].route \in Named' \cup {RouteDirect} \cup renamed'
             /\ adm'[b].route \in renamed' \/ NoneSeen(adm[b].op, adm[b].route)'
  <2>1. b # a /\ adm'[b] = adm[b] /\ adm[b].route \in Routes /\ adm[b].route # None
    BY <1>2, <1>7, RouteType, RoutingNone DEF AdminType, Routes
  <2>2. adm[b].route \in Known'
    BY <2>1, <1>7, <1>4, <1>5 DEF NamesInv, Known
  <2>3. adm[b].route \in renamed' \/ NoneSeen(adm[b].op, adm[b].route)
    BY <2>1, <1>2, <1>7 DEF NamesInv
  <2> QED
    BY <2>1, <2>2, <2>3, <1>2 DEF NoneSeen, Known
<1> QED
  BY <1>6, <1>7 DEF NamesInv

\* Every step of the Admin API keeps the names.
LEMMA NamesStep ==
    ASSUME AdminType, RequestInv, NamesInv, Admin
    PROVE  NamesInv'
<1> USE DEF redisVars, adminVars
<1>1. ASSUME NEW a \in Admins, NEW pk \in GroupIds \cup {None},
             BeginDomains(a, pk) \/ BeginCidrs(a, pk) \/ BeginPatch(a, pk) \/ BeginDefault(a, pk)
      PROVE  NamesInv'
  <2>1. RouteTo(pk) # None /\ RouteTo(pk) \in Routes
    BY <1>1, RouteType DEF BeginDomains, BeginCidrs, BeginPatch, BeginDefault
  <2>2. RouteTo(pk) \in Named \cup {RouteDirect}
    BY <2>1 DEF RouteTo, Named
  <2>3. PICK op \in {"domains", "cidrs", "patch", "default"} :
          \E keys : Begin(a, op, keys, pk, RouteTo(pk))
    <3>1. CASE BeginDomains(a, pk)
      BY <3>1 DEF BeginDomains
    <3>2. CASE BeginCidrs(a, pk)
      BY <3>2 DEF BeginCidrs
    <3>3. CASE BeginPatch(a, pk)
      BY <3>3 DEF BeginPatch
    <3>4. CASE BeginDefault(a, pk)
      BY <3>4 DEF BeginDefault
    <3> QED
      BY <1>1, <3>1, <3>2, <3>3, <3>4
  <2> QED
    BY <2>1, <2>2, <2>3, BeginNames
<1>2. ASSUME NEW a \in Admins, NEW pk \in GroupIds, BeginDestroy(a, pk)
      PROVE  NamesInv'
  <2>1. groups[pk] \in Routes \cap Named
    BY <1>2, RouteType DEF BeginDestroy, Routes, Named
  <2>2. Begin(a, "inDomains", {}, pk, groups[pk])
    BY <1>2 DEF BeginDestroy
  <2> QED
    BY <2>1, <2>2, BeginNames
<1>3. ASSUME NEW a \in Admins, NEW k \in DomainKeys, SetDomain(a, k)
      PROVE  NamesInv'
  BY <1>3, WriteNames DEF SetDomain, AdminType
<1>4. ASSUME NEW a \in Admins, NEW k \in CidrKeys, SetCidr(a, k)
      PROVE  NamesInv'
  BY <1>4, WriteNames DEF SetCidr, AdminType
<1>5. ASSUME NEW a \in Admins, SetDefault(a)
      PROVE  NamesInv'
  BY <1>5, WriteNames DEF SetDefault, AdminType
<1>6. ASSUME NEW a \in Admins, PatchExists(a)
      PROVE  NamesInv'
  <2>1. adm[a] # None /\ adm[a] \in Requests
    BY <1>6, RouteType DEF PatchExists
  <2>2. UNCHANGED <<domains, cidrs, default, groups, renamed>>
    BY <1>6 DEF PatchExists
  <2>3. /\ \A b \in Admins \ {a} : adm'[b] = adm[b]
        /\ adm'[a] # None => adm'[a].route = adm[a].route /\ adm'[a].op = "cidrs"
    BY <1>6, <2>1 DEF PatchExists, AdminType, Requests
  <2> QED
    BY <2>1, <2>2, <2>3, MoveNames DEF NoneSeen
<1>7. ASSUME NEW a \in Admins, HasRoutes(a)
      PROVE  NamesInv'
  <2>1. /\ adm[a] # None /\ adm[a] \in Requests
        /\ adm[a].op \in {"inDomains", "inCidrs", "inDefault"}
    BY <1>7, RouteType DEF HasRoutes
  <2>2. UNCHANGED <<domains, cidrs, default, groups, renamed>>
    BY <1>7 DEF HasRoutes
  <2>3. /\ \A b \in Admins \ {a} : adm'[b] = adm[b]
        /\ adm'[a] # None =>
             /\ adm'[a].route = adm[a].route /\ ~Used(adm[a].op, adm[a].route)
             /\ adm[a].op = "inDomains" => adm'[a].op = "inCidrs"
             /\ adm[a].op = "inCidrs" => adm'[a].op = "inDefault"
             /\ adm[a].op = "inDefault" => adm'[a].op = "delete"
    BY <1>7, <2>1 DEF HasRoutes, AdminType, Requests
  <2>4. adm'[a] # None => adm[a].route \in renamed \/ NoneSeen(adm'[a].op, adm[a].route)
    BY <2>1, <2>3 DEF NamesInv, NoneSeen, Used
  <2> QED
    BY <2>1, <2>2, <2>3, <2>4, MoveNames
<1>8. ASSUME NEW a \in Admins, DestroyGroup(a)
      PROVE  NamesInv'
  BY <1>8, DestroyNames
<1>9. ASSUME NEW k \in DomainKeys, DeleteDomain(k)
      PROVE  NamesInv'
  BY <1>9, EditNames DEF DeleteDomain, AdminType, Known, Named
<1>10. ASSUME NEW k \in CidrKeys, DeleteCidr(k)
       PROVE  NamesInv'
  BY <1>10, EditNames DEF DeleteCidr, AdminType, Known, Named
<1>11. ASSUME NEW pk \in GroupIds, NEW g \in Groups, CreateGroup(pk, g) \/ RenameGroup(pk, g)
       PROVE  NamesInv'
  <2>1. /\ groups' = [groups EXCEPT ![pk] = g]
        /\ groups[pk] = None \/ groups[pk] \in renamed'
        /\ UNCHANGED <<domains, cidrs, default, adm>> /\ renamed \subseteq renamed'
    BY <1>11 DEF CreateGroup, RenameGroup
  <2>2. Known \subseteq Known'
    BY <2>1 DEF Known, Named, AdminType
  <2> QED
    BY <2>1, <2>2, EditNames
<1> QED
  BY <1>1, <1>2, <1>3, <1>4, <1>5, <1>6, <1>7, <1>8, <1>9, <1>10, <1>11 DEF Admin

\* The steps of loadRoutes only read.
LEMMA LoadReads ==
    ASSUME LoadRoutes
    PROVE  UNCHANGED <<redisVars, adminVars>>
  BY DEF LoadRoutes, LoadDefault, LoadFails, LoadDomains, LoadCidrs, StoreRoutes,
         InsertDomain, InsertCidr

\* The stores at the start.
LEMMA AdminInit ==
    ASSUME Init
    PROVE  AdminType /\ RequestInv /\ NamesInv
<1>1. PICK s \in Start : /\ groups = s.groups /\ domains = s.domains
                         /\ cidrs = s.cidrs /\ default = s.default
  BY DEF Init
<1>2. adm = [a \in Admins |-> None] /\ edits = 0 /\ renamed = {}
  BY DEF Init
<1>3. /\ groups \in [GroupIds -> Groups \cup {None}]
      /\ domains \in [DomainKeys -> {groups[pk] : pk \in GroupIds} \cup {RouteDirect, None}]
      /\ cidrs \in [CidrKeys -> {groups[pk] : pk \in GroupIds} \cup {RouteDirect, None}]
      /\ default \in {groups[pk] : pk \in GroupIds} \cup {RouteDirect, None}
  BY <1>1, RoutingStart
<1>4. {groups[pk] : pk \in GroupIds} \cup {RouteDirect, None} \subseteq Routes \cup {None}
  BY <1>3 DEF Routes
<1>5. AdminType
  BY <1>2, <1>3, <1>4, RoutingBound DEF AdminType
<1>6. RoutesNameGroups
  BY <1>3 DEF RoutesNameGroups, Named
<1> QED
  BY <1>2, <1>5, <1>6 DEF RequestInv, NamesInv

-----------------------------------------------------------------------------
(* Tries.                                                                  *)

\* A path is a prefix of itself, and its prefixes have theirs among them.
LEMMA PrefixesClosed ==
    ASSUME NEW S, NEW path \in Seq(S)
    PROVE  /\ path \in Prefixes(path)
           /\ \A q \in Prefixes(path) : q \in Seq(S) /\ Prefixes(q) \subseteq Prefixes(path)
<1>1. SubSeq(path, 1, Len(path)) = path
  OBVIOUS
<1>2. ASSUME NEW q \in Prefixes(path)
      PROVE  q \in Seq(S) /\ Prefixes(q) \subseteq Prefixes(path)
  <2>1. PICK n \in 0 .. Len(path) : q = SubSeq(path, 1, n)
    BY DEF Prefixes
  <2>2. q \in Seq(S) /\ Len(q) = n
    BY <2>1
  <2>3. ASSUME NEW m \in 0 .. n
        PROVE  SubSeq(q, 1, m) = SubSeq(path, 1, m)
    BY <2>1, <2>2
  <2> QED
    BY <2>2, <2>3 DEF Prefixes
<1>3. Len(path) \in 0 .. Len(path)
  OBVIOUS
<1>4. path \in Prefixes(path)
  BY <1>1, <1>3 DEF Prefixes
<1> QED
  BY <1>2, <1>4

\* New nodes carry no rule.
LEMMA AddNodesTrie ==
    ASSUME NEW S, NEW path \in Seq(S), NEW trie
    PROVE  /\ TrieType(trie) => TrieType(AddNodes(trie, path))
           /\ \A rules : TrieOf(trie, rules) => TrieOf(AddNodes(trie, path), rules)
           /\ path \in DOMAIN AddNodes(trie, path)
<1>1. DOMAIN AddNodes(trie, path) = DOMAIN trie \cup Prefixes(path)
  BY DEF AddNodes
<1>2. \A q \in DOMAIN AddNodes(trie, path) :
        AddNodes(trie, path)[q] = IF q \in DOMAIN trie THEN trie[q] ELSE None
  BY DEF AddNodes
<1>3. \A q \in Prefixes(path) : Prefixes(q) \subseteq Prefixes(path)
  BY PrefixesClosed
<1>4. TrieType(trie) => TrieType(AddNodes(trie, path))
  BY <1>1, <1>2, <1>3 DEF TrieType
<1>5. \A rules : TrieOf(trie, rules) => TrieOf(AddNodes(trie, path), rules)
  BY <1>1, <1>2, <1>3 DEF TrieOf
<1> QED
  BY <1>1, <1>4, <1>5, PrefixesClosed

\* A rule is added, or takes the place of another for the same path.
LEMMA InsertTrie ==
    ASSUME NEW S, NEW path \in Seq(S), NEW trie, NEW route \in Routes
    PROVE  /\ TrieType(trie) => TrieType(Insert(trie, path, route))
           /\ \A rules : TrieOf(trie, rules) =>
                TrieOf(Insert(trie, path, route), rules \cup {[path |-> path, route |-> route]})
<1> DEFINE nodes == AddNodes(trie, path)
           filled == Insert(trie, path, route)
<1>1. DOMAIN filled = DOMAIN nodes
  BY DEF Insert
<1>2. \A q \in DOMAIN nodes : filled[q] = IF q = path THEN route ELSE nodes[q]
  BY DEF Insert, AddNodes
<1>3. path \in DOMAIN nodes
  BY AddNodesTrie
<1>4. TrieType(nodes) => TrieType(filled)
  BY <1>1, <1>2 DEF TrieType
<1>5. route # None
  BY RoutingNone DEF Routes
<1>6. ASSUME NEW rules, TrieOf(nodes, rules)
      PROVE  TrieOf(filled, rules \cup {[path |-> path, route |-> route]})
  <2> HIDE DEF nodes, filled
  <2>1. ASSUME NEW q \in DOMAIN filled
        PROVE  /\ Prefixes(q) \subseteq DOMAIN filled
               /\ filled[q] # None =>
                    [path |-> q, route |-> filled[q]]
                      \in rules \cup {[path |-> path, route |-> route]}
    <3>1. Prefixes(q) \subseteq DOMAIN filled
      BY <1>1, <1>6 DEF TrieOf
    <3>2. CASE q = path
      BY <3>1, <3>2, <1>1, <1>2
    <3>3. CASE q # path
      BY <3>1, <3>3, <1>1, <1>2, <1>6 DEF TrieOf
    <3> QED
      BY <3>2, <3>3
  <2>2. ASSUME NEW r \in rules \cup {[path |-> path, route |-> route]}
        PROVE  r.path \in DOMAIN filled /\ filled[r.path] # None
    BY <1>1, <1>2, <1>3, <1>5, <1>6 DEF TrieOf
  <2> QED
    BY <2>1, <2>2 DEF TrieOf
<1> QED
  BY <1>4, <1>6, AddNodesTrie

\* A trie without rules.
LEMMA EmptyTries ==
    /\ TrieOf(RootOnly, {}) /\ TrieOf(EmptyTrie, {})
    /\ TrieType(RootOnly) /\ TrieType(EmptyTrie)
<1>1. DOMAIN RootOnly = {<<>>} /\ RootOnly[<<>>] = None
  BY DEF RootOnly
<1>2. DOMAIN EmptyTrie = {}
  BY DEF EmptyTrie
<1>3. Prefixes(<<>>) = {<<>>}
  <2>1. 0 .. Len(<<>>) = {0}
    OBVIOUS
  <2>2. SubSeq(<<>>, 1, 0) = <<>>
    OBVIOUS
  <2>3. Prefixes(<<>>) = {SubSeq(<<>>, 1, n) : n \in {0}}
    BY <2>1 DEF Prefixes
  <2> QED
    BY <2>2, <2>3
<1> QED
  BY <1>1, <1>2, <1>3 DEF TrieOf, TrieType

\* A nonempty set of naturals has a least element.
LEMMA LeastNat ==
    ASSUME NEW I \in SUBSET Nat, I # {}
    PROVE  Min(I) \in I /\ \A i \in I : Min(I) <= i
<1> DEFINE R == {ss \in Nat \X Nat : ss[1] < ss[2]}
<1>1. IsWellFoundedOn(R, Nat)
  BY NatLessThanWellFounded DEF OpToRel
<1>2. PICK m \in I : \A y \in I : ~ (<<y, m>> \in R)
  BY <1>1, WFMin
<1>3. \A y \in I : m <= y
  <2> SUFFICES ASSUME NEW y \in I PROVE m <= y
    OBVIOUS
  <2>1. y \in Nat /\ m \in Nat
    OBVIOUS
  <2>2. ~ (y < m)
    BY <1>2, <2>1
  <2> QED
    BY <2>1, <2>2
<1> QED
  BY <1>3 DEF Min

\* A nonempty set of integers up to n has a greatest element.
LEMMA GreatestInt ==
    ASSUME NEW n \in Int, NEW I \in SUBSET Int, I # {}, \A i \in I : i <= n
    PROVE  Max(I) \in I /\ \A i \in I : Max(I) >= i
<1> DEFINE J == {n - i : i \in I}
<1>1. J \in SUBSET Nat /\ J # {}
  <2>1. \A i \in I : n - i \in Nat
    OBVIOUS
  <2> QED
    BY <2>1
<1>2. Min(J) \in J /\ \A j \in J : Min(J) <= j
  BY <1>1, LeastNat
<1>3. PICK m \in I : Min(J) = n - m
  BY <1>2
<1>4. \A i \in I : m >= i
  <2> SUFFICES ASSUME NEW i \in I PROVE m >= i
    OBVIOUS
  <2>1. n - i \in J
    OBVIOUS
  <2>2. n - m <= n - i
    BY <1>2, <1>3, <2>1
  <2> QED
    BY <2>2
<1> QED
  BY <1>4 DEF Max

\* The order of the labels turned round.
LEMMA ReverseType ==
    ASSUME NEW S, NEW s \in Seq(S)
    PROVE  /\ Reverse(s) \in Seq(S) /\ Len(Reverse(s)) = Len(s)
           /\ \A i \in 1 .. Len(s) : Reverse(s)[i] = s[(Len(s) - i) + 1]
<1>1. \A i \in 1 .. Len(s) : (Len(s) - i) + 1 \in 1 .. Len(s)
  OBVIOUS
<1>2. Reverse(s) = [i \in 1 .. Len(s) |-> s[(Len(s) - i) + 1]]
  BY DEF Reverse
<1>3. \A i \in 1 .. Len(s) : s[(Len(s) - i) + 1] \in S
  BY <1>1
<1>4. Len(s) \in Nat
  OBVIOUS
<1> QED
  BY <1>2, <1>3, <1>4

-----------------------------------------------------------------------------
(* loadRoutes: types, and what it has read.                                *)

Families == {"v4", "v6"}

\* The fields of a RouteCache.
Fields(cache) ==
    /\ DOMAIN cache = {"default", "exact", "wildcards", "cidrs"}
    /\ cache = [f \in DOMAIN cache |-> cache[f]]
    /\ DOMAIN cache.cidrs = Families /\ cache.cidrs = [fam \in Families |-> cache.cidrs[fam]]

LoadType ==
    /\ ld \in {"idle", "domains", "cidrs", "store"}
    /\ todo \in SUBSET (DomainKeys \cup CidrKeys)
    /\ CacheType(new) /\ CacheType(routes)
    /\ read \in Contents /\ source \in Contents

\* Nothing is read or built yet, but for a default route.
LEMMA EmptyTypes ==
    /\ CacheType(EmptyCache) /\ NoKeys \in Contents
    /\ SetKeys(NoKeys.domains) = {} /\ SetKeys(NoKeys.cidrs) = {}
    /\ Fields(EmptyCache) /\ EmptyCache.default = RouteDirect /\ NoKeys.default = None
    /\ DOMAIN EmptyCache.exact = {} /\ EmptyCache.wildcards = RootOnly
    /\ \A fam \in Families : EmptyCache.cidrs[fam] = EmptyTrie
<1>1. /\ EmptyCache.default = RouteDirect /\ DOMAIN EmptyCache.exact = {}
      /\ EmptyCache.wildcards = RootOnly /\ \A fam \in Families : EmptyCache.cidrs[fam] = EmptyTrie
      /\ Fields(EmptyCache)
  BY DEF EmptyCache, Fields, Families
<1>2. CacheType(EmptyCache)
  BY <1>1, EmptyTries DEF CacheType, Routes, Families
<1>3. NoKeys \in Contents /\ NoKeys.default = None
  BY DEF NoKeys, Contents
<1>4. SetKeys(NoKeys.domains) = {} /\ SetKeys(NoKeys.cidrs) = {}
  BY DEF NoKeys, SetKeys
<1> QED
  BY <1>1, <1>2, <1>3, <1>4

\* A network has a family and a path of bits.
LEMMA NetworkType ==
    ASSUME NEW k \in CidrKeys
    PROVE  Network(k).fam \in Families /\ Network(k).bits \in Seq({0, 1})
<1> DEFINE addr == [fam |-> k.fam, bits |-> SubSeq(k.bits, 1, k.len)]
<1>1. k.fam \in Families /\ k.bits \in Seq({0, 1}) /\ k.len \in 0 .. Len(k.bits)
  BY RoutingCidrs, RoutingKeys DEF Families
<1>2. addr.fam \in Families /\ addr.bits \in Seq({0, 1})
  BY <1>1
<1>3. Tail4(addr.bits) \in Seq({0, 1})
  BY <1>2, RoutingBits DEF Tail4
<1> QED
  BY <1>2, <1>3 DEF Network, Unmap, Families

\* The labels after the last empty one, turned round.
AfterBlank(labels) ==
    LET path == Reverse(labels)
        blank == {i \in 1 .. Len(path) : path[i] = ""}
    IN  SubSeq(path, 1, Min(blank) - 1)

\* The labels of a wildcard turned round, whole or up to an empty one.
LEMMA WildcardPath ==
    ASSUME NEW S, NEW labels \in Seq(S), NEW trie, NEW route,
           labels # <<>>
    PROVE  /\ Reverse(labels) \in Seq(S)
           /\ ~Blank(labels) =>
                InsertWildcard(trie, labels, route) = Insert(trie, Reverse(labels), route)
           /\ Blank(labels) =>
                /\ AfterBlank(labels) \in Seq(S)
                /\ InsertWildcard(trie, labels, route) = AddNodes(trie, AfterBlank(labels))
<1> DEFINE path == Reverse(labels)
           blank == {i \in 1 .. Len(path) : path[i] = ""}
<1>0. Len(labels) \in Nat
  OBVIOUS
<1>1. path \in Seq(S) /\ Len(path) = Len(labels)
  BY ReverseType
<1> HIDE DEF path
<1>5. \A i \in 1 .. Len(labels) : (Len(labels) - i) + 1 \in 1 .. Len(labels)
  BY <1>0
<1>6. \A i \in 1 .. Len(labels) : path[i] = labels[(Len(labels) - i) + 1]
  BY ReverseType DEF path
<1>2. ASSUME ~Blank(labels) PROVE blank = {}
  <2> SUFFICES ASSUME NEW i \in 1 .. Len(path), path[i] = "" PROVE FALSE
    OBVIOUS
  <2>1. i \in 1 .. Len(labels)
    BY <1>1
  <2>2. (Len(labels) - i) + 1 \in 1 .. Len(labels) /\ path[i] = labels[(Len(labels) - i) + 1]
    BY <2>1, <1>5, <1>6
  <2> QED
    BY <2>2, <1>2 DEF Blank
<1>3. ASSUME Blank(labels) PROVE blank # {}
  <2>1. PICK j \in 1 .. Len(labels) : labels[j] = ""
    BY <1>3 DEF Blank
  <2>2. (Len(labels) - j) + 1 \in 1 .. Len(labels)
    OBVIOUS
  <2>3. path[(Len(labels) - j) + 1] = labels[(Len(labels) - ((Len(labels) - j) + 1)) + 1]
    BY <2>2, <1>6
  <2>4. (Len(labels) - ((Len(labels) - j) + 1)) + 1 = j
    OBVIOUS
  <2> QED
    BY <2>1, <2>2, <2>3, <2>4, <1>1
<1>4. ASSUME Blank(labels)
      PROVE  /\ AfterBlank(labels) \in Seq(S)
             /\ InsertWildcard(trie, labels, route) = AddNodes(trie, AfterBlank(labels))
  <2>0. \A i \in blank : i \in 1 .. Len(path)
    OBVIOUS
  <2>1. blank \in SUBSET Nat /\ \A i \in blank : i \in 1 .. Len(path)
    <3> HIDE DEF blank
    <3>1. \A i \in 1 .. Len(path) : i \in Nat
      BY <1>0, <1>1
    <3> QED
      BY <2>0, <3>1
  <2>2. Min(blank) \in 1 .. Len(path)
    <3>1. blank # {}
      BY <1>3, <1>4
    <3> HIDE DEF blank
    <3>2. Min(blank) \in blank
      BY <3>1, <2>1, LeastNat
    <3> QED
      BY <3>2, <2>1
  <2>3. SubSeq(path, 1, Min(blank) - 1) \in Seq(S)
    <3> HIDE DEF blank
    <3> QED
      BY <1>1, <2>2
  <2>4. AfterBlank(labels) = SubSeq(path, 1, Min(blank) - 1)
    BY DEF AfterBlank, path
  <2>5. InsertWildcard(trie, labels, route) = AddNodes(trie, SubSeq(path, 1, Min(blank) - 1))
    BY <1>3, <1>4 DEF InsertWildcard, path
  <2> QED
    BY <2>3, <2>4, <2>5
<1> QED
  BY <1>1, <1>2, <1>4 DEF InsertWildcard, path

\* The keys read are keys of the hashes, with routes.
LEMMA ReadKeys ==
    ASSUME LoadType
    PROVE  /\ SetKeys(read.domains) \subseteq DomainKeys /\ SetKeys(read.cidrs) \subseteq CidrKeys
           /\ \A k \in SetKeys(read.domains) : read.domains[k] \in Routes
           /\ \A k \in SetKeys(read.cidrs) : read.cidrs[k] \in Routes
  BY DEF LoadType, Contents, SetKeys

\* The stages with something to insert.
LEMMA ReadStep ==
    ASSUME AdminType, LoadType, ReadInv, LoadRoutes
    PROVE  /\ ReadInv' /\ read' \in Contents /\ source' \in Contents
           /\ ld' \in {"idle", "domains", "cidrs", "store"}
           /\ todo' \in SUBSET (DomainKeys \cup CidrKeys)
<1>0. read \in Contents /\ read = [domains |-> read.domains, cidrs |-> read.cidrs,
                                   default |-> read.default]
  BY DEF LoadType, Contents
<1>1. CASE LoadDefault
  BY <1>0, <1>1, EmptyTypes DEF LoadDefault, LoadType, ReadInv, AdminType, Contents, NoKeys
<1>2. CASE LoadFails
  BY <1>0, <1>2, EmptyTypes DEF LoadFails, LoadType, ReadInv
<1>3. CASE LoadDomains
  BY <1>0, <1>3 DEF LoadDomains, LoadType, ReadInv, AdminType, Contents, SetKeys
<1>4. CASE LoadCidrs
  BY <1>0, <1>4 DEF LoadCidrs, LoadType, ReadInv, AdminType, Contents, SetKeys
<1>5. CASE StoreRoutes
  BY <1>0, <1>5, EmptyTypes DEF StoreRoutes, LoadType, ReadInv
<1>6. ASSUME NEW k \in DomainKeys, InsertDomain(k)
      PROVE  /\ ReadInv' /\ read' \in Contents /\ source' \in Contents
             /\ ld' \in {"idle", "domains", "cidrs", "store"}
             /\ todo' \in SUBSET (DomainKeys \cup CidrKeys)
  BY <1>0, <1>6 DEF InsertDomain, LoadType, ReadInv
<1>7. ASSUME NEW k \in CidrKeys, InsertCidr(k)
      PROVE  /\ ReadInv' /\ read' \in Contents /\ source' \in Contents
             /\ ld' \in {"idle", "domains", "cidrs", "store"}
             /\ todo' \in SUBSET (DomainKeys \cup CidrKeys)
  BY <1>0, <1>7 DEF InsertCidr, LoadType, ReadInv
<1> QED
  BY <1>1, <1>2, <1>3, <1>4, <1>5, <1>6, <1>7 DEF LoadRoutes

-----------------------------------------------------------------------------
(* loadRoutes: what it has built.                                          *)

DomainsDone == Done(read.domains, "cidrs")
CidrsDone == Done(read.cidrs, "store")

\* With no key inserted there is no rule.
LEMMA NoRules ==
    /\ DomainsDone = {} => ExactDone = {} /\ WildEntries = {}
    /\ CidrsDone = {} => \A fam : CidrEntries(fam) = {}
  BY DEF DomainsDone, CidrsDone, ExactDone, WildDone, WildEntries, CidrDone, CidrEntries

\* The empty cache, whatever its default route.
LEMMA EmptyBuilt ==
    ASSUME DomainsDone = {}, CidrsDone = {}, Fields(new),
           new.default = IF read.default = None THEN RouteDirect ELSE read.default,
           DOMAIN new.exact = {}, new.wildcards = RootOnly,
           \A fam \in Families : new.cidrs[fam] = EmptyTrie
    PROVE  BuiltInv
<1>1. ExactDone = {} /\ WildEntries = {} /\ \A fam : CidrEntries(fam) = {}
  BY NoRules
<1> QED
  BY <1>1, EmptyTries DEF BuiltInv, Families

LoadInv == LoadType /\ ReadInv /\ Fields(new) /\ BuiltInv

\* A step after which the cache under construction is empty.
LEMMA RestartStep ==
    ASSUME LoadDefault \/ LoadFails \/ StoreRoutes, AdminType, LoadInv
    PROVE  CacheType(new)' /\ CacheType(routes)' /\ Fields(new)' /\ BuiltInv'
<1>1. ReadInv' /\ ld' \in {"idle", "domains"}
  BY ReadStep DEF LoadRoutes, LoadDefault, LoadFails, StoreRoutes, LoadInv
<1>2. DomainsDone' = {} /\ CidrsDone' = {}
  BY <1>1 DEF DomainsDone, CidrsDone, Done, ReadInv
<1>3. /\ new' = [EmptyCache EXCEPT !.default = new'.default]
      /\ new'.default = IF read'.default = None THEN RouteDirect ELSE read'.default
      /\ new'.default \in Routes
  <2>1. CASE LoadDefault
    <3>1. /\ new' = [EmptyCache EXCEPT !.default = IF default = None THEN RouteDirect ELSE default]
          /\ read' = [NoKeys EXCEPT !.default = default]
      BY <2>1 DEF LoadDefault
    <3>2. read'.default = default /\ new'.default = IF default = None THEN RouteDirect ELSE default
      BY <3>1 DEF NoKeys, EmptyCache
    <3> QED
      BY <3>1, <3>2 DEF AdminType, Routes
  <2>2. CASE LoadFails \/ StoreRoutes
    <3>1. new' = EmptyCache /\ read' = NoKeys
      BY <2>2 DEF LoadFails, StoreRoutes
    <3>2. EmptyCache = [EmptyCache EXCEPT !.default = EmptyCache.default]
      BY DEF EmptyCache
    <3> QED
      BY <3>1, <3>2, EmptyTypes DEF Routes
  <2> QED
    BY <2>1, <2>2
<1>4. /\ DOMAIN new'.exact = {} /\ new'.wildcards = RootOnly
      /\ \A fam \in Families : new'.cidrs[fam] = EmptyTrie
      /\ Fields(new')
  BY <1>3 DEF EmptyCache, Fields, Families
<1>5. CacheType(new')
  BY <1>3, <1>4, EmptyTries DEF CacheType, Families
<1>6. CacheType(routes')
  BY DEF LoadDefault, LoadFails, StoreRoutes, LoadInv, LoadType
<1>7. BuiltInv'
  <2>1. ExactDone' = {} /\ WildEntries' = {} /\ \A fam \in Families : CidrEntries(fam)' = {}
    BY <1>2 DEF DomainsDone, CidrsDone, ExactDone, WildDone, WildEntries, CidrDone, CidrEntries
  <2> QED
    BY <2>1, <1>3, <1>4, EmptyTries DEF BuiltInv, Families
<1> QED
  BY <1>4, <1>5, <1>6, <1>7

\* The second and the third read build nothing.
LEMMA ReadBuilt ==
    ASSUME LoadDomains \/ LoadCidrs, AdminType, LoadInv
    PROVE  CacheType(new)' /\ CacheType(routes)' /\ Fields(new)' /\ BuiltInv'
<1>0. read = [domains |-> read.domains, cidrs |-> read.cidrs, default |-> read.default]
  BY DEF LoadInv, LoadType, Contents
<1>1. UNCHANGED <<new, routes>> /\ read'.default = read.default
  BY <1>0 DEF LoadDomains, LoadCidrs
<1>2. CidrsDone = {} /\ CidrsDone' = {}
  <2>1. CASE LoadDomains
    BY <2>1, <1>0 DEF LoadDomains, CidrsDone, Done, LoadInv, ReadInv
  <2>2. CASE LoadCidrs
    BY <2>2, <1>0 DEF LoadCidrs, CidrsDone, Done, LoadInv, ReadInv
  <2> QED
    BY <2>1, <2>2
<1>3. \A fam \in Families : CidrEntries(fam) = {} /\ CidrEntries(fam)' = {}
  BY <1>2 DEF CidrsDone, CidrDone, CidrEntries
<1>4. ExactDone' = ExactDone /\ WildEntries' = WildEntries
      /\ \A k \in ExactDone : read'.domains[k] = read.domains[k]
  <2>1. CASE LoadDomains
    <3>1. DomainsDone = {} /\ DomainsDone' = {}
      BY <2>1, <1>0 DEF LoadDomains, DomainsDone, Done, LoadInv, ReadInv
    <3> QED
      BY <3>1 DEF DomainsDone, ExactDone, WildDone, WildEntries
  <2>2. CASE LoadCidrs
    <3>1. read'.domains = read.domains /\ DomainsDone' = DomainsDone
      BY <2>2, <1>0 DEF LoadCidrs, DomainsDone, Done
    <3> QED
      BY <3>1 DEF DomainsDone, ExactDone, WildDone, WildEntries
  <2> QED
    BY <2>1, <2>2
<1>5. BuiltInv'
  BY <1>1, <1>3, <1>4, SMTT(30) DEF BuiltInv, LoadInv, Families
<1> QED
  BY <1>1, <1>5 DEF LoadInv, LoadType

\* The key of a domain inserted: one exact rule or one wildcard, or none if
\* one of its labels is empty.
LEMMA InsertDomainBuilt ==
    ASSUME NEW k \in DomainKeys, InsertDomain(k), LoadInv
    PROVE  CacheType(new)' /\ CacheType(routes)' /\ Fields(new)' /\ BuiltInv'
<1> DEFINE p == PatternOf[k]
           r == read.domains[k]
<1>1. /\ ld = "cidrs" /\ ld' = "cidrs" /\ k \in todo /\ todo' = todo \ {k}
      /\ UNCHANGED <<read, routes>>
  BY DEF InsertDomain
<1>2. k \in SetKeys(read.domains) /\ r \in Routes
  BY <1>1, ReadKeys DEF LoadInv, ReadInv
<1>3. DomainsDone' = DomainsDone \cup {k}
  BY <1>1, <1>2 DEF DomainsDone, Done
<1>4. CidrsDone = {} /\ CidrsDone' = {}
  BY <1>1 DEF CidrsDone, Done, LoadInv, ReadInv
<1>5. \A fam \in Families : CidrEntries(fam) = {} /\ CidrEntries(fam)' = {}
  BY <1>4 DEF CidrsDone, CidrDone, CidrEntries
<1>6. p.wild \in BOOLEAN /\ p.labels \in Seq(STRING)
  BY RoutingKeys
<1>7. /\ DOMAIN new = {"default", "exact", "wildcards", "cidrs"}
      /\ new = [f \in DOMAIN new |-> new[f]]
      /\ DOMAIN new.cidrs = Families /\ new.cidrs = [fam \in Families |-> new.cidrs[fam]]
  BY DEF LoadInv, Fields
<1>8. CASE ~p.wild
  <2>1. new' = [new EXCEPT !.exact = [h \in DOMAIN new.exact \cup {p.labels} |->
                                        IF h = p.labels THEN r ELSE new.exact[h]]]
    BY <1>8 DEF InsertDomain
  <2>2. /\ new'.default = new.default /\ new'.wildcards = new.wildcards
        /\ new'.cidrs = new.cidrs
        /\ new'.exact = [h \in DOMAIN new.exact \cup {p.labels} |->
                           IF h = p.labels THEN r ELSE new.exact[h]]
    BY <2>1, <1>7
  <2>3. Fields(new')
    BY <2>1, <2>2, <1>7 DEF Fields
  <2>4. CacheType(new')
    BY <2>2, <1>2 DEF CacheType, LoadInv, LoadType
  <2>5. WildEntries' = WildEntries
    <3>1. WildDone' = WildDone
      BY <1>3, <1>8 DEF WildDone, DomainsDone
    <3> QED
      BY <3>1, <1>1 DEF WildEntries
  <2>6. ExactDone' = ExactDone \cup {k}
    BY <1>3, <1>8 DEF ExactDone, DomainsDone
  <2>7. \A h \in DOMAIN new'.exact :
          \E x \in ExactDone' : PatternOf[x].labels = h /\ new'.exact[h] = read'.domains[x]
    BY <2>2, <2>6, <1>1 DEF LoadInv, BuiltInv
  <2>8. \A x \in ExactDone' : PatternOf[x].labels \in DOMAIN new'.exact
    BY <2>2, <2>6 DEF LoadInv, BuiltInv
  <2>9. TrieOf(new'.wildcards, WildEntries')
    BY <2>2, <2>5 DEF LoadInv, BuiltInv
  <2>10. \A fam \in Families : TrieOf(new'.cidrs[fam], CidrEntries(fam)')
    <3>1. new'.cidrs = new.cidrs
      BY <2>2
    <3>2. \A fam \in Families : TrieOf(new.cidrs[fam], CidrEntries(fam))
      BY DEF LoadInv, BuiltInv, Families
    <3> QED
      BY <3>1, <3>2, <1>5
  <2>11. new'.default = IF read'.default = None THEN RouteDirect ELSE read'.default
    BY <2>2, <1>1 DEF LoadInv, BuiltInv
  <2>12. BuiltInv'
    BY <2>7, <2>8, <2>9, <2>10, <2>11 DEF BuiltInv, Families
  <2> QED
    BY <2>3, <2>4, <2>12, <1>1 DEF LoadInv, LoadType
<1>9. CASE p.wild
  <2> DEFINE trie == InsertWildcard(new.wildcards, p.labels, r)
  <2>1. new' = [new EXCEPT !.wildcards = trie]
    BY <1>9 DEF InsertDomain
  <2>2. /\ new'.default = new.default /\ new'.exact = new.exact
        /\ new'.cidrs = new.cidrs /\ new'.wildcards = trie
    BY <2>1, <1>7
  <2>3. Fields(new')
    <3>1. DOMAIN new' = DOMAIN new /\ new' = [f \in DOMAIN new' |-> new'[f]]
      BY <2>1
    <3> QED
      BY <3>1, <2>2, <1>7 DEF Fields
  <2>4. ExactDone' = ExactDone
    BY <1>3, <1>9 DEF ExactDone, DomainsDone
  <2>5. TrieType(new.wildcards) /\ TrieOf(new.wildcards, WildEntries)
    BY DEF LoadInv, LoadType, CacheType, BuiltInv
  <2>6. TrieType(trie) /\ TrieOf(trie, WildEntries')
    <3>1. CASE p.labels = <<>>
      <4>1. WildDone' = WildDone
        BY <1>3, <3>1 DEF WildDone, DomainsDone
      <4>2. WildEntries' = WildEntries
        BY <4>1, <1>1 DEF WildEntries
      <4>3. trie = new.wildcards
        BY <3>1 DEF InsertWildcard
      <4> QED
        BY <4>2, <4>3, <2>5
    <3>2. CASE p.labels # <<>> /\ Blank(p.labels)
      <4>1. WildDone' = WildDone
        BY <1>3, <3>2 DEF WildDone, DomainsDone
      <4>2. WildEntries' = WildEntries
        BY <4>1, <1>1 DEF WildEntries
      <4>3. /\ AfterBlank(p.labels) \in Seq(STRING)
            /\ trie = AddNodes(new.wildcards, AfterBlank(p.labels))
        BY <1>6, <3>2, WildcardPath
      <4> QED
        BY <4>2, <4>3, <2>5, AddNodesTrie
    <3>3. CASE p.labels # <<>> /\ ~Blank(p.labels)
      <4>1. WildDone' = WildDone \cup {k}
        BY <1>3, <1>9, <3>3 DEF WildDone, DomainsDone
      <4>2. WildEntries' = WildEntries \cup {[path |-> Reverse(p.labels), route |-> r]}
        BY <4>1, <1>1 DEF WildEntries
      <4>3. /\ Reverse(p.labels) \in Seq(STRING)
            /\ trie = Insert(new.wildcards, Reverse(p.labels), r)
        BY <1>6, <3>3, WildcardPath
      <4> QED
        BY <4>2, <4>3, <2>5, <1>2, InsertTrie
    <3> QED
      BY <3>1, <3>2, <3>3
  <2> HIDE DEF trie
  <2>7. CacheType(new')
    BY <2>2, <2>6 DEF CacheType, LoadInv, LoadType
  <2>8. \A fam \in Families : TrieOf(new'.cidrs[fam], CidrEntries(fam)')
    BY <2>2, <1>5 DEF LoadInv, BuiltInv, Families
  <2>9. /\ new'.default = IF read'.default = None THEN RouteDirect ELSE read'.default
        /\ \A h \in DOMAIN new'.exact :
             \E x \in ExactDone' : PatternOf[x].labels = h /\ new'.exact[h] = read'.domains[x]
        /\ \A x \in ExactDone' : PatternOf[x].labels \in DOMAIN new'.exact
    BY <2>2, <2>4, <1>1 DEF LoadInv, BuiltInv
  <2>10. BuiltInv'
    BY <2>2, <2>6, <2>8, <2>9 DEF BuiltInv, Families
  <2> QED
    BY <2>3, <2>7, <2>10, <1>1 DEF LoadInv, LoadType
<1> QED
  BY <1>6, <1>8, <1>9

\* The key of a CIDR inserted: one rule of its family.
LEMMA InsertCidrBuilt ==
    ASSUME NEW k \in CidrKeys, InsertCidr(k), LoadInv
    PROVE  CacheType(new)' /\ CacheType(routes)' /\ Fields(new)' /\ BuiltInv'
<1> DEFINE f == Network(k).fam
           r == read.cidrs[k]
           trie == Insert(new.cidrs[f], Network(k).bits, r)
<1>1. /\ ld = "store" /\ ld' = "store" /\ k \in todo /\ todo' = todo \ {k}
      /\ UNCHANGED <<read, routes>>
  BY DEF InsertCidr
<1>2. k \in SetKeys(read.cidrs) /\ r \in Routes
  BY <1>1, ReadKeys DEF LoadInv, ReadInv
<1>3. f \in Families /\ Network(k).bits \in Seq({0, 1})
  BY NetworkType
<1>4. CidrsDone' = CidrsDone \cup {k}
  BY <1>1, <1>2 DEF CidrsDone, Done
<1>5. DomainsDone' = DomainsDone
  BY <1>1 DEF DomainsDone, Done
<1>6. ExactDone' = ExactDone /\ WildEntries' = WildEntries
  BY <1>1, <1>5 DEF DomainsDone, ExactDone, WildDone, WildEntries
<1>7. /\ DOMAIN new = {"default", "exact", "wildcards", "cidrs"}
      /\ new = [g \in DOMAIN new |-> new[g]]
      /\ DOMAIN new.cidrs = Families /\ new.cidrs = [fam \in Families |-> new.cidrs[fam]]
  BY DEF LoadInv, Fields
<1>8. new' = [new EXCEPT !.cidrs = [new.cidrs EXCEPT ![f] = trie]]
  BY DEF InsertCidr
<1> HIDE DEF f, trie
<1>9. /\ new'.default = new.default /\ new'.exact = new.exact
      /\ new'.wildcards = new.wildcards /\ new'.cidrs = [new.cidrs EXCEPT ![f] = trie]
  BY <1>7, <1>8
<1>10. Fields(new')
  <2>1. DOMAIN new' = DOMAIN new /\ new' = [g \in DOMAIN new' |-> new'[g]]
    BY <1>8
  <2> QED
    BY <2>1, <1>3, <1>7, <1>9 DEF Fields
<1>11. \A fam \in Families : new'.cidrs[fam] = IF fam = f THEN trie ELSE new.cidrs[fam]
  BY <1>7, <1>9
<1>12. TrieType(new.cidrs[f]) /\ TrieOf(new.cidrs[f], CidrEntries(f))
  BY <1>3 DEF LoadInv, LoadType, CacheType, BuiltInv, Families
<1>13. TrieType(trie) /\ TrieOf(trie, CidrEntries(f) \cup {[path |-> Network(k).bits, route |-> r]})
  BY <1>2, <1>3, <1>12, InsertTrie DEF trie
<1>14. \A fam \in Families : CidrEntries(fam)' =
          IF fam = f THEN CidrEntries(f) \cup {[path |-> Network(k).bits, route |-> r]}
          ELSE CidrEntries(fam)
  <2>1. \A fam \in Families :
          CidrDone(fam)' = IF fam = f THEN CidrDone(f) \cup {k} ELSE CidrDone(fam)
    BY <1>4 DEF CidrDone, CidrsDone, f
  <2>2. \A fam \in Families : CidrEntries(fam)' =
          {[path |-> Network(x).bits, route |-> read.cidrs[x]] : x \in CidrDone(fam)'}
    BY <1>1 DEF CidrEntries
  <2> QED
    BY <2>1, <2>2 DEF CidrEntries
<1>15. \A fam \in Families : TrieType(new'.cidrs[fam]) /\ TrieOf(new'.cidrs[fam], CidrEntries(fam)')
  BY <1>11, <1>13, <1>14 DEF LoadInv, LoadType, CacheType, BuiltInv, Families
<1>16. CacheType(new')
  BY <1>9, <1>15 DEF CacheType, LoadInv, LoadType, Families
<1>17. BuiltInv'
  BY <1>1, <1>6, <1>9, <1>15 DEF BuiltInv, LoadInv, Families
<1> QED
  BY <1>1, <1>10, <1>16, <1>17 DEF LoadInv, LoadType

\* Every step of loadRoutes keeps its invariant.
LEMMA LoadStep ==
    ASSUME AdminType, LoadInv, LoadRoutes
    PROVE  LoadInv'
<1>1. CacheType(new)' /\ CacheType(routes)' /\ Fields(new)' /\ BuiltInv'
  BY RestartStep, ReadBuilt, InsertDomainBuilt, InsertCidrBuilt DEF LoadRoutes
<1>2. /\ ReadInv' /\ read' \in Contents /\ source' \in Contents
      /\ ld' \in {"idle", "domains", "cidrs", "store"}
      /\ todo' \in SUBSET (DomainKeys \cup CidrKeys)
  BY ReadStep DEF LoadInv
<1> QED
  BY <1>1, <1>2 DEF LoadInv, LoadType

\* The loader at the start.
LEMMA LoadInit ==
    ASSUME Init
    PROVE  LoadInv
<1>1. /\ ld = "idle" /\ todo = {} /\ new = EmptyCache /\ read = NoKeys
      /\ routes = EmptyCache /\ source = NoKeys
  BY DEF Init
<1>2. LoadType /\ Fields(new) /\ ReadInv
  BY <1>1, EmptyTypes DEF LoadType, ReadInv
<1>3. DomainsDone = {} /\ CidrsDone = {}
  BY <1>1, <1>2 DEF DomainsDone, CidrsDone, Done, ReadInv
<1> QED
  BY <1>1, <1>2, <1>3, EmptyTypes, EmptyBuilt DEF LoadInv

-----------------------------------------------------------------------------
(* LongestMatch.                                                           *)

\* A walk hits the rules whose paths are prefixes of its own, and no others.
LEMMA LookupTrie ==
    ASSUME NEW S, NEW path \in Seq(S), NEW trie, NEW rules, TrieOf(trie, rules),
           \A r \in rules : r.path \in Seq(S)
    PROVE  /\ Hits(trie, path) \subseteq 0 .. Len(path)
           /\ \A r \in rules : IsPrefix(r.path, path) => Len(r.path) \in Hits(trie, path)
           /\ \A n \in Hits(trie, path) :
                [path |-> SubSeq(path, 1, n), route |-> trie[SubSeq(path, 1, n)]] \in rules
<1>1. Hits(trie, path) \subseteq 0 .. Len(path)
  BY DEF Hits, Reached
<1>2. ASSUME NEW r \in rules, IsPrefix(r.path, path)
      PROVE  Len(r.path) \in Hits(trie, path)
  <2> DEFINE n == Len(r.path)
  <2>1. r.path \in Seq(S) /\ n \in 0 .. Len(path) /\ SubSeq(path, 1, n) = r.path
    <3>1. r.path \in Seq(S)
      OBVIOUS
    <3>2. SubSeq(r.path, 1, n) = r.path /\ n \in Nat
      BY <3>1
    <3> QED
      BY <1>2, <3>1, <3>2 DEF IsPrefix
  <2>2. r.path \in DOMAIN trie /\ trie[r.path] # None /\ Prefixes(r.path) \subseteq DOMAIN trie
    BY DEF TrieOf
  <2>3. ASSUME NEW j \in 0 .. n
        PROVE  SubSeq(path, 1, j) \in DOMAIN trie
    <3>1. SubSeq(path, 1, j) = SubSeq(r.path, 1, j)
      <4> HIDE DEF n
      <4> DEFINE q == SubSeq(path, 1, n)
      <4>1. q \in Seq(S) /\ Len(q) = n
        BY <2>1
      <4>2. SubSeq(q, 1, j) = SubSeq(path, 1, j)
        BY <2>1
      <4> QED
        BY <4>2, <2>1
    <3>2. SubSeq(r.path, 1, j) \in Prefixes(r.path)
      BY DEF Prefixes
    <3> QED
      BY <3>1, <3>2, <2>2
  <2>4. n \in Reached(trie, path)
    BY <2>1, <2>3 DEF Reached
  <2> QED
    BY <2>1, <2>2, <2>4 DEF Hits
<1>3. ASSUME NEW n \in Hits(trie, path)
      PROVE  [path |-> SubSeq(path, 1, n), route |-> trie[SubSeq(path, 1, n)]] \in rules
  <2>1. n \in 0 .. n /\ SubSeq(path, 1, n) \in DOMAIN trie /\ trie[SubSeq(path, 1, n)] # None
    BY <1>1 DEF Hits, Reached
  <2> QED
    BY <2>1 DEF TrieOf
<1> QED
  BY <1>1, <1>2, <1>3

\* The first labels of a path are a prefix of it, as long as they are many.
LEMMA FirstLabels ==
    ASSUME NEW S, NEW path \in Seq(S), NEW n \in 0 .. Len(path)
    PROVE  Len(SubSeq(path, 1, n)) = n /\ IsPrefix(SubSeq(path, 1, n), path)
<1> DEFINE q == SubSeq(path, 1, n)
<1>1. q \in Seq(S) /\ Len(q) = n
  OBVIOUS
<1>2. SubSeq(q, 1, n) = SubSeq(path, 1, n)
  BY <1>1
<1> QED
  BY <1>1, <1>2 DEF IsPrefix

\* One of finitely many integers is the greatest.
LEMMA GreatestOf ==
    ASSUME NEW L \in Nat \ {0}, NEW f \in [1 .. L -> Int]
    PROVE  \E m \in 1 .. L : \A i \in 1 .. L : f[i] <= f[m]
<1> DEFINE B == {m \in 1 .. L : \A i \in 1 .. m : f[i] <= f[m]}
<1>1. 1 \in B
  OBVIOUS
<1>2. B \in SUBSET Int /\ B # {} /\ \A i \in B : i <= L
  BY <1>1
<1>3. Max(B) \in B /\ \A i \in B : Max(B) >= i
  <2> HIDE DEF B
  <2>1. L \in Int
    OBVIOUS
  <2> QED
    BY <1>2, <2>1, GreatestInt
<1> DEFINE m == Max(B)
<1>4. m \in 1 .. L /\ \A i \in 1 .. m : f[i] <= f[m]
  BY <1>3
<1>5. ASSUME NEW x \in 1 .. L, f[x] > f[m]
      PROVE  FALSE
  <2> DEFINE D == {i \in 1 .. L : f[i] > f[m]}
  <2> HIDE DEF m
  <2>1. D \in SUBSET Nat /\ D # {}
    BY <1>5
  <2>2. Min(D) \in D /\ \A i \in D : Min(D) <= i
    <3> HIDE DEF D
    <3> QED
      BY <2>1, LeastNat
  <2> DEFINE d == Min(D)
  <2>3. d \in 1 .. L /\ f[d] > f[m] /\ \A i \in 1 .. L : f[i] > f[m] => d <= i
    BY <2>2
  <2> HIDE DEF d, D
  <2>4. \A i \in 1 .. d : f[i] <= f[d]
    BY <2>3, <1>4
  <2>5. d \in B
    BY <2>3, <2>4
  <2>6. m >= d
    BY <2>5, <1>3 DEF m
  <2> QED
    BY <2>3, <2>6, <1>4
<1> HIDE DEF m, B
<1>6. ASSUME NEW x \in 1 .. L
      PROVE  f[x] <= f[m]
  <2>1. f[x] \in Int /\ f[m] \in Int
    BY <1>4
  <2>2. ~ (f[x] > f[m])
    BY <1>5
  <2> QED
    BY <2>1, <2>2
<1> QED
  BY <1>4, <1>6

\* An address has a family and a path of bits after Unmap.
LEMMA UnmapType ==
    ASSUME NEW addr \in [fam : {"v4", "v6"}, bits : Seq({0, 1})]
    PROVE  Unmap(addr).fam \in Families /\ Unmap(addr).bits \in Seq({0, 1})
<1>1. addr.fam \in Families /\ addr.bits \in Seq({0, 1})
  BY DEF Families
<1>2. Tail4(addr.bits) \in Seq({0, 1})
  BY <1>1, RoutingBits DEF Tail4
<1> QED
  BY <1>1, <1>2 DEF Unmap, Families

\* When every key is inserted, the done keys are the ones read.
LEMMA AllDone ==
    ASSUME ld = "store", todo = {}
    PROVE  /\ ExactDone = {k \in SetKeys(read.domains) : ~PatternOf[k].wild}
           /\ WildDone = {k \in SetKeys(read.domains) : /\ PatternOf[k].wild
                                                        /\ PatternOf[k].labels # <<>>
                                                        /\ ~Blank(PatternOf[k].labels)}
           /\ \A fam : CidrDone(fam) = {k \in SetKeys(read.cidrs) : Network(k).fam = fam}
  BY DEF ExactDone, WildDone, CidrDone, Done

\* An exact domain.
LEMMA ExactFound ==
    ASSUME LoadInv, ld = "store", todo = {}, NEW host
    PROVE  /\ host \in DOMAIN new.exact <=> ExactRules(read, host) # {}
           /\ host \in DOMAIN new.exact =>
                new.exact[host] \in {read.domains[k] : k \in ExactRules(read, host)}
<1>1. ExactRules(read, host) = {k \in ExactDone : PatternOf[k].labels = host}
  BY AllDone DEF ExactRules
<1>2. \A h \in DOMAIN new.exact :
        \E k \in ExactDone : PatternOf[k].labels = h /\ new.exact[h] = read.domains[k]
  BY DEF LoadInv, BuiltInv
<1>3. \A k \in ExactDone : PatternOf[k].labels \in DOMAIN new.exact
  BY DEF LoadInv, BuiltInv
<1> QED
  BY <1>1, <1>2, <1>3

\* The lengths of the wildcards that apply to a host are what its walk hits.
LEMMA WildFound ==
    ASSUME LoadInv, ld = "store", todo = {}, NEW host \in Seq(STRING), ~Blank(host)
    PROVE  /\ WildcardHits(new.wildcards, host) \subseteq 0 .. Len(host)
           /\ \A k \in WildRules(read, host) :
                Len(PatternOf[k].labels) \in WildcardHits(new.wildcards, host)
           /\ \A n \in WildcardHits(new.wildcards, host) :
                \E k \in WildRules(read, host) :
                  /\ Len(PatternOf[k].labels) = n
                  /\ new.wildcards[SubSeq(Reverse(host), 1, n)] = read.domains[k]
<1> DEFINE path == Reverse(host)
           hits == Hits(new.wildcards, path)
<1>1. /\ path \in Seq(STRING) /\ Len(path) = Len(host) /\ Len(host) \in Nat
      /\ \A i \in 1 .. Len(host) : path[i] = host[(Len(host) - i) + 1]
  BY ReverseType
<1>2. ASSUME NEW k \in WildDone
      PROVE  /\ PatternOf[k].labels \in Seq(STRING) /\ PatternOf[k].labels # <<>>
             /\ Reverse(PatternOf[k].labels) \in Seq(STRING)
             /\ Len(Reverse(PatternOf[k].labels)) = Len(PatternOf[k].labels)
  <2>1. k \in DomainKeys /\ PatternOf[k].labels # <<>>
    BY AllDone, ReadKeys DEF LoadInv
  <2>2. PatternOf[k].labels \in Seq(STRING)
    BY <2>1, RoutingKeys
  <2> QED
    BY <2>1, <2>2, ReverseType
<1>3. TrieOf(new.wildcards, WildEntries) /\ \A r \in WildEntries : r.path \in Seq(STRING)
  BY <1>2 DEF LoadInv, BuiltInv, WildEntries
<1>4. WildcardHits(new.wildcards, host) = hits \ {0, Len(host)}
  <2>1. \A i \in 1 .. Len(path) : path[i] # ""
    <3> SUFFICES ASSUME NEW i \in 1 .. Len(host) PROVE path[i] # ""
      BY <1>1
    <3>1. (Len(host) - i) + 1 \in 1 .. Len(host) /\ path[i] = host[(Len(host) - i) + 1]
      BY <1>1
    <3> QED
      BY <3>1 DEF Blank
  <2> QED
    BY <2>1, <1>1 DEF WildcardHits
<1>5. WildRules(read, host) = {k \in WildDone : /\ Len(PatternOf[k].labels) < Len(host)
                                               /\ IsPrefix(Reverse(PatternOf[k].labels), path)}
  BY AllDone DEF WildRules, IsSuffix
<1> HIDE DEF path
<1>6. /\ hits \subseteq 0 .. Len(path)
      /\ \A r \in WildEntries : IsPrefix(r.path, path) => Len(r.path) \in hits
      /\ \A n \in hits : [path |-> SubSeq(path, 1, n),
                          route |-> new.wildcards[SubSeq(path, 1, n)]] \in WildEntries
  BY <1>1, <1>3, LookupTrie
<1> HIDE DEF hits
<1>7. ASSUME NEW k \in WildRules(read, host)
      PROVE  Len(PatternOf[k].labels) \in WildcardHits(new.wildcards, host)
  <2>1. /\ k \in WildDone /\ Len(PatternOf[k].labels) < Len(host)
        /\ IsPrefix(Reverse(PatternOf[k].labels), path)
    BY <1>5
  <2>2. Len(PatternOf[k].labels) \in hits
    <3> DEFINE r == [path |-> Reverse(PatternOf[k].labels), route |-> read.domains[k]]
    <3>1. r \in WildEntries /\ r.path = Reverse(PatternOf[k].labels)
      BY <2>1 DEF WildEntries
    <3>2. Len(r.path) \in hits
      BY <2>1, <3>1, <1>6
    <3> QED
      BY <2>1, <3>1, <3>2, <1>2
  <2>3. Len(PatternOf[k].labels) # 0
    BY <2>1, <1>2
  <2> QED
    BY <2>1, <2>2, <2>3, <1>1, <1>4
<1>8. ASSUME NEW n \in WildcardHits(new.wildcards, host)
      PROVE  \E k \in WildRules(read, host) :
               /\ Len(PatternOf[k].labels) = n
               /\ new.wildcards[SubSeq(path, 1, n)] = read.domains[k]
  <2>0. n \in hits /\ n # Len(host)
    BY <1>4
  <2>1. n \in hits /\ n \in 0 .. Len(path) /\ n < Len(host)
    BY <2>0, <1>1, <1>6
  <2>2. PICK k \in WildDone : /\ Reverse(PatternOf[k].labels) = SubSeq(path, 1, n)
                              /\ read.domains[k] = new.wildcards[SubSeq(path, 1, n)]
    BY <2>1, <1>6 DEF WildEntries
  <2>3. Len(SubSeq(path, 1, n)) = n /\ IsPrefix(SubSeq(path, 1, n), path)
    BY <2>1, <1>1, FirstLabels
  <2>4. Len(PatternOf[k].labels) = n
    BY <2>2, <2>3, <1>2
  <2>5. k \in WildRules(read, host)
    BY <2>1, <2>2, <2>3, <2>4, <1>5
  <2> QED
    BY <2>2, <2>4, <2>5
<1> QED
  BY <1>1, <1>4, <1>6, <1>7, <1>8 DEF path

\* The lengths of the prefixes that hold an address are what its walk hits.
LEMMA CidrFound ==
    ASSUME LoadInv, ld = "store", todo = {}, NEW addr \in [fam : {"v4", "v6"}, bits : Seq({0, 1})]
    PROVE  LET holds(k) == /\ k \in SetKeys(read.cidrs) /\ Network(k).fam = Unmap(addr).fam
                           /\ IsPrefix(Network(k).bits, Unmap(addr).bits)
           IN  /\ CidrHits(new, addr) \subseteq 0 .. Len(Unmap(addr).bits)
               /\ \A k : holds(k) => Len(Network(k).bits) \in CidrHits(new, addr)
               /\ \A n \in CidrHits(new, addr) :
                    \E k : /\ holds(k) /\ Len(Network(k).bits) = n
                           /\ CidrRoute(new, addr, n) = read.cidrs[k]
<1> DEFINE path == Unmap(addr).bits
           f == Unmap(addr).fam
           hits == CidrHits(new, addr)
<1>1. f \in Families /\ path \in Seq({0, 1})
  BY UnmapType
<1>2. CidrDone(f) = {k \in SetKeys(read.cidrs) : Network(k).fam = f}
  BY AllDone
<1>3. \A k \in CidrDone(f) : Network(k).bits \in Seq({0, 1})
  BY <1>2, ReadKeys, NetworkType DEF LoadInv
<1>4. /\ TrieOf(new.cidrs[f], CidrEntries(f))
      /\ \A r \in CidrEntries(f) : r.path \in Seq({0, 1})
  <2>1. TrieOf(new.cidrs[f], CidrEntries(f))
    BY <1>1 DEF LoadInv, BuiltInv, Families
  <2>2. \A r \in CidrEntries(f) : r.path \in Seq({0, 1})
    BY <1>3 DEF CidrEntries
  <2> QED
    BY <2>1, <2>2
<1>5. hits = Hits(new.cidrs[f], path)
  BY DEF CidrHits
<1>6. \A n : CidrRoute(new, addr, n) = new.cidrs[f][SubSeq(path, 1, n)]
  BY DEF CidrRoute
<1> HIDE DEF path, f, hits
<1>7. /\ hits \subseteq 0 .. Len(path)
      /\ \A r \in CidrEntries(f) : IsPrefix(r.path, path) => Len(r.path) \in hits
      /\ \A n \in hits : [path |-> SubSeq(path, 1, n),
                          route |-> new.cidrs[f][SubSeq(path, 1, n)]] \in CidrEntries(f)
  BY <1>1, <1>4, <1>5, LookupTrie
<1>8. ASSUME NEW k \in SetKeys(read.cidrs), Network(k).fam = f, IsPrefix(Network(k).bits, path)
      PROVE  Len(Network(k).bits) \in hits
  <2> DEFINE r == [path |-> Network(k).bits, route |-> read.cidrs[k]]
  <2>1. r \in CidrEntries(f) /\ r.path = Network(k).bits
    BY <1>2, <1>8 DEF CidrEntries
  <2> QED
    BY <2>1, <1>7, <1>8
<1>9. ASSUME NEW n \in hits
      PROVE  \E k : /\ k \in SetKeys(read.cidrs) /\ Network(k).fam = f
                    /\ IsPrefix(Network(k).bits, path) /\ Len(Network(k).bits) = n
                    /\ CidrRoute(new, addr, n) = read.cidrs[k]
  <2>1. PICK k \in CidrDone(f) : /\ Network(k).bits = SubSeq(path, 1, n)
                                 /\ read.cidrs[k] = new.cidrs[f][SubSeq(path, 1, n)]
    BY <1>7 DEF CidrEntries
  <2>2. Len(SubSeq(path, 1, n)) = n /\ IsPrefix(SubSeq(path, 1, n), path)
    BY <1>1, <1>7, FirstLabels
  <2> QED
    BY <2>1, <2>2, <1>2, <1>6
<1> QED
  BY <1>7, <1>8, <1>9 DEF path, f, hits

\* What a host is looked up under: itself, or what the cache of names returns.
AddrSeq(host, ips) ==
    IF AddrOf[host] # None THEN <<AddrOf[host]>> ELSE IF ips = None THEN <<>> ELSE ips

Elements(s) == {s[i] : i \in 1 .. Len(s)}

\* A host or an answer gives a sequence of addresses, those the rules speak of.
LEMMA AddrType ==
    ASSUME NEW host \in Hosts, NEW ips \in Resolutions
    PROVE  /\ AddrSeq(host, ips) \in Seq([fam : {"v4", "v6"}, bits : Seq({0, 1})])
           /\ Elements(AddrSeq(host, ips)) =
                IF AddrOf[host] # None THEN {AddrOf[host]}
                ELSE IF ips = None THEN {} ELSE {ips[i] : i \in 1 .. Len(ips)}
<1> DEFINE A == [fam : {"v4", "v6"}, bits : Seq({0, 1})]
<1>1. AddrOf[host] = None \/ AddrOf[host] \in A
  BY RoutingHosts
<1>2. ips = None \/ ips \in Seq(A)
  BY RoutingHosts
<1> HIDE DEF A
<1>3. CASE AddrOf[host] # None
  <2>1. AddrSeq(host, ips) = <<AddrOf[host]>>
    BY <1>3 DEF AddrSeq
  <2> QED
    BY <2>1, <1>1, <1>3 DEF A, Elements
<1>4. CASE AddrOf[host] = None /\ ips = None
  <2>1. AddrSeq(host, ips) = <<>>
    BY <1>4 DEF AddrSeq
  <2> QED
    BY <2>1, <1>4 DEF A, Elements
<1>5. CASE AddrOf[host] = None /\ ips # None
  <2>1. AddrSeq(host, ips) = ips
    BY <1>5 DEF AddrSeq
  <2> QED
    BY <2>1, <1>2, <1>5 DEF A, Elements
<1> QED
  BY <1>3, <1>4, <1>5

\* The address with the longest hit, of those that have one.
LEMMA BestFound ==
    ASSUME NEW ips, Len(ips) \in Nat, NEW hit \in 1 .. Len(ips), CidrHits(new, ips[hit]) # {},
           \A i \in 1 .. Len(ips) : \E n \in Nat : CidrHits(new, ips[i]) \subseteq 0 .. n
    PROVE  LET b == BestAddr(new, ips) IN
           /\ b \in 1 .. Len(ips)
           /\ Max(CidrHits(new, ips[b])) \in CidrHits(new, ips[b])
           /\ \A i \in 1 .. Len(ips) :
                \A n \in CidrHits(new, ips[i]) : n <= Max(CidrHits(new, ips[b]))
<1> DEFINE L == Len(ips)
           hits(i) == CidrHits(new, ips[i])
           length(i) == IF hits(i) = {} THEN -1 ELSE Max(hits(i))
           lengths == {length(i) : i \in 1 .. L}
           f == [i \in 1 .. L |-> length(i)]
           best == Max(lengths)
           ties == {i \in 1 .. L : length(i) = best}
<1>1. ASSUME NEW i \in 1 .. L, hits(i) # {}
      PROVE  /\ Max(hits(i)) \in hits(i) /\ \A n \in hits(i) : n <= Max(hits(i))
             /\ hits(i) \subseteq Nat
  <2>1. PICK n \in Nat : hits(i) \subseteq 0 .. n
    OBVIOUS
  <2> HIDE DEF hits
  <2>2. n \in Int /\ hits(i) \in SUBSET Int /\ (\A x \in hits(i) : x <= n) /\ hits(i) \subseteq Nat
    BY <2>1
  <2>3. Max(hits(i)) \in hits(i) /\ \A x \in hits(i) : Max(hits(i)) >= x
    BY <2>2, <1>1, GreatestInt
  <2> QED
    BY <2>2, <2>3
<1> HIDE DEF hits
<1>2. \A i \in 1 .. L : length(i) \in Int
  <2> TAKE i \in 1 .. L
  <2>1. CASE hits(i) = {}
    BY <2>1
  <2>2. CASE hits(i) # {}
    BY <2>2, <1>1
  <2> QED
    BY <2>1, <2>2
<1>3. hits(hit) # {}
  BY DEF hits
<1>4. length(hit) >= 0
  BY <1>1, <1>3
<1> HIDE DEF length
<1>5. PICK m \in 1 .. L : \A i \in 1 .. L : length(i) <= length(m)
  <2>1. L \in Nat \ {0} /\ f \in [1 .. L -> Int]
    BY <1>2
  <2>2. \E m \in 1 .. L : \A i \in 1 .. L : f[i] <= f[m]
    <3> HIDE DEF f
    <3> QED
      BY <2>1, GreatestOf
  <2> QED
    BY <2>2
<1>6. best = length(m)
  <2>1. length(m) \in Int /\ lengths \in SUBSET Int /\ lengths # {}
        /\ (\A x \in lengths : x <= length(m)) /\ length(m) \in lengths
    BY <1>2, <1>5
  <2> HIDE DEF lengths
  <2>2. Max(lengths) \in lengths /\ \A x \in lengths : Max(lengths) >= x
    BY <2>1, GreatestInt
  <2>3. best \in Int /\ best <= length(m) /\ best >= length(m) /\ length(m) \in Int
    BY <2>1, <2>2
  <2> HIDE DEF best
  <2> QED
    BY <2>3
<1>7. m \in ties /\ ties \in SUBSET Nat
  <2> HIDE DEF best
  <2> QED
    BY <1>6
<1>8. Min(ties) \in ties
  <2> HIDE DEF ties
  <2> QED
    BY <1>7, LeastNat
<1>9. BestAddr(new, ips) = Min(ties)
  BY DEF BestAddr, length, hits
<1> DEFINE b == BestAddr(new, ips)
<1>10. b \in 1 .. L /\ length(b) = length(m)
  BY <1>6, <1>8, <1>9
<1> HIDE DEF b, ties, best, lengths, f
<1>11. \A i \in 1 .. L : length(i) <= length(b)
  BY <1>5, <1>10
<1>12. length(b) >= 0
  BY <1>2, <1>4, <1>10, <1>11
<1>13. hits(b) # {} /\ length(b) = Max(hits(b))
  BY <1>12 DEF length
<1>14. ASSUME NEW i \in 1 .. L, NEW n \in hits(i)
       PROVE  n <= Max(hits(b))
  <2>1. n \in Nat /\ n <= Max(hits(i)) /\ length(i) = Max(hits(i))
    BY <1>1, <1>14 DEF length
  <2> QED
    BY <2>1, <1>2, <1>10, <1>11, <1>13
<1> QED
  BY <1>1, <1>10, <1>13, <1>14 DEF b, hits

\* The prefixes that apply, and the longest of them, over all the addresses.
LEMMA CidrsFound ==
    ASSUME LoadInv, ld = "store", todo = {},
           NEW ips \in Seq([fam : {"v4", "v6"}, bits : Seq({0, 1})])
    PROVE  LET rules == CidrRules(read, Elements(ips))
               a == ips[BestAddr(new, ips)]
           IN  /\ CidrMatch(new, ips) <=> rules # {}
               /\ CidrMatch(new, ips) =>
                    \E k \in rules :
                      /\ CidrRoute(new, a, Max(CidrHits(new, a))) = read.cidrs[k]
                      /\ \A x \in rules : Len(Network(x).bits) <= Len(Network(k).bits)
<1> DEFINE A == [fam : {"v4", "v6"}, bits : Seq({0, 1})]
           holds(k, addr) == /\ k \in SetKeys(read.cidrs) /\ Network(k).fam = Unmap(addr).fam
                             /\ IsPrefix(Network(k).bits, Unmap(addr).bits)
           rules == CidrRules(read, Elements(ips))
           b == BestAddr(new, ips)
<1>0. ips \in Seq(A)
  OBVIOUS
<1>1. ASSUME NEW i \in 1 .. Len(ips)
      PROVE  /\ \E n \in Nat : CidrHits(new, ips[i]) \subseteq 0 .. n
             /\ \A k : holds(k, ips[i]) => Len(Network(k).bits) \in CidrHits(new, ips[i])
             /\ \A n \in CidrHits(new, ips[i]) :
                  \E k : /\ holds(k, ips[i]) /\ Len(Network(k).bits) = n
                         /\ CidrRoute(new, ips[i], n) = read.cidrs[k]
  <2>1. ips[i] \in A
    <3> HIDE DEF A
    <3> QED
      BY <1>0
  <2>2. Len(Unmap(ips[i]).bits) \in Nat
    BY <2>1, UnmapType
  <2> QED
    BY <2>1, <2>2, CidrFound
<1>2. \A k : k \in rules <=> \E i \in 1 .. Len(ips) : holds(k, ips[i])
  BY DEF CidrRules, Elements
<1> HIDE DEF holds, rules
<1>3. CidrMatch(new, ips) <=> rules # {}
  <2>1. CidrMatch(new, ips) <=> \E i \in 1 .. Len(ips) : CidrHits(new, ips[i]) # {}
    BY DEF CidrMatch
  <2>2. ASSUME NEW i \in 1 .. Len(ips), CidrHits(new, ips[i]) # {}
        PROVE  rules # {}
    BY <2>2, <1>1, <1>2
  <2>3. ASSUME NEW k \in rules
        PROVE  \E i \in 1 .. Len(ips) : CidrHits(new, ips[i]) # {}
    BY <1>1, <1>2, ZenonT(60)
  <2> QED
    BY <2>1, <2>2, <2>3
<1>4. ASSUME CidrMatch(new, ips)
      PROVE  \E k \in rules :
               /\ CidrRoute(new, ips[b], Max(CidrHits(new, ips[b]))) = read.cidrs[k]
               /\ \A x \in rules : Len(Network(x).bits) <= Len(Network(k).bits)
  <2>1. PICK hit \in 1 .. Len(ips) : CidrHits(new, ips[hit]) # {}
    BY <1>4 DEF CidrMatch
  <2>2. Len(ips) \in Nat
    OBVIOUS
  <2>3. /\ b \in 1 .. Len(ips)
        /\ Max(CidrHits(new, ips[b])) \in CidrHits(new, ips[b])
        /\ \A i \in 1 .. Len(ips) : \A n \in CidrHits(new, ips[i]) : n <= Max(CidrHits(new, ips[b]))
    BY <2>1, <2>2, <1>1, BestFound
  <2> HIDE DEF b
  <2>4. PICK k : /\ holds(k, ips[b]) /\ Len(Network(k).bits) = Max(CidrHits(new, ips[b]))
                 /\ CidrRoute(new, ips[b], Max(CidrHits(new, ips[b]))) = read.cidrs[k]
    BY <2>3, <1>1
  <2>5. k \in rules
    BY <2>3, <2>4, <1>2
  <2>6. ASSUME NEW x \in rules
        PROVE  Len(Network(x).bits) <= Len(Network(k).bits)
    <3>1. PICK i \in 1 .. Len(ips) : holds(x, ips[i])
      BY <1>2
    <3>2. Len(Network(x).bits) \in CidrHits(new, ips[i])
      BY <3>1, <1>1
    <3> QED
      BY <3>2, <2>3, <2>4
  <2> QED
    BY <2>4, <2>5, <2>6
<1> QED
  BY <1>3, <1>4 DEF rules

\* The longest wildcard that applies.
LEMMA WildBest ==
    ASSUME LoadInv, ld = "store", todo = {}, NEW host \in Seq(STRING), ~Blank(host)
    PROVE  LET wild == WildcardHits(new.wildcards, host)
               rules == WildRules(read, host)
           IN  /\ wild # {} <=> rules # {}
               /\ wild # {} =>
                    \E k \in rules :
                      /\ new.wildcards[SubSeq(Reverse(host), 1, Max(wild))] = read.domains[k]
                      /\ \A x \in rules : Len(PatternOf[x].labels) <= Len(PatternOf[k].labels)
<1> DEFINE wild == WildcardHits(new.wildcards, host)
           rules == WildRules(read, host)
<1>1. /\ wild \subseteq 0 .. Len(host)
      /\ \A k \in rules : Len(PatternOf[k].labels) \in wild
      /\ \A n \in wild : \E k \in rules :
           /\ Len(PatternOf[k].labels) = n
           /\ new.wildcards[SubSeq(Reverse(host), 1, n)] = read.domains[k]
  BY WildFound
<1>2. Len(host) \in Nat
  OBVIOUS
<1> HIDE DEF wild, rules
<1>3. wild # {} => Max(wild) \in wild /\ \A n \in wild : Max(wild) >= n
  <2>1. Len(host) \in Int /\ wild \in SUBSET Int /\ \A n \in wild : n <= Len(host)
    BY <1>1, <1>2
  <2> QED
    BY <2>1, GreatestInt
<1>4. ASSUME wild # {}
      PROVE  \E k \in rules :
               /\ new.wildcards[SubSeq(Reverse(host), 1, Max(wild))] = read.domains[k]
               /\ \A x \in rules : Len(PatternOf[x].labels) <= Len(PatternOf[k].labels)
  <2>1. PICK k \in rules : /\ Len(PatternOf[k].labels) = Max(wild)
                           /\ new.wildcards[SubSeq(Reverse(host), 1, Max(wild))] = read.domains[k]
    BY <1>1, <1>3, <1>4
  <2>2. \A n \in wild : n \in Nat
    BY <1>1, <1>2
  <2>3. \A n \in wild : n <= Max(wild)
    BY <2>2, <1>3, <1>4
  <2> QED
    BY <2>1, <2>3, <1>1
<1> QED
  BY <1>1, <1>4 DEF wild, rules

\* The longest of a set of rules, by the length of each.
LEMMA LongestRule ==
    ASSUME NEW rules, NEW k \in rules
    PROVE  /\ (\A x \in rules : Len(Network(x).bits) <= Len(Network(k).bits)) =>
                k \in Longest(rules, LAMBDA x : Len(Network(x).bits))
           /\ (\A x \in rules : Len(PatternOf[x].labels) <= Len(PatternOf[k].labels)) =>
                k \in Longest(rules, LAMBDA x : Len(PatternOf[x].labels))
  BY DEF Longest

\* A full cache sends every host where the rules say.
LEMMA FullCache ==
    ASSUME LoadInv
    PROVE  LongestMatch
<1> SUFFICES ASSUME ld = "store", todo = {}, NEW host \in Hosts, NEW ips \in Resolutions,
                    host # <<>>, ~Blank(host)
             PROVE  ResolveRoute(new, host, ips) \in Allowed(read, host, ips)
  BY DEF LongestMatch
<1> DEFINE addrs == AddrSeq(host, ips)
           wild == WildcardHits(new.wildcards, host)
           a == addrs[BestAddr(new, addrs)]
           cidrRules == CidrRules(read, Elements(addrs))
           wildRules == WildRules(read, host)
<1>1. /\ addrs \in Seq([fam : {"v4", "v6"}, bits : Seq({0, 1})])
      /\ Elements(addrs) = IF AddrOf[host] # None THEN {AddrOf[host]}
                           ELSE IF ips = None THEN {} ELSE {ips[i] : i \in 1 .. Len(ips)}
  BY AddrType
<1>2. host \in Seq(STRING)
  BY RoutingHosts
<1>3. ResolveRoute(new, host, ips) =
        IF host \in DOMAIN new.exact THEN new.exact[host]
        ELSE IF wild # {} THEN new.wildcards[SubSeq(Reverse(host), 1, Max(wild))]
        ELSE IF CidrMatch(new, addrs) THEN CidrRoute(new, a, Max(CidrHits(new, a)))
        ELSE new.default
  BY DEF ResolveRoute, AddrSeq
<1>4. Allowed(read, host, ips) =
        IF ExactRules(read, host) # {} THEN {read.domains[k] : k \in ExactRules(read, host)}
        ELSE IF wildRules # {}
        THEN {read.domains[k] : k \in Longest(wildRules, LAMBDA x : Len(PatternOf[x].labels))}
        ELSE IF cidrRules # {}
        THEN {read.cidrs[k] : k \in Longest(cidrRules, LAMBDA x : Len(Network(x).bits))}
        ELSE {IF read.default = None THEN RouteDirect ELSE read.default}
  BY <1>1 DEF Allowed
<1>5. /\ host \in DOMAIN new.exact <=> ExactRules(read, host) # {}
      /\ host \in DOMAIN new.exact =>
           new.exact[host] \in {read.domains[k] : k \in ExactRules(read, host)}
  BY ExactFound
<1>6. /\ wild # {} <=> wildRules # {}
      /\ wild # {} => \E k \in wildRules :
           /\ new.wildcards[SubSeq(Reverse(host), 1, Max(wild))] = read.domains[k]
           /\ k \in Longest(wildRules, LAMBDA x : Len(PatternOf[x].labels))
  BY <1>2, WildBest, LongestRule
<1>7. /\ CidrMatch(new, addrs) <=> cidrRules # {}
      /\ CidrMatch(new, addrs) => \E k \in cidrRules :
           /\ CidrRoute(new, a, Max(CidrHits(new, a))) = read.cidrs[k]
           /\ k \in Longest(cidrRules, LAMBDA x : Len(Network(x).bits))
  BY <1>1, CidrsFound, LongestRule
<1>8. new.default = IF read.default = None THEN RouteDirect ELSE read.default
  BY DEF LoadInv, BuiltInv
<1> HIDE DEF addrs, wild, a, cidrRules, wildRules
<1> QED
  BY <1>3, <1>4, <1>5, <1>6, <1>7, <1>8

-----------------------------------------------------------------------------
(* Theorems.                                                               *)

RoutingInv == AdminType /\ RequestInv /\ NamesInv /\ LoadInv

\* The Admin API leaves the Proxy alone.
LEMMA AdminReads ==
    ASSUME Admin
    PROVE  UNCHANGED loadVars
  BY DEF Admin, Begin, BeginDomains, BeginCidrs, BeginPatch, BeginDefault, BeginDestroy,
         SetDomain, SetCidr, PatchExists, SetDefault, HasRoutes, DestroyGroup,
         DeleteDomain, DeleteCidr, CreateGroup, RenameGroup

\* The invariant of the loader speaks of its own variables only.
LEMMA LoadUnchanged ==
    ASSUME LoadInv, UNCHANGED <<ld, todo, new, read, routes, source>>
    PROVE  LoadInv'
<1>1. LoadType' /\ Fields(new)' /\ ReadInv'
  BY DEF LoadInv, LoadType, ReadInv
<1>2. ExactDone' = ExactDone /\ WildEntries' = WildEntries
  BY DEF ExactDone, WildDone, WildEntries, Done
<1>3. \A fam \in Families : CidrEntries(fam)' = CidrEntries(fam)
  BY DEF CidrDone, CidrEntries, Done
<1>4. BuiltInv'
  BY <1>2, <1>3 DEF LoadInv, BuiltInv, Families
<1> QED
  BY <1>1, <1>4 DEF LoadInv

\* The invariant is kept by every step.
LEMMA InvStep ==
    RoutingInv /\ [Next]_vars => RoutingInv'
<1> SUFFICES ASSUME RoutingInv, [Next]_vars
             PROVE  RoutingInv'
  OBVIOUS
<1>1. CASE LoadRoutes
  <2>1. UNCHANGED <<domains, cidrs, default, groups, adm, edits, renamed>>
    BY <1>1, LoadReads DEF redisVars, adminVars
  <2>2. AdminType' /\ RequestInv' /\ NamesInv'
    BY <2>1 DEF RoutingInv, AdminType, RequestInv, NamesInv, RoutesNameGroups, NoneSeen, Named
  <2> QED
    BY <1>1, <2>2, LoadStep DEF RoutingInv
<1>2. CASE Admin
  <2>1. UNCHANGED <<ld, todo, new, read, routes, source>>
    BY <1>2, AdminReads DEF loadVars
  <2>2. LoadInv'
    BY <2>1, LoadUnchanged DEF RoutingInv
  <2> QED
    BY <1>2, <2>2, AdminTypeStep, NamesStep DEF RoutingInv
<1>3. CASE UNCHANGED vars
  <2>1. UNCHANGED <<domains, cidrs, default, groups, adm, edits, renamed>>
        /\ UNCHANGED <<ld, todo, new, read, routes, source>>
    BY <1>3 DEF vars, redisVars, adminVars, loadVars
  <2>2. AdminType' /\ RequestInv' /\ NamesInv'
    BY <2>1 DEF RoutingInv, AdminType, RequestInv, NamesInv, RoutesNameGroups, NoneSeen, Named
  <2> QED
    BY <2>1, <2>2, LoadUnchanged DEF RoutingInv
<1> QED
  BY <1>1, <1>2, <1>3 DEF Next

\* The invariant of every reachable state.
LEMMA Invariant ==
    Spec => []RoutingInv
<1>1. Init => RoutingInv
  BY AdminInit, LoadInit DEF RoutingInv
<1> QED
  BY <1>1, InvStep, PTL DEF Spec

\* Type correctness of the stores, of the requests and of the tries, in which
\* every node has its parent.
THEOREM RoutingTypeCorrect ==
    Spec => []TypeOK
<1>1. RoutingInv => TypeOK
  BY DEF RoutingInv, LoadInv, AdminType, LoadType, TypeOK
<1> QED
  BY <1>1, Invariant, PTL

\* Whatever requests of the Admin API interleave, and however many, a route in
\* Redis names a group in PostgreSQL, unless the group was renamed or a request
\* for a route to it overlapped its deletion.
THEOREM NamesSafe ==
    Spec => []RoutesNameGroups
<1>1. RoutingInv => RoutesNameGroups
  BY DEF RoutingInv, NamesInv
<1> QED
  BY <1>1, Invariant, PTL

\* Whatever the order in which the tries are filled, and whatever the admin
\* writes meanwhile, a cache put in use sends every host where the rules it was
\* built from say: for any keys, hosts, addresses and answers of the resolver.
THEOREM LongestSafe ==
    Spec => []LongestMatch
<1>1. RoutingInv => LongestMatch
  BY FullCache DEF RoutingInv
<1> QED
  BY <1>1, Invariant, PTL

-----------------------------------------------------------------------------
(* The DNS cache: types, and its bound.                                    *)

\* What DnsTypeOK needs to be inductive: the map is finite because set adds one
\* entry at a time, and a client past the first get has a host.
TypeInv ==
    /\ DnsTypeOK
    /\ IsFiniteSet(Present)
    /\ \A c \in Clients : st[c] # "idle" => hostOf[c] \in DnsHosts

\* The entries that set keeps leave room for the one it adds.
LEMMA RoomIsMade ==
    ASSUME TypeInv, NEW h \in DnsHosts,
           NEW kept \in IF h \in Present THEN {Present}
                        ELSE IF Cardinality(Present) >= maxEntries THEN Room(Present \ expired)
                        ELSE {Present}
    PROVE  /\ kept \subseteq Present
           /\ IsFiniteSet(kept \cup {h})
           /\ Cardinality(kept \cup {h}) <= maxEntries
<1> USE DnsBounds
<1>1. IsFiniteSet(Present) /\ Cardinality(Present) \in Nat /\ Cardinality(Present) <= maxEntries
  BY FS_CardinalityType DEF TypeInv, DnsTypeOK
<1>2. CASE h \in Present
  <2>1. kept = Present /\ kept \cup {h} = Present
    BY <1>2
  <2> QED
    BY <1>1, <2>1
<1>3. CASE h \notin Present /\ Cardinality(Present) < maxEntries
  <2>1. kept = Present
    BY <1>1, <1>3
  <2>2. IsFiniteSet(Present \cup {h}) /\ Cardinality(Present \cup {h}) = Cardinality(Present) + 1
    BY <1>1, <1>3, FS_AddElement
  <2> QED
    BY <1>1, <1>3, <2>1, <2>2
<1>4. CASE h \notin Present /\ Cardinality(Present) >= maxEntries
  <2> DEFINE valid == Present \ expired
  <2>1. IsFiniteSet(valid) /\ Cardinality(valid) <= Cardinality(Present)
        /\ Cardinality(valid) \in Nat
    BY <1>1, FS_Subset, FS_CardinalityType
  <2>2. kept \in Room(valid)
    BY <1>4
  <2> HIDE DEF valid
  <2>3. /\ kept \subseteq valid /\ IsFiniteSet(kept) /\ Cardinality(kept) \in Nat
        /\ Cardinality(kept) < maxEntries
    <3>1. CASE Cardinality(valid) < maxEntries
      BY <2>1, <2>2, <3>1 DEF Room
    <3>2. CASE Cardinality(valid) >= maxEntries
      <4>1. PICK x \in valid : kept = valid \ {x}
        BY <2>1, <2>2, <3>2 DEF Room
      <4>2. IsFiniteSet(kept) /\ Cardinality(kept) = Cardinality(valid) - 1
        BY <2>1, <4>1, FS_RemoveElement
      <4>3. Cardinality(kept) \in Nat
        BY <4>2, FS_CardinalityType
      <4> QED
        BY <1>1, <2>1, <4>1, <4>2, <4>3
    <3> QED
      BY <2>1, <3>1, <3>2
  <2>4. h \notin kept
    BY <1>4, <2>3 DEF valid
  <2>5. IsFiniteSet(kept \cup {h}) /\ Cardinality(kept \cup {h}) = Cardinality(kept) + 1
    BY <2>3, <2>4, FS_AddElement
  <2>6. Cardinality(kept \cup {h}) <= maxEntries
    BY <2>3, <2>5
  <2> QED
    BY <2>3, <2>5, <2>6 DEF valid
<1> QED
  BY <1>1, <1>2, <1>3, <1>4

\* A step that adds no entry keeps the bound.
LEMMA PresentShrinks ==
    ASSUME TypeInv, Present' \subseteq Present
    PROVE  IsFiniteSet(Present') /\ Cardinality(Present') <= maxEntries
<1>1. IsFiniteSet(Present) /\ Cardinality(Present) \in Nat /\ Cardinality(Present) <= maxEntries
  BY FS_CardinalityType DEF TypeInv, DnsTypeOK
<1>2. IsFiniteSet(Present') /\ Cardinality(Present') <= Cardinality(Present)
      /\ Cardinality(Present') \in Nat
  BY <1>1, FS_Subset, FS_CardinalityType
<1> QED
  BY <1>1, <1>2, DnsBounds

\* Oldest is a number of a query, or the number after the last.
LEMMA OldestType ==
    ASSUME DnsTypeOK, NEW h \in DnsHosts
    PROVE  Oldest(h) \in 0 .. MaxQueries + 1
<1>1. entries[h] # Nil => entries[h].n \in Numbers
  BY DEF DnsTypeOK, Results
<1>2. landed[h] \in Numbers
  BY DEF DnsTypeOK
<1> QED
  BY <1>1, <1>2, DnsBounds DEF Oldest, Numbers

\* TypeInv is preserved by every step.
LEMMA TypeStep == TypeInv /\ [DnsNext]_dnsVars => TypeInv'
<1> SUFFICES ASSUME TypeInv, [DnsNext]_dnsVars PROVE TypeInv'
  OBVIOUS
<1> USE DnsNil, DnsBounds
<1> USE DEF histVars
<1>0. CASE UNCHANGED dnsVars
  BY <1>0 DEF dnsVars, TypeInv, DnsTypeOK, Present
<1>1. ASSUME NEW c \in Clients, NEW h \in DnsHosts, Lookup(c, h) PROVE TypeInv'
  <2>1. Oldest(h) \in 0 .. MaxQueries + 1 /\ since[h] \in 0 .. MaxQueries + 1
    BY OldestType DEF TypeInv, DnsTypeOK
  <2>2. floor' \in [Clients -> 0 .. MaxQueries + 1]
    BY <1>1, <2>1 DEF Lookup, TypeInv, DnsTypeOK
  <2>3. Present' = Present
    BY <1>1 DEF Lookup, Present
  <2>4. hostOf' \in [Clients -> DnsHosts \cup {Nil}] /\ st' \in [Clients -> Stages]
        /\ \A d \in Clients : st'[d] # "idle" => hostOf'[d] \in DnsHosts
    BY <1>1 DEF Lookup, TypeInv, DnsTypeOK, Stages
  <2>5. res' \in [Clients -> Results]
    BY <1>1 DEF Lookup, Valid, TypeInv, DnsTypeOK
  <2> QED
    BY <1>1, <2>2, <2>3, <2>4, <2>5 DEF Lookup, TypeInv, DnsTypeOK
<1>2. ASSUME NEW c \in Clients, Do(c) PROVE TypeInv'
  <2>1. hostOf[c] \in DnsHosts
    BY <1>2 DEF Do, TypeInv
  <2>2. Oldest(hostOf[c]) \in 0 .. MaxQueries + 1
    BY <2>1, OldestType DEF TypeInv
  <2>3. since' \in [DnsHosts -> 0 .. MaxQueries + 1] /\ flight' \in [DnsHosts -> Clients \cup {Nil}]
    BY <1>2, <2>1, <2>2 DEF Do, TypeInv, DnsTypeOK
  <2>4. Present' = Present
    BY <1>2 DEF Do, Present
  <2>5. st' \in [Clients -> Stages] /\ \A d \in Clients : st'[d] # "idle" => hostOf'[d] \in DnsHosts
    BY <1>2, <2>1 DEF Do, TypeInv, DnsTypeOK, Stages
  <2> QED
    BY <1>2, <2>3, <2>4, <2>5 DEF Do, TypeInv, DnsTypeOK
<1>3. ASSUME NEW c \in Clients, Recheck(c) PROVE TypeInv'
  <2>1. hostOf[c] \in DnsHosts
    BY <1>3 DEF Recheck, TypeInv
  <2>2. Present' = Present
    BY <1>3 DEF Recheck, Present
  <2>3. st' \in [Clients -> Stages] /\ \A d \in Clients : st'[d] # "idle" => hostOf'[d] \in DnsHosts
    BY <1>3, <2>1 DEF Recheck, TypeInv, DnsTypeOK, Stages
  <2>4. res' \in [Clients -> Results]
    BY <1>3, <2>1 DEF Recheck, Valid, TypeInv, DnsTypeOK
  <2> QED
    BY <1>3, <2>2, <2>3, <2>4 DEF Recheck, TypeInv, DnsTypeOK
<1>4. ASSUME NEW c \in Clients, NEW ips \in Answers \cup {Nil}, Query(c, ips) PROVE TypeInv'
  <2>1. hostOf[c] \in DnsHosts
    BY <1>4 DEF Query, TypeInv
  <2>2. queries[hostOf[c]] + 1 \in Numbers
    BY <1>4, <2>1 DEF Query, TypeInv, DnsTypeOK, Numbers
  <2>3. [ips |-> ips, n |-> queries[hostOf[c]] + 1] \in Results
    BY <2>2 DEF Results
  <2>4. Present' = Present
    BY <1>4 DEF Query, Present
  <2>5. st' \in [Clients -> Stages] /\ \A d \in Clients : st'[d] # "idle" => hostOf'[d] \in DnsHosts
    BY <1>4, <2>1 DEF Query, TypeInv, DnsTypeOK, Stages
  <2>6. queries' \in [DnsHosts -> Numbers] /\ res' \in [Clients -> Results]
    BY <1>4, <2>1, <2>2, <2>3 DEF Query, TypeInv, DnsTypeOK
  <2> QED
    BY <1>4, <2>4, <2>5, <2>6 DEF Query, TypeInv, DnsTypeOK
<1>5. ASSUME NEW c \in Clients, Set(c) PROVE TypeInv'
  <2>1. hostOf[c] \in DnsHosts
    BY <1>5 DEF Set, TypeInv
  <2>2. PICK kept \in IF hostOf[c] \in Present THEN {Present}
                      ELSE IF Cardinality(Present) >= maxEntries THEN Room(Present \ expired)
                      ELSE {Present} :
          /\ entries' = [h \in DnsHosts |-> IF h = hostOf[c] THEN res[c]
                                         ELSE IF h \in kept THEN entries[h] ELSE Nil]
          /\ expired' = (expired \cap kept) \ {hostOf[c]}
    BY <1>5 DEF Set
  <2>3. /\ kept \subseteq Present
        /\ IsFiniteSet(kept \cup {hostOf[c]})
        /\ Cardinality(kept \cup {hostOf[c]}) <= maxEntries
        /\ Cardinality(kept \cup {hostOf[c]}) \in Nat
    BY <2>1, <2>2, RoomIsMade, FS_CardinalityType
  <2>4. Present' \subseteq kept \cup {hostOf[c]}
    BY <2>2 DEF Present
  <2>5. IsFiniteSet(Present') /\ Cardinality(Present') <= Cardinality(kept \cup {hostOf[c]})
        /\ Cardinality(Present') \in Nat
    BY <2>3, <2>4, FS_Subset, FS_CardinalityType
  <2>6. Cardinality(Present') <= maxEntries
    BY <2>3, <2>5
  <2>7. entries' \in [DnsHosts -> Results \cup {Nil}]
    BY <2>2 DEF TypeInv, DnsTypeOK
  <2>8. expired' \subseteq Present'
    BY <2>1, <2>2, <2>3 DEF Present
  <2>9. st' \in [Clients -> Stages] /\ \A d \in Clients : st'[d] # "idle" => hostOf'[d] \in DnsHosts
    BY <1>5, <2>1 DEF Set, TypeInv, DnsTypeOK, Stages
  <2> QED
    BY <1>5, <2>5, <2>6, <2>7, <2>8, <2>9 DEF Set, TypeInv, DnsTypeOK
<1>6. ASSUME NEW c \in Clients, Finish(c) PROVE TypeInv'
  <2>1. hostOf[c] \in DnsHosts /\ res[c].n \in Numbers
    BY <1>6 DEF Finish, TypeInv, DnsTypeOK, Results
  <2>2. Present' = Present
    BY <1>6 DEF Finish, Present
  <2>3. st' \in [Clients -> Stages] /\ \A d \in Clients : st'[d] # "idle" => hostOf'[d] \in DnsHosts
    BY <1>6, <2>1 DEF Finish, TypeInv, DnsTypeOK, Stages
  <2>4. res' \in [Clients -> Results]
    BY <1>6 DEF Finish, TypeInv, DnsTypeOK
  <2>5. flight' \in [DnsHosts -> Clients \cup {Nil}] /\ landed' \in [DnsHosts -> Numbers]
    BY <1>6, <2>1 DEF Finish, TypeInv, DnsTypeOK
  <2> QED
    BY <1>6, <2>2, <2>3, <2>4, <2>5 DEF Finish, TypeInv, DnsTypeOK
<1>7. ASSUME NEW h \in DnsHosts, Expire(h) PROVE TypeInv'
  <2>1. Present' = Present /\ expired' \subseteq Present
    BY <1>7 DEF Expire, Valid, Present, TypeInv, DnsTypeOK
  <2> QED
    BY <1>7, <2>1 DEF Expire, TypeInv, DnsTypeOK
<1>8. CASE Cleanup
  <2>1. Present' \subseteq Present /\ expired' \subseteq Present'
    BY <1>8 DEF Cleanup, Present, TypeInv, DnsTypeOK
  <2>2. IsFiniteSet(Present') /\ Cardinality(Present') <= maxEntries
    BY <2>1, PresentShrinks
  <2> QED
    BY <1>8, <2>1, <2>2 DEF Cleanup, TypeInv, DnsTypeOK
<1> QED
  BY <1>0, <1>1, <1>2, <1>3, <1>4, <1>5, <1>6, <1>7, <1>8 DEF DnsNext

\* TypeInv holds initially.
LEMMA TypeInit == DnsInit => TypeInv
<1> SUFFICES ASSUME DnsInit PROVE TypeInv
  OBVIOUS
<1>1. Present = {}
  BY DEF DnsInit, Present
<1>2. IsFiniteSet(Present) /\ Cardinality(Present) <= maxEntries
  BY <1>1, FS_EmptySet, DnsBounds
<1>3. 0 \in Numbers /\ 0 \in 0 .. MaxQueries + 1 /\ NoResult \in Results
  BY DnsBounds DEF Numbers, NoResult, Results
<1> QED
  BY <1>1, <1>2, <1>3 DEF DnsInit, TypeInv, DnsTypeOK, Stages

-----------------------------------------------------------------------------
(* One query per host.                                                     *)

Running == {"recheck", "query", "set", "finish"}

\* OneQueryPerHost, and conversely: a flight belongs to a client that runs it.
FlightInv ==
    /\ \A c \in Clients : st[c] \in Running => flight[hostOf[c]] = c
    /\ \A c \in Clients : st[c] = "wait" => flight[hostOf[c]] # Nil
    /\ \A h \in DnsHosts : flight[h] # Nil => st[flight[h]] \in Running /\ hostOf[flight[h]] = h

\* FlightInv is preserved by every step: Do starts a flight only where there
\* is none, and Finish releases whoever waits for it.
LEMMA FlightStep == TypeInv /\ FlightInv /\ [DnsNext]_dnsVars => FlightInv'
<1> SUFFICES ASSUME TypeInv, FlightInv, [DnsNext]_dnsVars PROVE FlightInv'
  OBVIOUS
<1> USE DnsNil
<1> USE DEF Running, histVars
<1>0. CASE UNCHANGED dnsVars
  BY <1>0 DEF dnsVars, FlightInv
<1>1. ASSUME NEW c \in Clients, NEW h \in DnsHosts, Lookup(c, h) PROVE FlightInv'
  BY <1>1 DEF Lookup, FlightInv, TypeInv, DnsTypeOK
<1>2. ASSUME NEW c \in Clients, Do(c) PROVE FlightInv'
  BY <1>2 DEF Do, FlightInv, TypeInv, DnsTypeOK
<1>3. ASSUME NEW c \in Clients, Recheck(c) PROVE FlightInv'
  BY <1>3 DEF Recheck, FlightInv, TypeInv, DnsTypeOK
<1>4. ASSUME NEW c \in Clients, NEW ips \in Answers \cup {Nil}, Query(c, ips) PROVE FlightInv'
  BY <1>4 DEF Query, FlightInv, TypeInv, DnsTypeOK
<1>5. ASSUME NEW c \in Clients, Set(c) PROVE FlightInv'
  BY <1>5 DEF Set, FlightInv, TypeInv, DnsTypeOK
<1>6. ASSUME NEW c \in Clients, Finish(c) PROVE FlightInv'
  BY <1>6 DEF Finish, FlightInv, TypeInv, DnsTypeOK
<1>7. ASSUME NEW h \in DnsHosts, Expire(h) PROVE FlightInv'
  BY <1>7 DEF Expire, FlightInv
<1>8. CASE Cleanup
  BY <1>8 DEF Cleanup, FlightInv
<1> QED
  BY <1>0, <1>1, <1>2, <1>3, <1>4, <1>5, <1>6, <1>7, <1>8 DEF DnsNext

-----------------------------------------------------------------------------
(* How old an answer may be.                                               *)

\* The stage of the client that runs the flight of h.
Stage(h) == IF flight[h] = Nil THEN "none" ELSE st[flight[h]]

\* The entry of h is from the last query that has landed, or, once it is set,
\* from the query that is about to; and the flight is not older than what it
\* will answer with.
Age(h) ==
    /\ Stage(h) \in {"none", "recheck", "query"} => queries[h] = landed[h]
    /\ Stage(h) = "set" => queries[h] = landed[h] + 1 /\ res[flight[h]].n = queries[h]
    /\ Stage(h) = "finish" => res[flight[h]].n = queries[h] /\ landed[h] <= queries[h]
    /\ entries[h] # Nil => entries[h].n = IF Stage(h) = "finish" THEN queries[h] ELSE landed[h]
    /\ Stage(h) = "finish" => since[h] <= queries[h]
    /\ Stage(h) \in {"recheck", "query", "set"} =>
          since[h] <= landed[h] + 1 /\ (Valid(h) => since[h] <= landed[h])

AgeInv == \A h \in DnsHosts : Age(h)

\* The oldest query that may answer a client that asks for h now.
Bound(h) == IF flight[h] # Nil THEN since[h] ELSE Oldest(h)

\* While a client is on its way no answer too old for it can come up, and
\* what it is told at last is not too old.
FloorInv ==
    /\ \A c \in Clients : st[c] # "idle" => floor[c] <= Bound(hostOf[c])
    /\ AnswerNotStale

\* AgeInv is preserved by every step.
LEMMA AgeStep == TypeInv /\ FlightInv /\ AgeInv /\ [DnsNext]_dnsVars => AgeInv'
<1> SUFFICES ASSUME TypeInv, FlightInv, AgeInv, [DnsNext]_dnsVars, NEW x \in DnsHosts PROVE Age(x)'
  BY DEF AgeInv
<1> USE DnsNil, DnsBounds
<1> USE DEF Running, histVars
<1>a. queries[x] \in Nat /\ landed[x] \in Nat /\ since[x] \in Nat /\ Age(x)
  BY DEF TypeInv, DnsTypeOK, Numbers, AgeInv
<1>0. CASE UNCHANGED dnsVars
  BY <1>0, <1>a DEF dnsVars, Age, Stage, Valid
<1>1. ASSUME NEW c \in Clients, NEW h \in DnsHosts, Lookup(c, h) PROVE Age(x)'
  <2>1. Stage(x)' = Stage(x) /\ (Stage(x) # "none" => flight[x] # c)
    BY <1>1 DEF Lookup, Stage, FlightInv, TypeInv, DnsTypeOK
  <2> QED
    BY <1>1, <1>a, <2>1 DEF Lookup, Age, Stage, Valid, TypeInv, DnsTypeOK
<1>2. ASSUME NEW c \in Clients, Do(c) PROVE Age(x)'
  <2>1. CASE x # hostOf[c] \/ flight[x] # Nil
    <3>1. Stage(x)' = Stage(x) /\ since'[x] = since[x] /\ flight'[x] = flight[x]
      BY <1>2, <2>1 DEF Do, Stage, FlightInv, TypeInv, DnsTypeOK
    <3> QED
      BY <1>2, <1>a, <3>1 DEF Do, Age, Valid
  <2>2. CASE x = hostOf[c] /\ flight[x] = Nil
    <3>1. Stage(x) = "none" /\ Stage(x)' = "recheck" /\ since'[x] = Oldest(x)
      BY <1>2, <2>2 DEF Do, Stage, TypeInv, DnsTypeOK
    <3>2. Oldest(x) <= landed[x] + 1 /\ (Valid(x) => Oldest(x) = landed[x])
      BY <1>a, <3>1 DEF Oldest, Valid, Age
    <3> QED
      BY <1>2, <1>a, <3>1, <3>2 DEF Do, Age, Valid
  <2> QED
    BY <2>1, <2>2
<1>3. ASSUME NEW c \in Clients, Recheck(c) PROVE Age(x)'
  <2>1. CASE x # hostOf[c]
    <3>1. Stage(x)' = Stage(x) /\ (Stage(x) # "none" => flight[x] # c)
      BY <1>3, <2>1 DEF Recheck, Stage, FlightInv, TypeInv, DnsTypeOK
    <3> QED
      BY <1>3, <1>a, <3>1 DEF Recheck, Age, Stage, Valid, TypeInv, DnsTypeOK
  <2>2. CASE x = hostOf[c]
    <3>1. flight[x] = c /\ Stage(x) = "recheck"
      BY <1>3, <2>2 DEF Recheck, Stage, FlightInv
    <3>2. CASE Valid(x)
      <4>1. Stage(x)' = "finish" /\ res'[c] = entries[x] /\ entries[x] # Nil
        BY <1>3, <2>2, <3>1, <3>2 DEF Recheck, Stage, Valid, TypeInv, DnsTypeOK
      <4>2. res'[c].n = landed[x] /\ since[x] <= landed[x] /\ queries[x] = landed[x]
        BY <1>a, <3>1, <3>2, <4>1 DEF Age
      <4> QED
        BY <1>3, <1>a, <3>1, <4>1, <4>2 DEF Recheck, Age
    <3>3. CASE ~Valid(x)
      <4>1. Stage(x)' = "query"
        BY <1>3, <2>2, <3>1, <3>3 DEF Recheck, Stage, TypeInv, DnsTypeOK
      <4> QED
        BY <1>3, <1>a, <3>1, <4>1 DEF Recheck, Age, Valid
    <3> QED
      BY <3>2, <3>3
  <2> QED
    BY <2>1, <2>2
<1>4. ASSUME NEW c \in Clients, NEW ips \in Answers \cup {Nil}, Query(c, ips) PROVE Age(x)'
  <2>1. CASE x # hostOf[c]
    <3>1. Stage(x)' = Stage(x) /\ (Stage(x) # "none" => flight[x] # c) /\ queries'[x] = queries[x]
      BY <1>4, <2>1 DEF Query, Stage, FlightInv, TypeInv, DnsTypeOK
    <3> QED
      BY <1>4, <1>a, <3>1 DEF Query, Age, Stage, Valid, TypeInv, DnsTypeOK
  <2>2. CASE x = hostOf[c]
    <3>1. flight[x] = c /\ Stage(x) = "query" /\ Stage(x)' = "set"
      BY <1>4, <2>2 DEF Query, Stage, FlightInv, TypeInv, DnsTypeOK
    <3>2. queries'[x] = queries[x] + 1 /\ res'[c].n = queries[x] + 1
      BY <1>4, <2>2 DEF Query, TypeInv, DnsTypeOK
    <3> QED
      BY <1>4, <1>a, <3>1, <3>2 DEF Query, Age, Valid
  <2> QED
    BY <2>1, <2>2
<1>5. ASSUME NEW c \in Clients, Set(c) PROVE Age(x)'
  <2>0. PICK kept : /\ entries' = [h \in DnsHosts |-> IF h = hostOf[c] THEN res[c]
                                         ELSE IF h \in kept THEN entries[h] ELSE Nil]
                    /\ expired' = (expired \cap kept) \ {hostOf[c]}
    BY <1>5 DEF Set
  <2>1. CASE x # hostOf[c]
    <3>1. Stage(x)' = Stage(x)
      BY <1>5, <2>1 DEF Set, Stage, FlightInv, TypeInv, DnsTypeOK
    <3>2. (entries'[x] # Nil => entries'[x] = entries[x]) /\ (Valid(x)' => Valid(x))
      BY <2>0, <2>1 DEF Valid
    <3> QED
      BY <1>5, <1>a, <3>1, <3>2 DEF Set, Age
  <2>2. CASE x = hostOf[c]
    <3>1. flight[x] = c /\ Stage(x) = "set" /\ Stage(x)' = "finish"
      BY <1>5, <2>2 DEF Set, Stage, FlightInv, TypeInv, DnsTypeOK
    <3>2. entries'[x] = res[c]
      BY <2>0, <2>2
    <3> QED
      BY <1>5, <1>a, <3>1, <3>2 DEF Set, Age
  <2> QED
    BY <2>1, <2>2
<1>6. ASSUME NEW c \in Clients, Finish(c) PROVE Age(x)'
  <2>1. CASE x # hostOf[c]
    <3>1. CASE flight[x] = Nil
      <4>1. Stage(x) = "none" /\ Stage(x)' = "none" /\ landed'[x] = landed[x]
        BY <1>6, <2>1, <3>1 DEF Finish, Stage, TypeInv, DnsTypeOK
      <4> QED
        BY <1>6, <1>a, <4>1 DEF Finish, Age, Valid
    <3>2. CASE flight[x] # Nil
      <4>1. flight[x] \in Clients /\ hostOf[flight[x]] = x /\ st[flight[x]] \in Running
        BY <3>2 DEF FlightInv, TypeInv, DnsTypeOK
      <4>2. /\ Stage(x)' = Stage(x) /\ res'[flight[x]] = res[flight[x]]
            /\ flight'[x] = flight[x] /\ landed'[x] = landed[x]
        BY <1>6, <2>1, <4>1 DEF Finish, Stage, TypeInv, DnsTypeOK
      <4> QED
        BY <1>6, <1>a, <4>2 DEF Finish, Age, Valid
    <3> QED
      BY <3>1, <3>2
  <2>2. CASE x = hostOf[c]
    <3>1. flight[x] = c /\ Stage(x) = "finish" /\ Stage(x)' = "none"
      BY <1>6, <2>2 DEF Finish, Stage, FlightInv, TypeInv, DnsTypeOK
    <3>2. landed'[x] = res[c].n
      BY <1>6, <2>2 DEF Finish, TypeInv, DnsTypeOK
    <3> QED
      BY <1>6, <1>a, <3>1, <3>2 DEF Finish, Age
  <2> QED
    BY <2>1, <2>2
<1>7. ASSUME NEW h \in DnsHosts, Expire(h) PROVE Age(x)'
  <2>1. Stage(x)' = Stage(x) /\ (Valid(x)' => Valid(x))
    BY <1>7 DEF Expire, Stage, Valid
  <2> QED
    BY <1>7, <1>a, <2>1 DEF Expire, Age
<1>8. CASE Cleanup
  <2>1. Stage(x)' = Stage(x) /\ (Valid(x)' => Valid(x))
        /\ (entries'[x] # Nil => entries'[x] = entries[x])
    BY <1>8 DEF Cleanup, Stage, Valid
  <2> QED
    BY <1>8, <1>a, <2>1 DEF Cleanup, Age
<1> QED
  BY <1>0, <1>1, <1>2, <1>3, <1>4, <1>5, <1>6, <1>7, <1>8 DEF DnsNext

\* The oldest query that may answer a new client for x only ever moves on.
LEMMA BoundGrows ==
    ASSUME TypeInv, FlightInv, AgeInv, DnsNext, NEW x \in DnsHosts
    PROVE  Bound(x) <= Bound(x)'
<1> USE DnsNil, DnsBounds
<1> USE DEF Running, histVars
<1>a. queries[x] \in Nat /\ landed[x] \in Nat /\ since[x] \in Nat /\ Age(x) /\ Bound(x) \in Nat
  <2>1. queries[x] \in Nat /\ landed[x] \in Nat /\ since[x] \in Nat /\ Age(x)
    BY DEF TypeInv, DnsTypeOK, Numbers, AgeInv
  <2>2. Oldest(x) \in Nat
    BY OldestType DEF TypeInv
  <2> QED
    BY <2>1, <2>2 DEF Bound
<1>1. ASSUME NEW c \in Clients, NEW h \in DnsHosts, Lookup(c, h) PROVE Bound(x) <= Bound(x)'
  BY <1>1, <1>a DEF Lookup, Bound, Oldest
<1>2. ASSUME NEW c \in Clients, Do(c) PROVE Bound(x) <= Bound(x)'
  BY <1>2, <1>a DEF Do, Bound, Oldest, TypeInv, DnsTypeOK
<1>3. ASSUME NEW c \in Clients, Recheck(c) PROVE Bound(x) <= Bound(x)'
  BY <1>3, <1>a DEF Recheck, Bound, Oldest
<1>4. ASSUME NEW c \in Clients, NEW ips \in Answers \cup {Nil}, Query(c, ips)
      PROVE  Bound(x) <= Bound(x)'
  BY <1>4, <1>a DEF Query, Bound, Oldest
<1>5. ASSUME NEW c \in Clients, Set(c) PROVE Bound(x) <= Bound(x)'
  <2>1. CASE flight[x] # Nil
    BY <1>5, <1>a, <2>1 DEF Set, Bound
  <2>2. CASE flight[x] = Nil
    <3>1. x # hostOf[c] /\ landed' = landed /\ flight' = flight
      BY <1>5, <2>2 DEF Set, FlightInv
    <3>2. (Valid(x)' => entries'[x] = entries[x] /\ Valid(x))
      BY <1>5, <3>1 DEF Set, Valid
    <3>3. Oldest(x) <= landed[x] + 1
      BY <1>a, <2>2 DEF Oldest, Age, Stage
    <3> QED
      BY <1>a, <2>2, <3>1, <3>2, <3>3 DEF Bound, Oldest, Valid
  <2> QED
    BY <2>1, <2>2
<1>6. ASSUME NEW c \in Clients, Finish(c) PROVE Bound(x) <= Bound(x)'
  <2>1. CASE x # hostOf[c]
    BY <1>6, <1>a, <2>1 DEF Finish, Bound, Oldest, TypeInv, DnsTypeOK
  <2>2. CASE x = hostOf[c]
    <3>1. flight[x] = c /\ Stage(x) = "finish"
      BY <1>6, <2>2 DEF Finish, Stage, FlightInv
    <3>2. landed'[x] = queries[x] /\ flight'[x] = Nil /\ entries' = entries /\ expired' = expired
      BY <1>6, <1>a, <2>2, <3>1 DEF Finish, Age, TypeInv, DnsTypeOK
    <3>3. Bound(x) = since[x] /\ since[x] <= queries[x]
          /\ (entries[x] # Nil => entries[x].n = queries[x])
      BY <1>a, <3>1 DEF Bound, Age
    <3> QED
      BY <1>a, <3>2, <3>3 DEF Bound, Oldest
  <2> QED
    BY <2>1, <2>2
<1>7. ASSUME NEW h \in DnsHosts, Expire(h) PROVE Bound(x) <= Bound(x)'
  <2>1. flight[x] = Nil => Oldest(x) <= landed[x] + 1
    BY <1>a DEF Oldest, Age, Stage
  <2> QED
    BY <1>7, <1>a, <2>1 DEF Expire, Bound, Oldest
<1>8. CASE Cleanup
  BY <1>8, <1>a DEF Cleanup, Bound, Oldest
<1> QED
  BY <1>1, <1>2, <1>3, <1>4, <1>5, <1>6, <1>7, <1>8 DEF DnsNext

\* FloorInv is preserved by every step.
LEMMA FloorStep == TypeInv /\ FlightInv /\ AgeInv /\ FloorInv /\ [DnsNext]_dnsVars => FloorInv'
<1> DEFINE Floor(d) == /\ st[d] # "idle" => floor[d] <= Bound(hostOf[d])
                       /\ (st[d] = "idle" /\ hostOf[d] # Nil) => res[d].n >= floor[d]
<1> SUFFICES ASSUME TypeInv, FlightInv, AgeInv, FloorInv, [DnsNext]_dnsVars, NEW d \in Clients
             PROVE  Floor(d)'
  BY DEF FloorInv, AnswerNotStale
<1> USE DnsNil, DnsBounds
<1> USE DEF Running, histVars
<1>a. Floor(d) /\ floor[d] \in Nat
  BY DEF FloorInv, AnswerNotStale, TypeInv, DnsTypeOK
<1>b. st[d] # "idle" => hostOf[d] \in DnsHosts
  BY DEF TypeInv
<1>t. \A h \in DnsHosts : Bound(h) \in Nat
  BY OldestType DEF TypeInv, DnsTypeOK, Bound
<1>0. CASE UNCHANGED dnsVars
  BY <1>0, <1>a DEF dnsVars, Bound, Oldest
<1>g. ASSUME DnsNext PROVE \A h \in DnsHosts : Bound(h)' \in Nat /\ Bound(h) <= Bound(h)'
  <2>1. DnsTypeOK'
    BY <1>g, TypeStep DEF TypeInv
  <2> SUFFICES ASSUME NEW h \in DnsHosts PROVE Bound(h)' \in Nat /\ Bound(h) <= Bound(h)'
    OBVIOUS
  <2>2. (entries'[h] # Nil => entries'[h].n \in Nat) /\ landed'[h] \in Nat /\ since'[h] \in Nat
    BY <2>1 DEF DnsTypeOK, Results, Numbers
  <2>3. Bound(h)' \in Nat
    BY <2>2 DEF Bound, Oldest
  <2> QED
    BY <1>g, <2>3, BoundGrows
<1>u. ASSUME DnsNext, st[d] = "idle" <=> st'[d] = "idle", hostOf'[d] = hostOf[d],
             floor'[d] = floor[d], st[d] = "idle" => res'[d] = res[d]
      PROVE  Floor(d)'
  <2>1. CASE st[d] = "idle"
    BY <1>a, <1>u, <2>1
  <2>2. CASE st[d] # "idle"
    <3>1. PICK h \in DnsHosts : h = hostOf[d]
      BY <1>b, <2>2
    <3>2. floor[d] <= Bound(h) /\ Bound(h) <= Bound(h)' /\ Bound(h) \in Nat /\ Bound(h)' \in Nat
      BY <1>a, <1>t, <1>g, <1>u, <2>2, <3>1
    <3>3. floor'[d] <= Bound(h)'
      BY <1>a, <1>u, <3>2
    <3> QED
      BY <1>u, <2>2, <3>1, <3>3 DEF Bound, Oldest
  <2> QED
    BY <2>1, <2>2
<1>1. ASSUME NEW c \in Clients, NEW h \in DnsHosts, Lookup(c, h) PROVE Floor(d)'
  <2>1. CASE d # c
    <3>1. DnsNext
      BY <1>1 DEF DnsNext
    <3>2. st'[d] = st[d] /\ hostOf'[d] = hostOf[d] /\ floor'[d] = floor[d] /\ res'[d] = res[d]
      BY <1>1, <2>1 DEF Lookup, TypeInv, DnsTypeOK
    <3> QED
      BY <1>u, <3>1, <3>2
  <2>2. CASE d = c
    <3>1. floor'[d] = Bound(h) /\ hostOf'[d] = h /\ Bound(h)' = Bound(h) /\ Bound(h) \in Nat
      BY <1>1, <1>t, <2>2 DEF Lookup, Bound, Oldest, TypeInv, DnsTypeOK
    <3>2. CASE ~Valid(h)
      <4>1. st'[d] = "do"
        BY <1>1, <2>2, <3>2 DEF Lookup, TypeInv, DnsTypeOK
      <4> QED
        BY <3>1, <4>1 DEF Bound, Oldest
    <3>3. CASE Valid(h)
      <4>1. st'[d] = "idle" /\ res'[d] = entries[h]
        BY <1>1, <2>2, <3>3 DEF Lookup, TypeInv, DnsTypeOK
      <4>2. Age(h) /\ entries[h] # Nil /\ h \notin expired
        BY <3>3 DEF AgeInv, Valid
      <4>3. flight[h] # Nil => Stage(h) \in Running
        BY DEF FlightInv, Stage
      <4>4. entries[h].n >= Bound(h)
        BY <3>3, <4>2, <4>3 DEF Age, Bound, Oldest, Stage, TypeInv, DnsTypeOK, Numbers, Results
      <4> QED
        BY <3>1, <4>1, <4>4
    <3> QED
      BY <3>2, <3>3
  <2> QED
    BY <2>1, <2>2
<1>2. ASSUME NEW c \in Clients, Do(c) PROVE Floor(d)'
  <2>1. DnsNext
    BY <1>2 DEF DnsNext
  <2>2. /\ hostOf'[d] = hostOf[d] /\ floor'[d] = floor[d] /\ (st[d] = "idle" <=> st'[d] = "idle")
        /\ (st[d] = "idle" => res'[d] = res[d])
    BY <1>2 DEF Do, TypeInv, DnsTypeOK
  <2> QED
    BY <1>u, <2>1, <2>2
<1>3. ASSUME NEW c \in Clients, Recheck(c) PROVE Floor(d)'
  <2>1. DnsNext
    BY <1>3 DEF DnsNext
  <2>2. /\ hostOf'[d] = hostOf[d] /\ floor'[d] = floor[d] /\ (st[d] = "idle" <=> st'[d] = "idle")
        /\ (st[d] = "idle" => res'[d] = res[d])
    BY <1>3 DEF Recheck, TypeInv, DnsTypeOK
  <2> QED
    BY <1>u, <2>1, <2>2
<1>4. ASSUME NEW c \in Clients, NEW ips \in Answers \cup {Nil}, Query(c, ips) PROVE Floor(d)'
  <2>1. DnsNext
    BY <1>4 DEF DnsNext
  <2>2. /\ hostOf'[d] = hostOf[d] /\ floor'[d] = floor[d] /\ (st[d] = "idle" <=> st'[d] = "idle")
        /\ (st[d] = "idle" => res'[d] = res[d])
    BY <1>4 DEF Query, TypeInv, DnsTypeOK
  <2> QED
    BY <1>u, <2>1, <2>2
<1>5. ASSUME NEW c \in Clients, Set(c) PROVE Floor(d)'
  <2>1. DnsNext
    BY <1>5 DEF DnsNext
  <2>2. /\ hostOf'[d] = hostOf[d] /\ floor'[d] = floor[d] /\ (st[d] = "idle" <=> st'[d] = "idle")
        /\ (st[d] = "idle" => res'[d] = res[d])
    BY <1>5 DEF Set, TypeInv, DnsTypeOK
  <2> QED
    BY <1>u, <2>1, <2>2
<1>6. ASSUME NEW c \in Clients, Finish(c) PROVE Floor(d)'
  <2>1. DnsNext
    BY <1>6 DEF DnsNext
  <2>2. CASE d = c \/ (st[d] = "wait" /\ hostOf[d] = hostOf[c])
    <3>1. PICK h \in DnsHosts : h = hostOf[c] /\ h = hostOf[d]
      BY <1>6, <2>2 DEF Finish, TypeInv
    <3>2. flight[h] = c /\ Stage(h) = "finish" /\ Age(h)
      <4>1. st[c] = "finish"
        BY <1>6 DEF Finish
      <4>2. flight[h] = c
        BY <3>1, <4>1 DEF FlightInv
      <4> QED
        BY <4>1, <4>2 DEF AgeInv, Stage
    <3>3. floor[d] <= Bound(h) /\ Bound(h) = since[h]
      BY <1>6, <1>a, <2>2, <3>1, <3>2, DnsNil DEF Finish, Bound
    <3>4. since[h] <= res[c].n /\ since[h] \in Nat /\ res[c].n \in Nat
      BY <3>2 DEF Age, TypeInv, DnsTypeOK, Results, Numbers
    <3>5. st'[d] = "idle" /\ floor'[d] = floor[d] /\ res'[d] = res[c]
      BY <1>6, <2>2 DEF Finish
    <3> QED
      BY <1>a, <3>3, <3>4, <3>5
  <2>3. CASE ~(d = c \/ (st[d] = "wait" /\ hostOf[d] = hostOf[c]))
    <3>1. st'[d] = st[d] /\ hostOf'[d] = hostOf[d] /\ floor'[d] = floor[d] /\ res'[d] = res[d]
      BY <1>6, <2>3 DEF Finish
    <3> QED
      BY <1>u, <2>1, <3>1
  <2> QED
    BY <2>2, <2>3
<1>7. ASSUME NEW h \in DnsHosts, Expire(h) PROVE Floor(d)'
  <2>1. DnsNext
    BY <1>7 DEF DnsNext
  <2> QED
    BY <1>7, <1>u, <2>1 DEF Expire
<1>8. CASE Cleanup
  <2>1. DnsNext
    BY <1>8 DEF DnsNext
  <2> QED
    BY <1>8, <1>u, <2>1 DEF Cleanup
<1> QED
  BY <1>0, <1>1, <1>2, <1>3, <1>4, <1>5, <1>6, <1>7, <1>8 DEF DnsNext

-----------------------------------------------------------------------------
(* The theorems.                                                           *)

\* The invariant holds initially.
LEMMA DNSInit == DnsInit => TypeInv /\ FlightInv /\ AgeInv /\ FloorInv
<1> SUFFICES ASSUME DnsInit PROVE TypeInv /\ FlightInv /\ AgeInv /\ FloorInv
  OBVIOUS
<1>1. TypeInv
  BY TypeInit
<1>2. FlightInv
  BY DEF DnsInit, FlightInv, Running
<1>3. AgeInv
  BY DEF DnsInit, AgeInv, Age, Stage
<1>4. FloorInv
  BY DEF DnsInit, FloorInv, AnswerNotStale
<1> QED
  BY <1>1, <1>2, <1>3, <1>4

\* The invariant always holds.
LEMMA DNSInvariant == DnsSpec => [](TypeInv /\ FlightInv /\ AgeInv /\ FloorInv)
  BY DNSInit, TypeStep, FlightStep, AgeStep, FloorStep, PTL DEF DnsSpec

\* The map of the cache never has more than maxEntries entries, however many
\* clients fill it, and every variable keeps its type.
THEOREM DNSTypeCorrect == DnsSpec => []DnsTypeOK
<1>1. TypeInv => DnsTypeOK
  BY DEF TypeInv
<1> QED
  BY <1>1, DNSInvariant, PTL

\* OneQueryPerHost always holds: group.Do lets one client ask for a host, and
\* those who wait are answered.
THEOREM SingleQuery == DnsSpec => []OneQueryPerHost
<1>1. FlightInv => OneQueryPerHost
  BY DEF FlightInv, OneQueryPerHost, Running
<1> QED
  BY <1>1, DNSInvariant, PTL

\* AnswerNotStale always holds: neither the second get, nor sharing another
\* client's flight, nor a full cache hands out a result whose time was over.
THEOREM AnswersInTime == DnsSpec => []AnswerNotStale
<1>1. FloorInv => AnswerNotStale
  BY DEF FloorInv
<1> QED
  BY <1>1, DNSInvariant, PTL

=============================================================================
