------------------------------ MODULE Routing ------------------------------
(***************************************************************************)
(* Routes from the Admin API to the answer of the Proxy: requests of the   *)
(* Admin API (admin/back/src/core) edit groups in PostgreSQL and routes in *)
(* Redis; loadRoutes (proxy/cmd/proxy/routing.go) reads Redis with three   *)
(* commands, builds a trie of wildcard domains and one of CIDRs per family *)
(* and replaces the RouteCache; ResolveRoute walks them.                   *)
(***************************************************************************)
EXTENDS Integers, Sequences, FiniteSets, SequencesExt, FiniteSetsExt

CONSTANTS
    GroupIds,      \* primary keys of worker groups
    Groups,        \* their names
    RouteDirect,   \* DEFAULT_GROUP_NAME, and the literal "direct" (its default)
    None,
    DomainKeys,    \* fields of the hash of domains
    PatternOf,     \* domain key -> [wild, labels], lower case and trimmed
    CidrKeys,      \* fields of the hash of CIDRs: [fam, bits, len]
    Mapped,        \* the bits in front of an IPv4 address in IPv6 (::ffff:0:0/96)
    Hosts,         \* hosts as sequences of labels
    AddrOf,        \* host -> the address it is a literal of, or None
    Resolutions,   \* what DNSCache.lookup may return: addresses, or None
    Batches,       \* the sets of keys a request may list
    Admins,        \* requests served by the Admin API at a time
    Start,         \* contents of the stores at the start: [groups, domains, cidrs, default]
    MaxEdits       \* bound on the requests

ASSUME RoutingNone == None \notin Groups /\ RouteDirect \notin Groups \cup {None}
ASSUME RoutingBound == MaxEdits \in Nat
ASSUME RoutingBits == Mapped \in Seq({0, 1})
ASSUME RoutingKeys ==
    /\ PatternOf \in [DomainKeys -> [wild : BOOLEAN, labels : Seq(STRING)]]
    /\ {} \notin Batches
    /\ \A k \in CidrKeys : k.fam \in {"v4", "v6"} /\ k.len \in 0 .. Len(k.bits)

ASSUME RoutingHosts ==
    LET addresses == [fam : {"v4", "v6"}, bits : Seq({0, 1})] IN
    /\ Hosts \subseteq Seq(STRING)
    /\ \A host \in Hosts : AddrOf[host] = None \/ AddrOf[host] \in addresses
    /\ \A ips \in Resolutions : ips = None \/ ips \in Seq(addresses)

Routes == Groups \cup {RouteDirect}

\* The routes of the stores at the start name groups that exist.
ASSUME RoutingStart ==
    \A s \in Start :
        LET named == {s.groups[pk] : pk \in GroupIds} \cup {RouteDirect, None} IN
        /\ s.groups \in [GroupIds -> Groups \cup {None}]
        /\ s.domains \in [DomainKeys -> named] /\ s.cidrs \in [CidrKeys -> named]
        /\ s.default \in named

VARIABLES
    groups,    \* rows of core_workergroup: key -> name or None
    domains, cidrs, default,  \* Redis: key -> route or None; the default route
    adm,       \* a request of the Admin API between its steps, or None
    edits,     \* requests so far
    renamed,   \* history: groups renamed, or deleted while a route to them was made
    ld,        \* stage of loadRoutes
    todo,      \* keys its loop has yet to insert
    new,       \* the RouteCache it builds
    read,      \* what it has read from Redis
    routes,    \* the RouteCache in use
    source     \* history: what that one was built from

redisVars == <<domains, cidrs, default>>
adminVars == <<groups, adm, edits, renamed>>
loadVars  == <<ld, todo, new, read, routes, source>>
vars == <<redisVars, adminVars, loadVars>>

-----------------------------------------------------------------------------
(* The tries: a node is the path that leads to it, a trie gives every node *)
(* its route or None.                                                      *)

\* The nodes on the way are created where they are missing.
AddNodes(trie, path) ==
    [q \in DOMAIN trie \cup Prefixes(path) |-> IF q \in DOMAIN trie THEN trie[q] ELSE None]

Insert(trie, path, route) == [AddNodes(trie, path) EXCEPT ![path] = route]

\* The walk goes on until a child is missing.
Reached(trie, path) ==
    {i \in 0 .. Len(path) : \A j \in 0 .. i : SubSeq(path, 1, j) \in DOMAIN trie}

Hits(trie, path) == {i \in Reached(trie, path) : trie[SubSeq(path, 1, i)] # None}

EmptyTrie == [q \in {} |-> None]
RootOnly  == [q \in {<<>>} |-> None]

\* insertWildcard: from the last label to the first, given up at an empty one.
InsertWildcard(trie, labels, route) ==
    LET path == Reverse(labels)
        blank == {i \in 1 .. Len(path) : path[i] = ""}
    IN  IF labels = <<>> THEN trie
        ELSE IF blank = {} THEN Insert(trie, path, route)
        ELSE AddNodes(trie, SubSeq(path, 1, Min(blank) - 1))

\* Mutant: a wildcard matches its own base domain.
WildcardHitsBase(trie, labels) ==
    LET path == Reverse(labels)
        blank == \E i \in 1 .. Len(path) : path[i] = "" /\ i - 1 \in Reached(trie, path)
    IN  IF blank THEN {} ELSE Hits(trie, path) \ {0}

\* lookupWildcard: at least one label more than the pattern; an empty label
\* met on the way ends the walk without a result.
WildcardHits(trie, labels) ==
    LET path == Reverse(labels)
        blank == \E i \in 1 .. Len(path) : path[i] = "" /\ i - 1 \in Reached(trie, path)
    IN  IF blank THEN {} ELSE Hits(trie, path) \ {0, Len(path)}

-----------------------------------------------------------------------------
(* CIDRs.                                                                  *)

IsMapped(bits) == Len(bits) >= Len(Mapped) /\ SubSeq(bits, 1, Len(Mapped)) = Mapped
Tail4(bits) == SubSeq(bits, Len(Mapped) + 1, Len(bits))

\* netip.Addr.Unmap (external)
Unmap(addr) ==
    IF addr.fam = "v6" /\ IsMapped(addr.bits) THEN [fam |-> "v4", bits |-> Tail4(addr.bits)]
    ELSE addr

\* ParsePrefix and Masked; a prefix of mapped addresses becomes an IPv4 one.
Network(k) == Unmap([fam |-> k.fam, bits |-> SubSeq(k.bits, 1, k.len)])

\* CIDRTrie.lookup
CidrHits(cache, addr) == Hits(cache.cidrs[Unmap(addr).fam], Unmap(addr).bits)
CidrRoute(cache, addr, n) == cache.cidrs[Unmap(addr).fam][SubSeq(Unmap(addr).bits, 1, n)]

\* resolveCIDRRoute: the longest prefix over all addresses, the first of equals.
BestAddr(cache, ips) ==
    LET length(i) == IF CidrHits(cache, ips[i]) = {} THEN -1 ELSE Max(CidrHits(cache, ips[i]))
        best == Max({length(i) : i \in 1 .. Len(ips)})
    IN  Min({i \in 1 .. Len(ips) : length(i) = best})

CidrMatch(cache, ips) == \E i \in 1 .. Len(ips) : CidrHits(cache, ips[i]) # {}

\* ResolveRoute; "ips" is what DNSCache.lookup returns if it is asked.
ResolveRoute(cache, host, ips) ==
    LET wild == WildcardHits(cache.wildcards, host)
        ip == IF AddrOf[host] # None THEN <<AddrOf[host]>>
              ELSE IF ips = None THEN <<>> ELSE ips
    IN  IF host = <<>> THEN RouteDirect
        ELSE IF host \in DOMAIN cache.exact THEN cache.exact[host]
        ELSE IF wild # {} THEN cache.wildcards[SubSeq(Reverse(host), 1, Max(wild))]
        ELSE IF CidrMatch(cache, ip)
        THEN LET a == ip[BestAddr(cache, ip)] IN CidrRoute(cache, a, Max(CidrHits(cache, a)))
        ELSE cache.default

-----------------------------------------------------------------------------
(* loadRoutes.                                                             *)

EmptyCache ==
    [default |-> RouteDirect, exact |-> [h \in {} |-> None], wildcards |-> RootOnly,
     cidrs |-> [fam \in {"v4", "v6"} |-> EmptyTrie]]
NoKeys == [domains |-> [k \in DomainKeys |-> None], cidrs |-> [k \in CidrKeys |-> None],
           default |-> None]

SetKeys(hash) == {k \in DOMAIN hash : hash[k] # None}

\* GET of the default route.  An error at any of the three reads returns.
LoadDefault ==
    /\ ld = "idle"
    /\ ld' = "domains"
    /\ new' = [EmptyCache EXCEPT !.default = IF default = None THEN RouteDirect ELSE default]
    /\ read' = [NoKeys EXCEPT !.default = default]
    /\ UNCHANGED <<redisVars, adminVars, todo, routes, source>>

LoadFails ==
    /\ ld \in {"domains", "cidrs"} /\ todo = {}
    /\ ld' = "idle" /\ new' = EmptyCache /\ read' = NoKeys
    /\ UNCHANGED <<redisVars, adminVars, todo, routes, source>>

\* HGETALL of the domains
LoadDomains ==
    /\ ld = "domains"
    /\ ld' = "cidrs"
    /\ todo' = SetKeys(domains)
    /\ read' = [read EXCEPT !.domains = domains]
    /\ UNCHANGED <<redisVars, adminVars, new, routes, source>>

\* One key of the map, in any order.
InsertDomain(k) ==
    /\ ld = "cidrs" /\ k \in todo
    /\ todo' = todo \ {k}
    /\ LET p == PatternOf[k]  r == read.domains[k] IN
         new' = IF p.wild
                THEN [new EXCEPT !.wildcards = InsertWildcard(@, p.labels, r)]
                ELSE [new EXCEPT !.exact = [h \in DOMAIN @ \cup {p.labels} |->
                                              IF h = p.labels THEN r ELSE @[h]]]
    /\ UNCHANGED <<redisVars, adminVars, ld, read, routes, source>>

\* Mutant: the CIDRs are read only as long as there are none.
LoadCidrsOnce ==
    /\ ld = "cidrs" /\ todo = {}
    /\ ld' = "store"
    /\ LET hash == IF SetKeys(source.cidrs) = {} THEN cidrs ELSE source.cidrs IN
         todo' = SetKeys(hash) /\ read' = [read EXCEPT !.cidrs = hash]
    /\ UNCHANGED <<redisVars, adminVars, new, routes, source>>

\* HGETALL of the CIDRs
LoadCidrs ==
    /\ ld = "cidrs" /\ todo = {}
    /\ ld' = "store"
    /\ todo' = SetKeys(cidrs)
    /\ read' = [read EXCEPT !.cidrs = cidrs]
    /\ UNCHANGED <<redisVars, adminVars, new, routes, source>>

InsertCidr(k) ==
    /\ ld = "store" /\ k \in todo
    /\ todo' = todo \ {k}
    /\ new' = [new EXCEPT !.cidrs[Network(k).fam] = Insert(@, Network(k).bits, read.cidrs[k])]
    /\ UNCHANGED <<redisVars, adminVars, ld, read, routes, source>>

\* routes.Store(newCache)
StoreRoutes ==
    /\ ld = "store" /\ todo = {}
    /\ ld' = "idle"
    /\ routes' = new /\ source' = read
    /\ new' = EmptyCache /\ read' = NoKeys
    /\ UNCHANGED <<redisVars, adminVars, todo>>

-----------------------------------------------------------------------------
(* The Admin API.  A route is written under the name its group had when    *)
(* the serializer loaded it.                                               *)

Begin(a, op, keys, pk, route) ==
    /\ adm[a] = None /\ edits < MaxEdits
    /\ adm' = [adm EXCEPT ![a] = [op |-> op, keys |-> keys, pk |-> pk, route |-> route]]
    /\ edits' = edits + 1
    /\ UNCHANGED <<redisVars, groups, renamed, loadVars>>

\* is_valid loads the group; worker_group 0 stands for the direct route.
RouteTo(pk) == IF pk = None THEN RouteDirect ELSE groups[pk]

\* POST of some domains (PATCH of one is the same, it may even create it).
BeginDomains(a, pk) ==
    /\ RouteTo(pk) # None
    /\ \E keys \in SUBSET DomainKeys \cap Batches : Begin(a, "domains", keys, pk, RouteTo(pk))

\* POST of some CIDRs, each stored as it is spelt.
BeginCidrs(a, pk) ==
    /\ RouteTo(pk) # None
    /\ \E keys \in SUBSET CidrKeys \cap Batches : Begin(a, "cidrs", keys, pk, RouteTo(pk))

\* PATCH of a CIDR
BeginPatch(a, pk) ==
    /\ RouteTo(pk) # None
    /\ \E k \in CidrKeys : Begin(a, "patch", {k}, pk, RouteTo(pk))

\* PATCH of the default route
BeginDefault(a, pk) == RouteTo(pk) # None /\ Begin(a, "default", {}, pk, RouteTo(pk))

\* History: a route to a group is written while the group is being deleted.
Written(route) ==
    renamed' = IF \E b \in Admins : adm[b] # None /\ adm[b].route = route
                                   /\ adm[b].op \in {"inDomains", "inCidrs", "inDefault", "delete"}
               THEN renamed \cup {route} ELSE renamed

\* The request goes on with the other keys, or is over.
Without(a, k) ==
    LET rest == adm[a].keys \ {k} IN
    adm' = [adm EXCEPT ![a] = IF rest = {} THEN None ELSE [adm[a] EXCEPT !.keys = rest]]

\* HSET, one key after the other.
SetDomain(a, k) ==
    /\ adm[a] # None /\ adm[a].op = "domains" /\ k \in adm[a].keys
    /\ domains' = [domains EXCEPT ![k] = adm[a].route]
    /\ Without(a, k) /\ Written(adm[a].route)
    /\ UNCHANGED <<cidrs, default, groups, edits, loadVars>>

SetCidr(a, k) ==
    /\ adm[a] # None /\ adm[a].op = "cidrs" /\ k \in adm[a].keys
    /\ cidrs' = [cidrs EXCEPT ![k] = adm[a].route]
    /\ Without(a, k) /\ Written(adm[a].route)
    /\ UNCHANGED <<domains, default, groups, edits, loadVars>>

\* validate_cidr: str(ip_network(value, strict=False)) has no host bits.
Canonical(k) == [k EXCEPT !.bits = [i \in 1 .. Len(k.bits) |-> IF i <= k.len THEN k.bits[i] ELSE 0]]

ASSUME RoutingCidrs ==
    \A k \in CidrKeys :
        k \in [fam : {"v4", "v6"}, bits : Seq({0, 1}), len : Nat] /\ Canonical(k) \in CidrKeys

\* PATCH of a CIDR: it must exist as it is spelt in the URL; what is written
\* is its canonical spelling.
PatchExists(a) ==
    /\ adm[a] # None /\ adm[a].op = "patch"
    /\ \E k \in adm[a].keys :
         \/ /\ cidrs[k] # None
            /\ adm' = [adm EXCEPT ![a].op = "cidrs", ![a].keys = {Canonical(k)}]
         \/ /\ cidrs[k] = None
            /\ adm' = [adm EXCEPT ![a] = None]
    /\ UNCHANGED <<redisVars, groups, edits, renamed, loadVars>>

SetDefault(a) ==
    /\ adm[a] # None /\ adm[a].op = "default"
    /\ default' = adm[a].route
    /\ adm' = [adm EXCEPT ![a] = None] /\ Written(adm[a].route)
    /\ UNCHANGED <<domains, cidrs, groups, edits, loadVars>>

\* HDEL
DeleteDomain(k) ==
    /\ edits < MaxEdits /\ domains[k] # None
    /\ domains' = [domains EXCEPT ![k] = None]
    /\ edits' = edits + 1
    /\ UNCHANGED <<cidrs, default, groups, adm, renamed, loadVars>>

DeleteCidr(k) ==
    /\ edits < MaxEdits /\ cidrs[k] # None
    /\ cidrs' = [cidrs EXCEPT ![k] = None]
    /\ edits' = edits + 1
    /\ UNCHANGED <<domains, default, groups, adm, renamed, loadVars>>

Named == {groups[pk] : pk \in GroupIds} \ {None}

CreateGroup(pk, name) ==
    /\ edits < MaxEdits /\ groups[pk] = None /\ name \notin Named
    /\ \A a \in Admins : adm[a] # None => adm[a].pk # pk
    /\ groups' = [groups EXCEPT ![pk] = name]
    /\ edits' = edits + 1
    /\ UNCHANGED <<redisVars, adm, renamed, loadVars>>

\* PATCH of a group: its routes keep the old name.
RenameGroup(pk, name) ==
    /\ edits < MaxEdits /\ groups[pk] # None /\ name \notin Named
    /\ groups' = [groups EXCEPT ![pk] = name]
    /\ renamed' = renamed \cup {groups[pk]}
    /\ edits' = edits + 1
    /\ UNCHANGED <<redisVars, adm, loadVars>>

\* DELETE of a group: get_object.
BeginDestroy(a, pk) == groups[pk] # None /\ Begin(a, "inDomains", {}, pk, groups[pk])

\* Mutant: the default route is not looked at.
UsedByRoutesOnly(op, g) ==
    \/ op = "inDomains" /\ \E k \in DomainKeys : domains[k] = g
    \/ op = "inCidrs" /\ \E k \in CidrKeys : cidrs[k] = g

\* One of the three reads of worker_group_has_routes finds a route to g.
Used(op, g) ==
    \/ op = "inDomains" /\ \E k \in DomainKeys : domains[k] = g
    \/ op = "inCidrs" /\ \E k \in CidrKeys : cidrs[k] = g
    \/ op = "inDefault" /\ default = g

HasRoutes(a) ==
    /\ adm[a] # None /\ adm[a].op \in {"inDomains", "inCidrs", "inDefault"}
    /\ \/ /\ Used(adm[a].op, adm[a].route)
          /\ adm' = [adm EXCEPT ![a] = None]
       \/ /\ ~Used(adm[a].op, adm[a].route)
          /\ adm' = [adm EXCEPT ![a].op = CASE @ = "inDomains" -> "inCidrs"
                                            [] @ = "inCidrs" -> "inDefault"
                                            [] @ = "inDefault" -> "delete"]
    /\ UNCHANGED <<redisVars, groups, edits, renamed, loadVars>>

\* instance.delete(), by primary key.
DestroyGroup(a) ==
    /\ adm[a] # None /\ adm[a].op = "delete"
    /\ LET name == groups[adm[a].pk] IN
         renamed' = IF \/ name # adm[a].route
                       \/ \E b \in Admins \ {a} : adm[b] # None /\ adm[b].route = name
                    THEN renamed \cup ({name} \ {None}) ELSE renamed
    /\ groups' = [groups EXCEPT ![adm[a].pk] = None]
    /\ adm' = [adm EXCEPT ![a] = None]
    /\ UNCHANGED <<redisVars, edits, loadVars>>

-----------------------------------------------------------------------------
Init ==
    /\ \E s \in Start : /\ groups = s.groups /\ domains = s.domains
                      /\ cidrs = s.cidrs /\ default = s.default
    /\ adm = [a \in Admins |-> None] /\ edits = 0 /\ renamed = {}
    /\ ld = "idle" /\ todo = {} /\ new = EmptyCache /\ read = NoKeys
    /\ routes = EmptyCache /\ source = NoKeys

LoadRoutes ==
    \/ LoadDefault \/ LoadFails \/ LoadDomains \/ LoadCidrs \/ StoreRoutes
    \/ (\E k \in DomainKeys : InsertDomain(k)) \/ (\E k \in CidrKeys : InsertCidr(k))

Admin ==
    \/ \E a \in Admins :
         \/ \E pk \in GroupIds \cup {None} :
              BeginDomains(a, pk) \/ BeginCidrs(a, pk) \/ BeginPatch(a, pk) \/ BeginDefault(a, pk)
         \/ (\E pk \in GroupIds : BeginDestroy(a, pk))
         \/ (\E k \in DomainKeys : SetDomain(a, k)) \/ (\E k \in CidrKeys : SetCidr(a, k))
         \/ PatchExists(a) \/ SetDefault(a) \/ HasRoutes(a) \/ DestroyGroup(a)
    \/ (\E k \in DomainKeys : DeleteDomain(k)) \/ (\E k \in CidrKeys : DeleteCidr(k))
    \/ \E pk \in GroupIds, g \in Groups : CreateGroup(pk, g) \/ RenameGroup(pk, g)

Next == LoadRoutes \/ Admin

Spec == Init /\ [][Next]_vars

\* main reloads every five seconds; a loop over a map ends, and Redis does not
\* fail for ever.
Fairness ==
    /\ WF_vars(LoadDefault) /\ SF_vars(LoadDomains) /\ SF_vars(LoadCidrs) /\ WF_vars(StoreRoutes)
    /\ \A k \in DomainKeys : WF_vars(InsertDomain(k))
    /\ \A k \in CidrKeys : WF_vars(InsertCidr(k))

FairSpec == Spec /\ Fairness

-----------------------------------------------------------------------------
Requests == [op : {"domains", "cidrs", "patch", "default", "inDomains", "inCidrs", "inDefault",
                   "delete"},
             keys : SUBSET (DomainKeys \cup CidrKeys), pk : GroupIds \cup {None}, route : Routes]

Contents == [domains : [DomainKeys -> Routes \cup {None}], cidrs : [CidrKeys -> Routes \cup {None}],
             default : Routes \cup {None}]

TrieType(trie) ==
    \A q \in DOMAIN trie : trie[q] \in Routes \cup {None} /\ Prefixes(q) \subseteq DOMAIN trie

CacheType(cache) ==
    /\ cache.default \in Routes
    /\ \A h \in DOMAIN cache.exact : cache.exact[h] \in Routes
    /\ TrieType(cache.wildcards) /\ \A fam \in {"v4", "v6"} : TrieType(cache.cidrs[fam])

\* The values of the variables; a trie has the parent of each of its nodes.
TypeOK ==
    /\ groups \in [GroupIds -> Groups \cup {None}]
    /\ domains \in [DomainKeys -> Routes \cup {None}]
    /\ cidrs \in [CidrKeys -> Routes \cup {None}] /\ default \in Routes \cup {None}
    /\ adm \in [Admins -> Requests \cup {None}] /\ edits \in 0 .. MaxEdits
    /\ renamed \in SUBSET Groups
    /\ ld \in {"idle", "domains", "cidrs", "store"}
    /\ todo \in SUBSET (DomainKeys \cup CidrKeys)
    /\ CacheType(new) /\ CacheType(routes)
    /\ read \in Contents /\ source \in Contents

-----------------------------------------------------------------------------
(* The rules as the documentation states them, over the keys themselves.   *)

Blank(labels) == \E i \in 1 .. Len(labels) : labels[i] = ""

\* The rules of "hash" that apply to a host, by class.
ExactRules(from, host) ==
    {k \in SetKeys(from.domains) : ~PatternOf[k].wild /\ PatternOf[k].labels = host}
WildRules(from, host) ==
    {k \in SetKeys(from.domains) :
        /\ PatternOf[k].wild /\ PatternOf[k].labels # <<>> /\ ~Blank(PatternOf[k].labels)
        /\ Len(PatternOf[k].labels) < Len(host) /\ IsSuffix(PatternOf[k].labels, host)}
CidrRules(from, addrs) ==
    {k \in SetKeys(from.cidrs) : \E a \in addrs :
        Network(k).fam = Unmap(a).fam /\ IsPrefix(Network(k).bits, Unmap(a).bits)}

\* The most specific of the rules: none of the others is longer.
Longest(rules, Length(_)) == {k \in rules : \A other \in rules : Length(other) <= Length(k)}

\* The routes the rules allow for a host: an exact domain, else the longest
\* wildcard, else the longest prefix that holds one of its addresses, else the
\* default.  Two keys for one rule (spellings of one network) allow two routes.
Allowed(from, host, ips) ==
    LET addrs == IF AddrOf[host] # None THEN {AddrOf[host]}
                 ELSE IF ips = None THEN {} ELSE {ips[i] : i \in 1 .. Len(ips)}
        labels(k) == Len(PatternOf[k].labels)
        bits(k) == Len(Network(k).bits)
    IN  IF ExactRules(from, host) # {} THEN {from.domains[k] : k \in ExactRules(from, host)}
        ELSE IF WildRules(from, host) # {}
        THEN {from.domains[k] : k \in Longest(WildRules(from, host), labels)}
        ELSE IF CidrRules(from, addrs) # {}
        THEN {from.cidrs[k] : k \in Longest(CidrRules(from, addrs), bits)}
        ELSE {IF from.default = None THEN RouteDirect ELSE from.default}

\* The tries about to be put in use, whatever the order in which they were
\* filled, send every host where the rules they were built from say.
LongestMatch ==
    (ld = "store" /\ todo = {}) =>
        \A host \in Hosts, ips \in Resolutions : (host # <<>> /\ ~Blank(host)) =>
            ResolveRoute(new, host, ips) \in Allowed(read, host, ips)

\* Every route names a group that exists, unless the group was renamed or a
\* request for a route to it overlapped its deletion.
RoutesNameGroups ==
    \A r \in {domains[k] : k \in DomainKeys} \cup {cidrs[k] : k \in CidrKeys} \cup {default} :
        r \in Named \cup {RouteDirect, None} \cup renamed

\* A request that destroys a group holds the group's key and name; one that
\* patches a CIDR, a CIDR.
SoundRequest(r) ==
    /\ r.op \in {"inDomains", "inCidrs", "inDefault", "delete"}
         => r.pk \in GroupIds /\ r.route \in Groups
    /\ r.op = "patch" => r.keys \subseteq CidrKeys

RequestInv == \A a \in Admins : adm[a] # None => SoundRequest(adm[a])

\* No route to g in what worker_group_has_routes has read when it is at "op".
NoneSeen(op, g) ==
    /\ op \in {"inCidrs", "inDefault", "delete"} => \A k \in DomainKeys : domains[k] # g
    /\ op \in {"inDefault", "delete"} => \A k \in CidrKeys : cidrs[k] # g
    /\ op = "delete" => default # g

\* What makes RoutesNameGroups inductive: the route of a request names a group
\* too, and what a deletion has read holds no route to its group.
NamesInv ==
    /\ RoutesNameGroups
    /\ \A a \in Admins : adm[a] # None =>
          /\ adm[a].route \in Named \cup {RouteDirect} \cup renamed
          /\ adm[a].route \in renamed \/ NoneSeen(adm[a].op, adm[a].route)

\* The trie holds these rules and no others.
TrieOf(trie, rules) ==
    /\ \A q \in DOMAIN trie : /\ Prefixes(q) \subseteq DOMAIN trie
                              /\ trie[q] # None => [path |-> q, route |-> trie[q]] \in rules
    /\ \A r \in rules : r.path \in DOMAIN trie /\ trie[r.path] # None

\* The keys inserted so far, by class, and the rules they make.
Done(hash, stage) == SetKeys(hash) \ (IF ld = stage THEN todo ELSE {})
ExactDone == {k \in Done(read.domains, "cidrs") : ~PatternOf[k].wild}
WildDone == {k \in Done(read.domains, "cidrs") :
                PatternOf[k].wild /\ PatternOf[k].labels # <<>> /\ ~Blank(PatternOf[k].labels)}
CidrDone(fam) == {k \in Done(read.cidrs, "store") : Network(k).fam = fam}

WildEntries == {[path |-> Reverse(PatternOf[k].labels), route |-> read.domains[k]] : k \in WildDone}
CidrEntries(fam) == {[path |-> Network(k).bits, route |-> read.cidrs[k]] : k \in CidrDone(fam)}

\* What loadRoutes has read at each stage, and what is left to insert.
ReadInv ==
    /\ ld \in {"idle", "domains"} => todo = {} /\ SetKeys(read.domains) = {}
    /\ ld # "store" => SetKeys(read.cidrs) = {}
    /\ ld = "cidrs" => todo \subseteq SetKeys(read.domains)
    /\ ld = "store" => todo \subseteq SetKeys(read.cidrs)

\* What makes LongestMatch inductive: the cache under construction holds the
\* rules of the keys inserted so far, whatever their order.
BuiltInv ==
    /\ new.default = IF read.default = None THEN RouteDirect ELSE read.default
    /\ \A h \in DOMAIN new.exact :
          \E k \in ExactDone : PatternOf[k].labels = h /\ new.exact[h] = read.domains[k]
    /\ \A k \in ExactDone : PatternOf[k].labels \in DOMAIN new.exact
    /\ TrieOf(new.wildcards, WildEntries)
    /\ \A fam \in {"v4", "v6"} : TrieOf(new.cidrs[fam], CidrEntries(fam))

\* Once the routes are no longer edited the Proxy comes to use exactly them,
\* without a restart, through failing reads and half-read edits.
RoutesFollowRedis ==
    <>[](source = [domains |-> domains, cidrs |-> cidrs, default |-> default])

=============================================================================
