------------------------------ MODULE DNSCache ------------------------------
(***************************************************************************)
(* The Proxy's DNSCache (proxy/cmd/proxy/routing.go): lookups by many      *)
(* clients at once, a bounded map of results with an expiry, a singleflight*)
(* group that lets one client per host ask the resolver, and the cleanup   *)
(* loop.  Hosts are normalised names; the empty name is refused at once.   *)
(***************************************************************************)
EXTENDS Integers, FiniteSets

CONSTANTS
    Clients,      \* goroutines that resolve a route
    DnsHosts,     \* names they look up
    Answers,      \* what the resolver may say: address lists
    Nil,          \* its failure; no entry; nobody
    maxEntries,   \* 100000 in the code
    MaxQueries    \* bound on the queries for one host

ASSUME DnsNil == Nil \notin Clients \cup DnsHosts \cup Answers
ASSUME DnsBounds == maxEntries \in Nat \ {0} /\ MaxQueries \in Nat

Numbers == 0 .. MaxQueries

VARIABLES
    entries,   \* c.entries: host -> [ips, n] or Nil; n is history, the query it is from
    expired,   \* hosts whose entry is past its expiresAt
    flight,    \* c.group: host -> the client that runs the function, or Nil
    st,        \* stage of a client in lookup
    hostOf,    \* the host it looks up
    res,       \* its result: [ips, n], ips = Nil for a failed lookup
    queries,   \* history: answers of the resolver so far, per host
    landed,    \* history: the last query whose flight has ended, per host
    since,     \* history: the oldest query that may answer the flight, per host
    floor      \* history: the oldest query that may answer the client

histVars == <<queries, landed, since, floor>>

dnsVars == <<entries, expired, flight, st, hostOf, res, histVars>>

Stages == {"idle", "do", "wait", "recheck", "query", "set", "finish"}
Results == [ips : Answers \cup {Nil}, n : Numbers]
NoResult == [ips |-> Nil, n |-> 0]

DnsInit ==
    /\ entries = [h \in DnsHosts |-> Nil] /\ expired = {}
    /\ flight = [h \in DnsHosts |-> Nil]
    /\ st = [c \in Clients |-> "idle"] /\ hostOf = [c \in Clients |-> Nil]
    /\ res = [c \in Clients |-> NoResult]
    /\ queries = [h \in DnsHosts |-> 0] /\ landed = [h \in DnsHosts |-> 0]
    /\ since = [h \in DnsHosts |-> 0] /\ floor = [c \in Clients |-> 0]

-----------------------------------------------------------------------------
\* Mutant: get does not look at expiresAt.
ValidWhenPresent(h) == entries[h] # Nil

\* get: there is an entry and it has not expired.
Valid(h) == entries[h] # Nil /\ h \notin expired

\* History: what may be answered from now on is an entry valid now or later.
Oldest(h) == IF entries[h] # Nil /\ h \notin expired THEN entries[h].n ELSE landed[h] + 1

\* The first get of lookup: a hit is returned at once.
Lookup(c, h) ==
    /\ st[c] = "idle"
    /\ hostOf' = [hostOf EXCEPT ![c] = h]
    /\ floor' = [floor EXCEPT ![c] = IF flight[h] # Nil THEN since[h] ELSE Oldest(h)]
    /\ \/ Valid(h) /\ res' = [res EXCEPT ![c] = entries[h]] /\ UNCHANGED st
       \/ ~Valid(h) /\ st' = [st EXCEPT ![c] = "do"] /\ UNCHANGED res
    /\ UNCHANGED <<entries, expired, flight, queries, landed, since>>

\* group.Do: run the function, or wait for the client that does.
Do(c) ==
    /\ st[c] = "do"
    /\ \/ /\ flight[hostOf[c]] = Nil
          /\ flight' = [flight EXCEPT ![hostOf[c]] = c]
          /\ since' = [since EXCEPT ![hostOf[c]] = Oldest(hostOf[c])]
          /\ st' = [st EXCEPT ![c] = "recheck"]
       \/ /\ flight[hostOf[c]] # Nil
          /\ st' = [st EXCEPT ![c] = "wait"]
          /\ UNCHANGED <<flight, since>>
    /\ UNCHANGED <<entries, expired, hostOf, res, queries, landed, floor>>

\* The second get, for a result that came between the first one and Do.
Recheck(c) ==
    /\ st[c] = "recheck"
    /\ \/ /\ Valid(hostOf[c])
          /\ res' = [res EXCEPT ![c] = entries[hostOf[c]]]
          /\ st' = [st EXCEPT ![c] = "finish"]
       \/ /\ ~Valid(hostOf[c])
          /\ st' = [st EXCEPT ![c] = "query"]
          /\ UNCHANGED res
    /\ UNCHANGED <<entries, expired, flight, hostOf, histVars>>

\* LookupNetIP: addresses, or an error (a timeout included).
Query(c, ips) ==
    /\ st[c] = "query" /\ queries[hostOf[c]] < MaxQueries
    /\ queries' = [queries EXCEPT ![hostOf[c]] = @ + 1]
    /\ res' = [res EXCEPT ![c] = [ips |-> ips, n |-> queries[hostOf[c]] + 1]]
    /\ st' = [st EXCEPT ![c] = "set"]
    /\ UNCHANGED <<entries, expired, flight, hostOf, landed, since, floor>>

Present == {h \in DnsHosts : entries[h] # Nil}

\* The entries a full cache may keep: if all of them are valid, an arbitrary
\* one (the first of a range over the map) is deleted.
Room(kept) ==
    IF Cardinality(kept) >= maxEntries THEN {kept \ {h} : h \in kept} ELSE {kept}

\* set, under c.mu.
Set(c) ==
    /\ st[c] = "set"
    /\ \E kept \in IF hostOf[c] \in Present THEN {Present}
                   ELSE IF Cardinality(Present) >= maxEntries THEN Room(Present \ expired)
                   ELSE {Present} :
         /\ entries' = [h \in DnsHosts |-> IF h = hostOf[c] THEN res[c]
                                        ELSE IF h \in kept THEN entries[h] ELSE Nil]
         /\ expired' = (expired \cap kept) \ {hostOf[c]}
    /\ st' = [st EXCEPT ![c] = "finish"]
    /\ UNCHANGED <<flight, hostOf, res, histVars>>

\* The function has returned: the flight ends and all who wait have its result.
Finish(c) ==
    /\ st[c] = "finish"
    /\ LET served == {d \in Clients : d = c \/ (st[d] = "wait" /\ hostOf[d] = hostOf[c])} IN
         /\ st' = [d \in Clients |-> IF d \in served THEN "idle" ELSE st[d]]
         /\ res' = [d \in Clients |-> IF d \in served THEN res[c] ELSE res[d]]
    /\ flight' = [flight EXCEPT ![hostOf[c]] = Nil]
    /\ landed' = [landed EXCEPT ![hostOf[c]] = res[c].n]
    /\ UNCHANGED <<entries, expired, hostOf, queries, since, floor>>

-----------------------------------------------------------------------------
\* expiresAt passes: 60 s after an answer, 10 s after a failure.
Expire(h) ==
    /\ Valid(h)
    /\ expired' = expired \cup {h}
    /\ UNCHANGED <<entries, flight, st, hostOf, res, histVars>>

\* A tick of cleanupLoop: removeExpiredLocked.
Cleanup ==
    /\ expired # {}
    /\ entries' = [h \in DnsHosts |-> IF h \in expired THEN Nil ELSE entries[h]]
    /\ expired' = {}
    /\ UNCHANGED <<flight, st, hostOf, res, histVars>>

DnsNext ==
    \/ \E c \in Clients :
         \/ \E h \in DnsHosts : Lookup(c, h)
         \/ Do(c) \/ Recheck(c) \/ Set(c) \/ Finish(c)
         \/ \E ips \in Answers \cup {Nil} : Query(c, ips)
    \/ \E h \in DnsHosts : Expire(h)
    \/ Cleanup

DnsSpec == DnsInit /\ [][DnsNext]_dnsVars

-----------------------------------------------------------------------------
\* The values of the variables; the map never has more than maxEntries.
DnsTypeOK ==
    /\ entries \in [DnsHosts -> Results \cup {Nil}] /\ expired \subseteq Present
    /\ Cardinality(Present) <= maxEntries
    /\ flight \in [DnsHosts -> Clients \cup {Nil}]
    /\ st \in [Clients -> Stages] /\ hostOf \in [Clients -> DnsHosts \cup {Nil}]
    /\ res \in [Clients -> Results]
    /\ queries \in [DnsHosts -> Numbers] /\ landed \in [DnsHosts -> Numbers]
    /\ since \in [DnsHosts -> 0 .. MaxQueries + 1] /\ floor \in [Clients -> 0 .. MaxQueries + 1]

\* The resolver is asked for a host by one client at a time, and whoever waits
\* waits for a client that is going to answer.
OneQueryPerHost ==
    /\ \A c \in Clients :
         st[c] \in {"recheck", "query", "set", "finish"} => flight[hostOf[c]] = c
    /\ \A c \in Clients : st[c] = "wait" => flight[hostOf[c]] # Nil

\* A client is answered from an entry that was valid when it asked, by a query
\* that nobody had been answered with before, or as the flight it found under
\* way is: never with a result whose time was over before all of these.
AnswerNotStale ==
    \A c \in Clients : (st[c] = "idle" /\ hostOf[c] # Nil) => res[c].n >= floor[c]

=============================================================================
