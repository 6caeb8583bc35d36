----------------------------- MODULE AuthStore -----------------------------
(***************************************************************************)
(* The Proxy's AuthStore (proxy/cmd/proxy/auth.go): CheckCredentials with  *)
(* its cache of results, its table of checks in flight and the semaphore   *)
(* around PBKDF2, run by one goroutine per client, against the reload that *)
(* replaces the users every ten seconds.                                   *)
(*                                                                         *)
(* A table of users is known by its number: table n is installed by the    *)
(* n-th reload, the first one made by NewAuthStore.                        *)
(***************************************************************************)
EXTENDS Integers, Sequences, FiniteSets

CONSTANTS
    Calls,                  \* calls of CheckCredentials, each by its own goroutine
    Users, Passwords,
    None,                   \* nil; in a table: no such user
    MaxReloads,             \* bound on the reloads, NewAuthStore's included
    authCacheMaxEntries,    \* 4096 in the code
    authPBKDF2Concurrency   \* 2 in the code

Keys == Users \X Passwords

\* A user whose hash parsePBKDF2 rejects is left out, like one that has no row.
Tables == [Users -> Passwords \cup {None}]
Numbers == 1 .. MaxReloads

\* authCacheEntry: the generation, the result and, as history, its table.
Entries == [gen : Numbers, ok : BOOLEAN, from : Numbers]

ASSUME AuthNone == None \notin Calls \cup Passwords \cup Keys \cup Entries
ASSUME AuthBounds == /\ MaxReloads \in Nat \ {0} /\ authCacheMaxEntries \in Nat
                     /\ authPBKDF2Concurrency \in Nat \ {0}

VARIABLES
    tables,      \* the tables read so far
    users,       \* the number of the table in s.users
    generation,  \* s.generation
    cache,       \* s.cache: key -> entry or None
    expired,     \* keys whose entry is past its validUntil
    cacheCount,  \* s.cacheCount
    sem,         \* tokens in s.pbkdf2Sem
    inflight,    \* s.inflight: key -> the call that computes it, or None
    st,          \* stage of CheckCredentials, storeCache or cleanupCache
    key,         \* the key of a call
    table, gen,  \* the table and the generation it has loaded
    owner,       \* the call it has joined
    ok,          \* its result
    due,         \* keys its Range has yet to visit
    pick,        \* the key its Range is visiting, or None
    from,        \* history: the table its result was computed from
    horizon,     \* history: the oldest table of a call running in this generation
    floor,       \* history: the horizon when the call loaded the generation
    drift        \* history: entries stored over one that had been deleted

storeVars == <<tables, users, generation, horizon>>
cacheVars == <<cache, expired, cacheCount, drift>>
callVars  == <<key, table, gen, owner, ok, from, floor>>
rangeVars == <<due, pick>>
vars == <<storeVars, cacheVars, sem, inflight, st, callVars, rangeVars>>

Stages == {"idle", "gen", "lookup", "evict", "evicted", "join", "wait", "sem", "hash", "store",
           "overwrite", "count", "clean", "stale", "cleaned", "trim", "picked", "trimmed",
           "finish", "done"}

Init ==
    /\ tables \in {<<t>> : t \in Tables} /\ users = 1 /\ generation = 1 /\ horizon = 1
    /\ cache = [k \in Keys |-> None] /\ expired = {} /\ cacheCount = 0 /\ drift = 0
    /\ sem = 0 /\ inflight = [k \in Keys |-> None]
    /\ st = [c \in Calls |-> "idle"] /\ key = [c \in Calls |-> None]
    /\ table = [c \in Calls |-> 0] /\ gen = [c \in Calls |-> 0]
    /\ owner = [c \in Calls |-> None] /\ ok = [c \in Calls |-> FALSE]
    /\ from = [c \in Calls |-> 0] /\ floor = [c \in Calls |-> 0]
    /\ due = [c \in Calls |-> {}] /\ pick = [c \in Calls |-> None]

-----------------------------------------------------------------------------
(* reload, and the passing of time.                                        *)

\* The rows are read and s.users is replaced; a failed query changes nothing.
ReloadUsers(t) ==
    /\ users = generation /\ Len(tables) < MaxReloads
    /\ tables' = Append(tables, t)
    /\ users' = Len(tables) + 1
    /\ UNCHANGED <<generation, horizon, cacheVars, sem, inflight, st, callVars, rangeVars>>

\* s.generation.Add(1), the end of reload.
ReloadGeneration ==
    /\ users # generation
    /\ generation' = generation + 1
    /\ horizon' = LET S == {table[c] : c \in {d \in Calls : st[d] \notin {"idle", "done"}}}
                           \cup {generation + 1}
                  IN  CHOOSE n \in S : \A m \in S : n <= m
    /\ UNCHANGED <<tables, users, cacheVars, sem, inflight, st, callVars, rangeVars>>

\* validUntil passes: 60 s after a success, 2 s after a failure.
Expire(k) ==
    /\ cache[k] # None /\ k \notin expired
    /\ expired' = expired \cup {k}
    /\ UNCHANGED <<storeVars, cache, cacheCount, drift, sem, inflight, st, callVars, rangeVars>>

-----------------------------------------------------------------------------
(* CheckCredentials up to the hash.                                        *)

Goto(c, stage) == st' = [st EXCEPT ![c] = stage]

\* The result, computed from table n, is returned.
Return(c, result, n) ==
    /\ Goto(c, "done")
    /\ ok' = [ok EXCEPT ![c] = result]
    /\ from' = [from EXCEPT ![c] = n]

\* s.users.Load(): an unknown user is refused at once.
LoadUsers(c, k) ==
    /\ st[c] = "idle"
    /\ key' = [key EXCEPT ![c] = k]
    /\ table' = [table EXCEPT ![c] = users]
    /\ \/ /\ tables[users][k[1]] = None
          /\ Return(c, FALSE, users)
       \/ /\ tables[users][k[1]] # None
          /\ Goto(c, "gen")
          /\ UNCHANGED <<ok, from>>
    /\ UNCHANGED <<storeVars, cacheVars, sem, inflight, gen, owner, floor, rangeVars>>

LoadGeneration(c) ==
    /\ st[c] = "gen"
    /\ gen' = [gen EXCEPT ![c] = generation]
    /\ floor' = [floor EXCEPT ![c] = horizon]
    /\ Goto(c, "lookup")
    /\ UNCHANGED <<storeVars, cacheVars, sem, inflight, key, table, owner, ok, from, rangeVars>>

\* Mutant: the generation of an entry is not compared.
UsableAnyGeneration(c) == cache[key[c]] # None /\ key[c] \notin expired

\* An entry of this generation that has not expired.
Usable(c) ==
    cache[key[c]] # None /\ cache[key[c]].gen = gen[c] /\ key[c] \notin expired

\* s.cache.Load(key)
Lookup(c) ==
    /\ st[c] = "lookup"
    /\ \/ /\ Usable(c)
          /\ Return(c, cache[key[c]].ok, cache[key[c]].from)
       \/ /\ ~Usable(c)
          /\ Goto(c, IF cache[key[c]] = None THEN "join" ELSE "evict")
          /\ UNCHANGED <<ok, from>>
    /\ UNCHANGED <<storeVars, cacheVars, sem, inflight, key, table, gen, owner, floor, rangeVars>>

\* s.cache.LoadAndDelete(k): on to stage "then" if there was an entry.
LoadAndDelete(c, k, then, else) ==
    /\ cache' = [cache EXCEPT ![k] = None]
    /\ expired' = expired \ {k}
    /\ Goto(c, IF cache[k] = None THEN else ELSE then)
    /\ UNCHANGED <<cacheCount, drift>>

\* Mutant: the count goes down although the entry was gone already.
EvictAlwaysCounts(c) ==
    /\ st[c] = "evict"
    /\ LoadAndDelete(c, key[c], "evicted", "evicted")
    /\ UNCHANGED <<storeVars, sem, inflight, callVars, rangeVars>>

\* The entry found is out of date.
Evict(c) ==
    /\ st[c] = "evict"
    /\ LoadAndDelete(c, key[c], "evicted", "join")
    /\ UNCHANGED <<storeVars, sem, inflight, callVars, rangeVars>>

\* cacheCount.Add(-1) after each successful LoadAndDelete.
CountDown(c) ==
    /\ st[c] \in {"evicted", "cleaned", "trimmed"}
    /\ cacheCount' = cacheCount - 1
    /\ Goto(c, CASE st[c] = "evicted" -> "join" [] st[c] = "cleaned" -> "clean"
                 [] st[c] = "trimmed" -> "trim")
    /\ UNCHANGED <<storeVars, cache, expired, drift, sem, inflight, callVars, rangeVars>>

\* Mutant: the table of checks in flight is not consulted.
JoinNobody(c) ==
    /\ st[c] = "join"
    /\ inflight' = [inflight EXCEPT ![key[c]] = c]
    /\ Goto(c, "sem")
    /\ UNCHANGED <<storeVars, cacheVars, sem, callVars, rangeVars>>

\* Under inflightMu: wait for the call that computes this key, or become it.
Join(c) ==
    /\ st[c] = "join"
    /\ \/ /\ inflight[key[c]] # None
          /\ owner' = [owner EXCEPT ![c] = inflight[key[c]]]
          /\ Goto(c, "wait")
          /\ UNCHANGED inflight
       \/ /\ inflight[key[c]] = None
          /\ inflight' = [inflight EXCEPT ![key[c]] = c]
          /\ Goto(c, "sem")
          /\ UNCHANGED owner
    /\ UNCHANGED <<storeVars, cacheVars, sem, key, table, gen, ok, from, floor, rangeVars>>

\* <-existing.done
Wait(c) ==
    /\ st[c] = "wait" /\ st[owner[c]] = "done"
    /\ Return(c, ok[owner[c]], from[owner[c]])
    /\ UNCHANGED <<storeVars, cacheVars, sem, inflight, key, table, gen, owner, floor, rangeVars>>

SemFree == sem < authPBKDF2Concurrency

Acquire(c) ==
    /\ st[c] = "sem" /\ SemFree
    /\ sem' = sem + 1
    /\ Goto(c, "hash")
    /\ UNCHANGED <<storeVars, cacheVars, inflight, callVars, rangeVars>>

\* checkPBKDF2 against the user loaded at the start.
Hash(c) ==
    /\ st[c] = "hash"
    /\ ok' = [ok EXCEPT ![c] = tables[table[c]][key[c][1]] = key[c][2]]
    /\ from' = [from EXCEPT ![c] = table[c]]
    /\ sem' = sem - 1
    /\ Goto(c, "store")
    /\ UNCHANGED <<storeVars, cacheVars, inflight, key, table, gen, owner, floor, rangeVars>>

-----------------------------------------------------------------------------
(* storeCache and cleanupCache.                                            *)

Entry(c) == [gen |-> gen[c], ok |-> ok[c], from |-> from[c]]

\* s.cache.LoadOrStore(key, entry)
StoreEntry(c) ==
    /\ st[c] = "store"
    /\ \/ /\ cache[key[c]] = None
          /\ cache' = [cache EXCEPT ![key[c]] = Entry(c)]
          /\ Goto(c, "count")
       \/ /\ cache[key[c]] # None
          /\ Goto(c, "overwrite")
          /\ UNCHANGED cache
    /\ UNCHANGED <<storeVars, expired, cacheCount, drift, sem, inflight, callVars, rangeVars>>

\* s.cache.Store(key, entry), which does not notice that the entry it means
\* to replace has been deleted and counted down meanwhile.
Overwrite(c) ==
    /\ st[c] = "overwrite"
    /\ cache' = [cache EXCEPT ![key[c]] = Entry(c)]
    /\ expired' = expired \ {key[c]}
    /\ drift' = IF cache[key[c]] = None THEN drift + 1 ELSE drift
    /\ Goto(c, "finish")
    /\ UNCHANGED <<storeVars, cacheCount, sem, inflight, callVars, rangeVars>>

Present == {k \in Keys : cache[k] # None}

CountUp(c) ==
    /\ st[c] = "count"
    /\ cacheCount' = cacheCount + 1
    /\ \/ /\ cacheCount + 1 <= authCacheMaxEntries
          /\ Goto(c, "finish")
          /\ UNCHANGED due
       \/ /\ cacheCount + 1 > authCacheMaxEntries
          /\ due' = [due EXCEPT ![c] = Present]
          /\ Goto(c, "clean")
    /\ UNCHANGED <<storeVars, cache, expired, drift, sem, inflight, callVars, pick>>

\* One entry of the Range over the cache: to be deleted if it has expired.  One
\* stored after the Range began has not, as "now" was taken before.
CleanVisit(c, k) ==
    /\ st[c] = "clean" /\ k \in due[c]
    /\ due' = [due EXCEPT ![c] = @ \ {k}]
    /\ \/ /\ k \in expired
          /\ pick' = [pick EXCEPT ![c] = k]
          /\ Goto(c, "stale")
       \/ /\ k \notin expired
          /\ UNCHANGED <<pick, st>>
    /\ UNCHANGED <<storeVars, cacheVars, sem, inflight, callVars>>

\* By now another call may have deleted the entry, or stored a fresh one.
CleanDelete(c) ==
    /\ st[c] = "stale"
    /\ LoadAndDelete(c, pick[c], "cleaned", "clean")
    /\ pick' = [pick EXCEPT ![c] = None]
    /\ UNCHANGED <<storeVars, sem, inflight, callVars, due>>

CleanEnd(c) ==
    /\ st[c] = "clean" /\ due[c] = {}
    /\ Goto(c, "trim")
    /\ UNCHANGED <<storeVars, cacheVars, sem, inflight, callVars, rangeVars>>

\* While the count is over the limit: the first key of another Range.
TrimPick(c) ==
    /\ st[c] = "trim"
    /\ \/ /\ cacheCount > authCacheMaxEntries
          /\ \E k \in Present : pick' = [pick EXCEPT ![c] = k]
          /\ Goto(c, "picked")
       \/ /\ cacheCount <= authCacheMaxEntries \/ Present = {}
          /\ Goto(c, "finish")
          /\ UNCHANGED pick
    /\ UNCHANGED <<storeVars, cacheVars, sem, inflight, callVars, due>>

\* If somebody else has deleted it, nothing was removed and the loop ends.
TrimDelete(c) ==
    /\ st[c] = "picked"
    /\ LoadAndDelete(c, pick[c], "trimmed", "finish")
    /\ pick' = [pick EXCEPT ![c] = None]
    /\ UNCHANGED <<storeVars, sem, inflight, callVars, due>>

\* Under inflightMu: the result is published and done is closed.
Finish(c) ==
    /\ st[c] = "finish"
    /\ inflight' = [inflight EXCEPT ![key[c]] = None]
    /\ Goto(c, "done")
    /\ UNCHANGED <<storeVars, cacheVars, sem, callVars, rangeVars>>

-----------------------------------------------------------------------------
StoreCache(c) ==
    \/ StoreEntry(c) \/ Overwrite(c) \/ CountUp(c) \/ CountDown(c)
    \/ (\E k \in Keys : CleanVisit(c, k)) \/ CleanDelete(c) \/ CleanEnd(c)
    \/ TrimPick(c) \/ TrimDelete(c)

CheckCredentials(c) ==
    \/ LoadGeneration(c) \/ Lookup(c) \/ Evict(c) \/ Join(c) \/ Wait(c)
    \/ Acquire(c) \/ Hash(c) \/ StoreCache(c) \/ Finish(c)

\* Every call has returned.  Any other state in which nothing can happen is a
\* deadlock: a call left waiting for a semaphore or for another call.
Returned == (\A c \in Calls : st[c] = "done") /\ UNCHANGED vars

Next ==
    \/ Returned
    \/ \E t \in Tables : ReloadUsers(t)
    \/ ReloadGeneration
    \/ \E k \in Keys : Expire(k)
    \/ \E c \in Calls : CheckCredentials(c) \/ \E k \in Keys : LoadUsers(c, k)

Spec == Init /\ [][Next]_vars

-----------------------------------------------------------------------------
\* The values of the variables; the semaphore never admits more hashes at a
\* time than authPBKDF2Concurrency.
TypeOK ==
    /\ tables \in Seq(Tables) /\ users \in Numbers /\ generation \in Numbers
    /\ Len(tables) = users /\ horizon \in Numbers
    /\ cache \in [Keys -> Entries \cup {None}] /\ expired \in SUBSET Keys
    /\ cacheCount \in Int /\ drift \in Nat
    /\ sem \in 0 .. authPBKDF2Concurrency /\ inflight \in [Keys -> Calls \cup {None}]
    /\ st \in [Calls -> Stages] /\ key \in [Calls -> Keys \cup {None}]
    /\ table \in [Calls -> Numbers \cup {0}] /\ gen \in [Calls -> Numbers \cup {0}]
    /\ owner \in [Calls -> Calls \cup {None}] /\ ok \in [Calls -> BOOLEAN]
    /\ from \in [Calls -> Numbers \cup {0}] /\ floor \in [Calls -> Numbers \cup {0}]
    /\ due \in [Calls -> SUBSET Keys] /\ pick \in [Calls -> Keys \cup {None}]

\* A result is right for the table it was computed from, and that table is no
\* older than the oldest one a call running in the same generation had loaded.
\* So once a reload has completed that no call straddles, a password it
\* revoked is refused, whatever was cached or in flight before.
AnswerCurrent ==
    \A c \in Calls : st[c] = "done" =>
        /\ from[c] >= floor[c]
        /\ ok[c] = (tables[from[c]][key[c][1]] = key[c][2])

\* The stages in which a call is the one that computes its key.
Computing == {"sem", "hash", "store", "overwrite", "count", "clean", "stale", "cleaned",
              "trim", "picked", "trimmed", "finish"}

\* A key is computed by one call at a time: the one the others find in the
\* table and wait for.
SingleFlight ==
    \A c \in Calls : st[c] \in Computing => inflight[key[c]] = c

\* cacheCount, changed in steps of its own by every call, differs from the
\* size of the cache exactly by the changes still due and by the entries that
\* were stored over a deleted one.
CountAccurate ==
    Cardinality(Present) - drift
        = cacheCount + Cardinality({c \in Calls : st[c] = "count"})
                     - Cardinality({c \in Calls : st[c] \in {"evicted", "cleaned", "trimmed"}})

=============================================================================
