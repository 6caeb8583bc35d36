----------------------------- MODULE AuthProofs -----------------------------
(***************************************************************************)
(* TypeOK, SingleFlight, AnswerCurrent and CountAccurate of AuthStore,     *)
(* proved for any number of calls, users, passwords and reloads.           *)
(***************************************************************************)
EXTENDS AuthStore, FiniteSetTheorems, WellFoundedInduction, TLAPS

-----------------------------------------------------------------------------
(* Types, in four parts.                                                   *)

\* What reload writes: between its two steps users is one ahead.
StoreType ==
    /\ tables \in Seq(Tables) /\ users \in Numbers /\ generation \in Numbers
    /\ Len(tables) = users /\ (users = generation \/ users = generation + 1)
    /\ horizon \in Numbers /\ horizon <= generation

\* What a call has loaded at each stage.
CallType ==
    /\ st \in [Calls -> Stages] /\ key \in [Calls -> Keys \cup {None}]
    /\ table \in [Calls -> Numbers \cup {0}] /\ gen \in [Calls -> Numbers \cup {0}]
    /\ owner \in [Calls -> Calls \cup {None}] /\ ok \in [Calls -> BOOLEAN]
    /\ from \in [Calls -> Numbers \cup {0}] /\ floor \in [Calls -> Numbers \cup {0}]
    /\ \A c \in Calls : st[c] # "idle" => key[c] \in Keys /\ table[c] \in 1 .. users
    /\ \A c \in Calls : st[c] \notin {"idle", "gen", "done"} => gen[c] \in 1 .. generation
    /\ \A c \in Calls : st[c] = "wait" => owner[c] \in Calls

\* The cache and the walk over it.
CacheType ==
    /\ cache \in [Keys -> Entries \cup {None}] /\ expired \in SUBSET Keys
    /\ cacheCount \in Int /\ drift \in Nat
    /\ due \in [Calls -> SUBSET Keys] /\ pick \in [Calls -> Keys \cup {None}]
    /\ \A c \in Calls : st[c] \in {"stale", "picked"} => pick[c] \in Keys

Hashing == {c \in Calls : st[c] = "hash"}

\* One token of the semaphore for every call that hashes.
SemType ==
    /\ inflight \in [Keys -> Calls \cup {None}]
    /\ sem \in 0 .. authPBKDF2Concurrency
    /\ IsFiniteSet(Hashing) /\ sem = Cardinality(Hashing)

\* The stages from which a result is stored and published.
Hashed == {"store", "overwrite", "count", "clean", "stale", "cleaned", "trim", "picked",
           "trimmed", "finish"}

\* A result computed by the call itself is from the table it had loaded.
HashedInv == \A c \in Calls : st[c] \in Hashed => from[c] = table[c]

\* A nonempty set of numbers has a least element.
LEMMA Least == ASSUME NEW S \in SUBSET Nat, S # {} PROVE \E n \in S : \A m \in S : n <= m
<1>1. PICK x \in S : \A y \in S : ~ (<<y, x>> \in OpToRel(<, Nat))
  BY NatLessThanWellFounded, WFMin
<1>2. \A y \in S : ~(y < x)
  BY <1>1 DEF OpToRel
<1> QED
  BY <1>2

\* A call that runs, and one that has loaded the generation.
Active(c) == st[c] \notin {"idle", "done"}
Loaded(c) == st[c] \notin {"idle", "gen", "done"}

\* A reload that completes moves the horizon to the oldest table in use.
LEMMA HorizonMoves ==
    ASSUME StoreType, CallType, ReloadGeneration
    PROVE  /\ horizon' \in Numbers /\ horizon' <= generation + 1
           /\ \A c \in Calls : Active(c) => horizon' <= table[c]
<1> DEFINE S == {table[c] : c \in {d \in Calls : st[d] \notin {"idle", "done"}}}
                \cup {generation + 1}
<1>1. users = generation + 1 /\ generation + 1 \in Numbers /\ generation \in Nat
  BY DEF ReloadGeneration, StoreType, Numbers
<1>2. \A n \in S : n \in Numbers /\ n <= generation + 1
  BY <1>1 DEF CallType, Numbers
<1>3. S \in SUBSET Nat /\ S # {}
  BY <1>2 DEF Numbers
<1>4. horizon' = CHOOSE n \in S : \A m \in S : n <= m
  BY DEF ReloadGeneration
<1>5. \A c \in Calls : Active(c) => table[c] \in S
  BY DEF Active
<1> HIDE DEF S
<1>6. horizon' \in S /\ \A m \in S : horizon' <= m
  BY <1>3, <1>4, Least
<1> QED
  BY <1>2, <1>5, <1>6

\* StoreType is preserved by every step.
LEMMA StoreStep == StoreType /\ CallType /\ [Next]_vars => StoreType'
<1> SUFFICES ASSUME StoreType, CallType, [Next]_vars PROVE StoreType'
  OBVIOUS
<1> USE DEF storeVars, cacheVars, callVars, rangeVars
<1>0. CASE UNCHANGED vars
  BY <1>0 DEF vars, StoreType
<1>1. ASSUME NEW t \in Tables, ReloadUsers(t) PROVE StoreType'
  <2>1. tables' \in Seq(Tables) /\ Len(tables') = Len(tables) + 1
    BY <1>1 DEF ReloadUsers, StoreType
  <2>2. users' = users + 1 /\ users' \in Numbers
    BY <1>1, AuthBounds DEF ReloadUsers, StoreType, Numbers
  <2> QED
    BY <1>1, <2>1, <2>2 DEF ReloadUsers, StoreType
<1>2. CASE ReloadGeneration
  <2>1. users = generation + 1 /\ generation + 1 \in Numbers
    BY <1>2 DEF ReloadGeneration, StoreType, Numbers
  <2>2. horizon' \in Numbers /\ horizon' <= generation + 1
    BY <1>2, HorizonMoves
  <2> QED
    BY <1>2, <2>1, <2>2 DEF ReloadGeneration, StoreType
<1>3. ASSUME NEW k \in Keys, Expire(k) PROVE StoreType'
  BY <1>3 DEF Expire, StoreType
<1>4. ASSUME NEW c \in Calls, NEW k \in Keys, LoadUsers(c, k) PROVE StoreType'
  BY <1>4 DEF LoadUsers, StoreType
<1>5. ASSUME NEW c \in Calls, LoadGeneration(c) PROVE StoreType'
  BY <1>5 DEF LoadGeneration, StoreType
<1>6. ASSUME NEW c \in Calls, Lookup(c) PROVE StoreType'
  BY <1>6 DEF Lookup, StoreType
<1>7. ASSUME NEW c \in Calls, Evict(c) PROVE StoreType'
  BY <1>7 DEF Evict, StoreType
<1>8. ASSUME NEW c \in Calls, Join(c) PROVE StoreType'
  BY <1>8 DEF Join, StoreType
<1>9. ASSUME NEW c \in Calls, Wait(c) PROVE StoreType'
  BY <1>9 DEF Wait, StoreType
<1>10. ASSUME NEW c \in Calls, Acquire(c) PROVE StoreType'
  BY <1>10 DEF Acquire, StoreType
<1>11. ASSUME NEW c \in Calls, Hash(c) PROVE StoreType'
  BY <1>11 DEF Hash, StoreType
<1>12. ASSUME NEW c \in Calls, StoreEntry(c) PROVE StoreType'
  BY <1>12 DEF StoreEntry, StoreType
<1>13. ASSUME NEW c \in Calls, Overwrite(c) PROVE StoreType'
  BY <1>13 DEF Overwrite, StoreType
<1>14. ASSUME NEW c \in Calls, CountUp(c) PROVE StoreType'
  BY <1>14 DEF CountUp, StoreType
<1>15. ASSUME NEW c \in Calls, CountDown(c) PROVE StoreType'
  BY <1>15 DEF CountDown, StoreType
<1>16. ASSUME NEW c \in Calls, NEW k \in Keys, CleanVisit(c, k) PROVE StoreType'
  BY <1>16 DEF CleanVisit, StoreType
<1>17. ASSUME NEW c \in Calls, CleanDelete(c) PROVE StoreType'
  BY <1>17 DEF CleanDelete, StoreType
<1>18. ASSUME NEW c \in Calls, CleanEnd(c) PROVE StoreType'
  BY <1>18 DEF CleanEnd, StoreType
<1>19. ASSUME NEW c \in Calls, TrimPick(c) PROVE StoreType'
  BY <1>19 DEF TrimPick, StoreType
<1>20. ASSUME NEW c \in Calls, TrimDelete(c) PROVE StoreType'
  BY <1>20 DEF TrimDelete, StoreType
<1>21. ASSUME NEW c \in Calls, Finish(c) PROVE StoreType'
  BY <1>21 DEF Finish, StoreType
<1> QED
  BY <1>0, <1>1, <1>2, <1>3, <1>4, <1>5, <1>6, <1>7, <1>8, <1>9, <1>10, <1>11, <1>12, <1>13,
     <1>14, <1>15, <1>16, <1>17, <1>18, <1>19, <1>20, <1>21
     DEF Next, Returned, CheckCredentials, StoreCache

\* CallType is preserved by every step.
LEMMA CallStep == StoreType /\ CallType /\ CacheType /\ SemType /\ [Next]_vars => CallType'
<1> SUFFICES ASSUME StoreType, CallType, CacheType, SemType, [Next]_vars PROVE CallType'
  OBVIOUS
<1> USE DEF storeVars, cacheVars, callVars, rangeVars
<1>a. users \in Numbers /\ generation \in Numbers /\ horizon \in Numbers /\ Numbers \subseteq Nat
  BY DEF StoreType, Numbers
<1>0. CASE UNCHANGED vars
  BY <1>0, <1>a DEF vars, CallType, Stages
<1>1. ASSUME NEW t \in Tables, ReloadUsers(t) PROVE CallType'
  <2>1. users' = users + 1 /\ users \in Nat
    BY <1>1 DEF ReloadUsers, StoreType, Numbers
  <2>2. \A n \in 1 .. users : n \in 1 .. users'
    BY <2>1
  <2> QED
    BY <1>1, <2>2 DEF ReloadUsers, CallType
<1>2. CASE ReloadGeneration
  BY <1>2, <1>a DEF ReloadGeneration, CallType, Stages
<1>3. ASSUME NEW k \in Keys, Expire(k) PROVE CallType'
  BY <1>3, <1>a DEF Expire, CallType, Stages
<1>4. ASSUME NEW c \in Calls, NEW k \in Keys, LoadUsers(c, k) PROVE CallType'
  <2>1. users \in 1 .. users /\ users \in Numbers \cup {0}
    BY <1>a DEF Numbers
  <2>2. key' = [key EXCEPT ![c] = k] /\ table' = [table EXCEPT ![c] = users]
    BY <1>4 DEF LoadUsers
  <2>3. /\ st' = [st EXCEPT ![c] = "done"] \/ st' = [st EXCEPT ![c] = "gen"]
        /\ ok' = [ok EXCEPT ![c] = FALSE] \/ ok' = ok
        /\ from' = [from EXCEPT ![c] = users] \/ from' = from
    BY <1>4 DEF LoadUsers, Return, Goto
  <2>4. /\ st' \in [Calls -> Stages]
        /\ ok' \in [Calls -> BOOLEAN]
        /\ from' \in [Calls -> Numbers \cup {0}]
    <3>1. st' \in [Calls -> Stages]
      BY <2>3 DEF CallType, Stages
    <3>2. ok' \in [Calls -> BOOLEAN]
      BY <2>3 DEF CallType
    <3>3. from' \in [Calls -> Numbers \cup {0}]
      BY <2>1, <2>3 DEF CallType
    <3> QED
      BY <3>1, <3>2, <3>3
  <2>5. /\ \A d \in Calls : st'[d] # "idle" => key'[d] \in Keys /\ table'[d] \in 1 .. users
        /\ \A d \in Calls : st'[d] \notin {"idle", "gen", "done"} => gen[d] \in 1 .. generation
        /\ \A d \in Calls : st'[d] = "wait" => owner[d] \in Calls
    BY <2>1, <2>2, <2>3 DEF CallType
  <2>6. key' \in [Calls -> Keys \cup {None}] /\ table' \in [Calls -> Numbers \cup {0}]
    BY <2>1, <2>2 DEF CallType
  <2> QED
    BY <1>4, <2>4, <2>5, <2>6 DEF LoadUsers, CallType
<1>5. ASSUME NEW c \in Calls, LoadGeneration(c) PROVE CallType'
  <2>1. generation \in 1 .. generation /\ generation \in Numbers \cup {0}
        /\ horizon \in Numbers \cup {0}
    BY <1>a DEF Numbers
  <2>2. gen' = [gen EXCEPT ![c] = generation] /\ floor' = [floor EXCEPT ![c] = horizon]
        /\ st' = [st EXCEPT ![c] = "lookup"] /\ st[c] = "gen"
    BY <1>5 DEF LoadGeneration, Goto
  <2>3. gen' \in [Calls -> Numbers \cup {0}] /\ floor' \in [Calls -> Numbers \cup {0}]
        /\ st' \in [Calls -> Stages]
    BY <2>1, <2>2 DEF CallType, Stages
  <2>4. \A d \in Calls : st'[d] \notin {"idle", "gen", "done"} => gen'[d] \in 1 .. generation
    BY <2>1, <2>2 DEF CallType
  <2> QED
    BY <1>5, <2>2, <2>3, <2>4 DEF LoadGeneration, CallType
<1>6. ASSUME NEW c \in Calls, Lookup(c) PROVE CallType'
  <2>1. key[c] \in Keys
    BY <1>6 DEF Lookup, CallType
  <2>2. Usable(c) => cache[key[c]].ok \in BOOLEAN /\ cache[key[c]].from \in Numbers
    BY <2>1 DEF Usable, CacheType, Entries
  <2>3. /\ st' \in [Calls -> Stages]
        /\ \A d \in Calls : st'[d] = st[d]
                           \/ (d = c /\ st[d] = "lookup" /\ st'[d] \in {"done", "join", "evict"})
    BY <1>6 DEF Lookup, Return, Goto, CallType, Stages
  <2>4. ok' \in [Calls -> BOOLEAN] /\ from' \in [Calls -> Numbers \cup {0}]
    BY <1>6, <2>2 DEF Lookup, Return, CallType
  <2> QED
    BY <1>6, <2>3, <2>4 DEF Lookup, CallType
<1>7. ASSUME NEW c \in Calls, Evict(c) PROVE CallType'
  BY <1>7, <1>a DEF Evict, LoadAndDelete, Goto, CallType, Stages
<1>8. ASSUME NEW c \in Calls, Join(c) PROVE CallType'
  <2>1. key[c] \in Keys
    BY <1>8 DEF Join, CallType
  <2>2. /\ st' \in [Calls -> Stages]
        /\ \A d \in Calls : st'[d] = st[d]
                           \/ (d = c /\ st[d] = "join" /\ st'[d] \in {"wait", "sem"})
    BY <1>8 DEF Join, Goto, CallType, Stages
  <2>3. owner' \in [Calls -> Calls \cup {None}]
    BY <1>8, <2>1 DEF Join, CallType, SemType
  <2>4. \A d \in Calls : st'[d] = "wait" => owner'[d] \in Calls
    BY <1>8, <2>1 DEF Join, Goto, CallType, SemType
  <2> QED
    BY <1>8, <2>2, <2>3, <2>4 DEF Join, CallType
<1>9. ASSUME NEW c \in Calls, Wait(c) PROVE CallType'
  BY <1>9, <1>a DEF Wait, Return, Goto, CallType, Stages
<1>10. ASSUME NEW c \in Calls, Acquire(c) PROVE CallType'
  BY <1>10, <1>a DEF Acquire, SemFree, Goto, CallType, Stages
<1>11. ASSUME NEW c \in Calls, Hash(c) PROVE CallType'
  BY <1>11, <1>a DEF Hash, Goto, CallType, Stages
<1>12. ASSUME NEW c \in Calls, StoreEntry(c) PROVE CallType'
  BY <1>12, <1>a DEF StoreEntry, Entry, Goto, CallType, Stages
<1>13. ASSUME NEW c \in Calls, Overwrite(c) PROVE CallType'
  BY <1>13, <1>a DEF Overwrite, Entry, Goto, CallType, Stages
<1>14. ASSUME NEW c \in Calls, CountUp(c) PROVE CallType'
  BY <1>14, <1>a DEF CountUp, Present, Goto, CallType, Stages
<1>15. ASSUME NEW c \in Calls, CountDown(c) PROVE CallType'
  BY <1>15, <1>a DEF CountDown, Goto, CallType, Stages
<1>16. ASSUME NEW c \in Calls, NEW k \in Keys, CleanVisit(c, k) PROVE CallType'
  BY <1>16, <1>a DEF CleanVisit, Goto, CallType, Stages
<1>17. ASSUME NEW c \in Calls, CleanDelete(c) PROVE CallType'
  BY <1>17, <1>a DEF CleanDelete, LoadAndDelete, Goto, CallType, Stages
<1>18. ASSUME NEW c \in Calls, CleanEnd(c) PROVE CallType'
  BY <1>18, <1>a DEF CleanEnd, Goto, CallType, Stages
<1>19. ASSUME NEW c \in Calls, TrimPick(c) PROVE CallType'
  BY <1>19, <1>a DEF TrimPick, Present, Goto, CallType, Stages
<1>20. ASSUME NEW c \in Calls, TrimDelete(c) PROVE CallType'
  BY <1>20, <1>a DEF TrimDelete, LoadAndDelete, Goto, CallType, Stages
<1>21. ASSUME NEW c \in Calls, Finish(c) PROVE CallType'
  BY <1>21, <1>a DEF Finish, Goto, CallType, Stages
<1> QED
  BY <1>0, <1>1, <1>2, <1>3, <1>4, <1>5, <1>6, <1>7, <1>8, <1>9, <1>10, <1>11, <1>12, <1>13,
     <1>14, <1>15, <1>16, <1>17, <1>18, <1>19, <1>20, <1>21
     DEF Next, Returned, CheckCredentials, StoreCache

\* What a call stores is an entry.
LEMMA EntryType ==
    ASSUME StoreType, CallType, HashedInv, NEW c \in Calls, st[c] \in Hashed
    PROVE  Entry(c) \in Entries
<1>1. users \in Numbers /\ generation \in Numbers /\ Numbers \subseteq Nat
  BY DEF StoreType, Numbers
<1>2. gen[c] \in 1 .. generation /\ table[c] \in 1 .. users /\ from[c] = table[c]
  BY DEF CallType, HashedInv, Hashed
<1>3. gen[c] \in Numbers /\ from[c] \in Numbers
  BY <1>1, <1>2, AuthBounds DEF Numbers
<1> QED
  BY <1>3 DEF Entry, Entries, CallType

\* CacheType is preserved by every step.
LEMMA CacheStep == StoreType /\ CallType /\ HashedInv /\ CacheType /\ [Next]_vars => CacheType'
<1> SUFFICES ASSUME StoreType, CallType, HashedInv, CacheType, [Next]_vars PROVE CacheType'
  OBVIOUS
<1> USE DEF storeVars, cacheVars, callVars, rangeVars
<1>s. st \in [Calls -> Stages]
  BY DEF CallType
<1>0. CASE UNCHANGED vars
  BY <1>0 DEF vars, CacheType
<1>1. ASSUME NEW t \in Tables, ReloadUsers(t) PROVE CacheType'
  BY <1>1 DEF ReloadUsers, CacheType
<1>2. CASE ReloadGeneration
  BY <1>2 DEF ReloadGeneration, CacheType
<1>3. ASSUME NEW k \in Keys, Expire(k) PROVE CacheType'
  BY <1>3 DEF Expire, CacheType
<1>4. ASSUME NEW c \in Calls, NEW k \in Keys, LoadUsers(c, k) PROVE CacheType'
  <2>1. \A d \in Calls : st'[d] = st[d] \/ st'[d] \in {"done", "gen"}
    BY <1>4, <1>s DEF LoadUsers, Return, Goto
  <2> QED
    BY <1>4, <2>1 DEF LoadUsers, CacheType
<1>5. ASSUME NEW c \in Calls, LoadGeneration(c) PROVE CacheType'
  BY <1>5 DEF LoadGeneration, Goto, CacheType
<1>6. ASSUME NEW c \in Calls, Lookup(c) PROVE CacheType'
  <2>1. \A d \in Calls : st'[d] = st[d] \/ st'[d] \in {"done", "join", "evict"}
    BY <1>6, <1>s DEF Lookup, Return, Goto
  <2> QED
    BY <1>6, <2>1 DEF Lookup, CacheType
<1>7. ASSUME NEW c \in Calls, Evict(c) PROVE CacheType'
  <2>1. key[c] \in Keys
    BY <1>7 DEF Evict, CallType
  <2>2. /\ cache' = [cache EXCEPT ![key[c]] = None] /\ expired' = expired \ {key[c]}
        /\ \A d \in Calls : d # c => st'[d] = st[d]
        /\ st'[c] \in {"evicted", "join"}
        /\ UNCHANGED <<cacheCount, drift, due>>
    BY <1>7, <1>s DEF Evict, LoadAndDelete, Goto
  <2>3. pick' = pick
    BY <1>7 DEF Evict, CacheType
  <2> QED
    BY <2>1, <2>2, <2>3 DEF CacheType
<1>8. ASSUME NEW c \in Calls, Join(c) PROVE CacheType'
  <2>1. \A d \in Calls : st'[d] = st[d] \/ st'[d] \in {"wait", "sem"}
    BY <1>8, <1>s DEF Join, Goto
  <2> QED
    BY <1>8, <2>1 DEF Join, CacheType
<1>9. ASSUME NEW c \in Calls, Wait(c) PROVE CacheType'
  BY <1>9 DEF Wait, Return, Goto, CacheType
<1>10. ASSUME NEW c \in Calls, Acquire(c) PROVE CacheType'
  BY <1>10 DEF Acquire, SemFree, Goto, CacheType
<1>11. ASSUME NEW c \in Calls, Hash(c) PROVE CacheType'
  BY <1>11 DEF Hash, Goto, CacheType
<1>12. ASSUME NEW c \in Calls, StoreEntry(c) PROVE CacheType'
  <2>1. key[c] \in Keys /\ Entry(c) \in Entries
    BY <1>12, EntryType DEF StoreEntry, CallType, Hashed
  <2>2. \A d \in Calls : st'[d] = st[d] \/ st'[d] \in {"count", "overwrite"}
    BY <1>12, <1>s DEF StoreEntry, Goto
  <2>3. cache' \in [Keys -> Entries \cup {None}]
    BY <1>12, <2>1 DEF StoreEntry, CacheType
  <2> QED
    BY <1>12, <2>2, <2>3 DEF StoreEntry, CacheType
<1>13. ASSUME NEW c \in Calls, Overwrite(c) PROVE CacheType'
  <2>1. key[c] \in Keys /\ Entry(c) \in Entries
    BY <1>13, EntryType DEF Overwrite, CallType, Hashed
  <2>2. \A d \in Calls : st'[d] = st[d] \/ st'[d] \in {"finish"}
    BY <1>13, <1>s DEF Overwrite, Goto
  <2>3. cache' \in [Keys -> Entries \cup {None}]
        /\ expired' \in SUBSET Keys /\ drift' \in Nat
    BY <1>13, <2>1 DEF Overwrite, CacheType
  <2> QED
    BY <1>13, <2>2, <2>3 DEF Overwrite, CacheType
<1>14. ASSUME NEW c \in Calls, CountUp(c) PROVE CacheType'
  <2>1. \A d \in Calls : st'[d] = st[d] \/ st'[d] \in {"clean", "finish"}
    BY <1>14, <1>s DEF CountUp, Goto
  <2>2. due' \in [Calls -> SUBSET Keys] /\ cacheCount' \in Int
    BY <1>14 DEF CountUp, CacheType, Present
  <2> QED
    BY <1>14, <2>1, <2>2 DEF CountUp, CacheType
<1>15. ASSUME NEW c \in Calls, CountDown(c) PROVE CacheType'
  BY <1>15 DEF CountDown, Goto, CacheType
<1>16. ASSUME NEW c \in Calls, NEW k \in Keys, CleanVisit(c, k) PROVE CacheType'
  <2>1. due' \in [Calls -> SUBSET Keys] /\ pick' \in [Calls -> Keys \cup {None}]
    BY <1>16 DEF CleanVisit, CacheType
  <2>2. \A d \in Calls : st'[d] \in {"stale", "picked"} => pick'[d] \in Keys
    BY <1>16, <1>s DEF CleanVisit, Goto, CacheType
  <2> QED
    BY <1>16, <2>1, <2>2 DEF CleanVisit, CacheType
<1>17. ASSUME NEW c \in Calls, CleanDelete(c) PROVE CacheType'
  <2>1. pick[c] \in Keys
    BY <1>17 DEF CleanDelete, CacheType
  <2>2. /\ cache' = [cache EXCEPT ![pick[c]] = None] /\ expired' = expired \ {pick[c]}
        /\ \A d \in Calls : d # c => st'[d] = st[d]
        /\ st'[c] \in {"cleaned", "clean"}
        /\ UNCHANGED <<cacheCount, drift, due>>
    BY <1>17, <1>s DEF CleanDelete, LoadAndDelete, Goto
  <2>3. pick' = [pick EXCEPT ![c] = None]
    BY <1>17 DEF CleanDelete, CacheType
  <2> QED
    BY <2>1, <2>2, <2>3 DEF CacheType
<1>18. ASSUME NEW c \in Calls, CleanEnd(c) PROVE CacheType'
  BY <1>18 DEF CleanEnd, Goto, CacheType
<1>19. ASSUME NEW c \in Calls, TrimPick(c) PROVE CacheType'
  <2>1. CASE UNCHANGED pick
    <3>1. \A d \in Calls : st'[d] = st[d] \/ st'[d] \in {"picked", "finish"}
      BY <1>19, <1>s DEF TrimPick, Goto
    <3>2. \A d \in Calls : st'[d] = "picked" => pick[d] \in Keys
      BY <1>19, <2>1, <1>s DEF TrimPick, Goto, CacheType, Present
    <3>3. \A d \in Calls : st'[d] = "stale" => st[d] = "stale"
      BY <3>1
    <3> QED
      BY <1>19, <2>1, <3>2, <3>3 DEF TrimPick, CacheType
  <2>2. CASE \E k \in Present : pick' = [pick EXCEPT ![c] = k]
    <3>1. PICK k \in Keys : pick' = [pick EXCEPT ![c] = k]
      BY <2>2 DEF Present
    <3>2. \A d \in Calls : d # c => st'[d] = st[d]
      BY <1>19, <1>s DEF TrimPick, Goto
    <3> QED
      BY <1>19, <3>1, <3>2 DEF TrimPick, CacheType
  <2> QED
    BY <1>19, <2>1, <2>2 DEF TrimPick
<1>20. ASSUME NEW c \in Calls, TrimDelete(c) PROVE CacheType'
  <2>1. pick[c] \in Keys
    BY <1>20 DEF TrimDelete, CacheType
  <2>2. /\ cache' = [cache EXCEPT ![pick[c]] = None] /\ expired' = expired \ {pick[c]}
        /\ \A d \in Calls : d # c => st'[d] = st[d]
        /\ st'[c] \in {"trimmed", "finish"}
        /\ UNCHANGED <<cacheCount, drift, due>>
    BY <1>20, <1>s DEF TrimDelete, LoadAndDelete, Goto
  <2>3. pick' = [pick EXCEPT ![c] = None]
    BY <1>20 DEF TrimDelete, CacheType
  <2> QED
    BY <2>1, <2>2, <2>3 DEF CacheType
<1>21. ASSUME NEW c \in Calls, Finish(c) PROVE CacheType'
  BY <1>21 DEF Finish, Goto, CacheType
<1> QED
  BY <1>0, <1>1, <1>2, <1>3, <1>4, <1>5, <1>6, <1>7, <1>8, <1>9, <1>10, <1>11, <1>12, <1>13,
     <1>14, <1>15, <1>16, <1>17, <1>18, <1>19, <1>20, <1>21
     DEF Next, Returned, CheckCredentials, StoreCache

\* HashedInv is preserved by every step.
LEMMA HashedStep == CallType /\ HashedInv /\ [Next]_vars => HashedInv'
<1> SUFFICES ASSUME CallType, HashedInv, [Next]_vars PROVE HashedInv'
  OBVIOUS
<1> USE DEF storeVars, cacheVars, callVars, rangeVars
<1>0. CASE UNCHANGED vars
  BY <1>0 DEF vars, CallType, HashedInv, Hashed
<1>1. ASSUME NEW t \in Tables, ReloadUsers(t) PROVE HashedInv'
  BY <1>1 DEF ReloadUsers, CallType, HashedInv, Hashed
<1>2. CASE ReloadGeneration
  BY <1>2 DEF ReloadGeneration, CallType, HashedInv, Hashed
<1>3. ASSUME NEW k \in Keys, Expire(k) PROVE HashedInv'
  BY <1>3 DEF Expire, CallType, HashedInv, Hashed
<1>4. ASSUME NEW c \in Calls, NEW k \in Keys, LoadUsers(c, k) PROVE HashedInv'
  BY <1>4 DEF LoadUsers, Return, Goto, CallType, HashedInv, Hashed
<1>5. ASSUME NEW c \in Calls, LoadGeneration(c) PROVE HashedInv'
  BY <1>5 DEF LoadGeneration, Goto, CallType, HashedInv, Hashed
<1>6. ASSUME NEW c \in Calls, Lookup(c) PROVE HashedInv'
  BY <1>6 DEF Lookup, Return, Goto, Usable, CallType, HashedInv, Hashed
<1>7. ASSUME NEW c \in Calls, Evict(c) PROVE HashedInv'
  BY <1>7 DEF Evict, LoadAndDelete, Goto, CallType, HashedInv, Hashed
<1>8. ASSUME NEW c \in Calls, Join(c) PROVE HashedInv'
  BY <1>8 DEF Join, Goto, CallType, HashedInv, Hashed
<1>9. ASSUME NEW c \in Calls, Wait(c) PROVE HashedInv'
  BY <1>9 DEF Wait, Return, Goto, CallType, HashedInv, Hashed
<1>10. ASSUME NEW c \in Calls, Acquire(c) PROVE HashedInv'
  BY <1>10 DEF Acquire, SemFree, Goto, CallType, HashedInv, Hashed
<1>11. ASSUME NEW c \in Calls, Hash(c) PROVE HashedInv'
  BY <1>11 DEF Hash, Goto, CallType, HashedInv, Hashed
<1>12. ASSUME NEW c \in Calls, StoreEntry(c) PROVE HashedInv'
  BY <1>12 DEF StoreEntry, Entry, Goto, CallType, HashedInv, Hashed
<1>13. ASSUME NEW c \in Calls, Overwrite(c) PROVE HashedInv'
  BY <1>13 DEF Overwrite, Entry, Goto, CallType, HashedInv, Hashed
<1>14. ASSUME NEW c \in Calls, CountUp(c) PROVE HashedInv'
  BY <1>14 DEF CountUp, Present, Goto, CallType, HashedInv, Hashed
<1>15. ASSUME NEW c \in Calls, CountDown(c) PROVE HashedInv'
  BY <1>15 DEF CountDown, Goto, CallType, HashedInv, Hashed
<1>16. ASSUME NEW c \in Calls, NEW k \in Keys, CleanVisit(c, k) PROVE HashedInv'
  BY <1>16 DEF CleanVisit, Goto, CallType, HashedInv, Hashed
<1>17. ASSUME NEW c \in Calls, CleanDelete(c) PROVE HashedInv'
  BY <1>17 DEF CleanDelete, LoadAndDelete, Goto, CallType, HashedInv, Hashed
<1>18. ASSUME NEW c \in Calls, CleanEnd(c) PROVE HashedInv'
  BY <1>18 DEF CleanEnd, Goto, CallType, HashedInv, Hashed
<1>19. ASSUME NEW c \in Calls, TrimPick(c) PROVE HashedInv'
  BY <1>19 DEF TrimPick, Present, Goto, CallType, HashedInv, Hashed
<1>20. ASSUME NEW c \in Calls, TrimDelete(c) PROVE HashedInv'
  BY <1>20 DEF TrimDelete, LoadAndDelete, Goto, CallType, HashedInv, Hashed
<1>21. ASSUME NEW c \in Calls, Finish(c) PROVE HashedInv'
  BY <1>21 DEF Finish, Goto, CallType, HashedInv, Hashed
<1> QED
  BY <1>0, <1>1, <1>2, <1>3, <1>4, <1>5, <1>6, <1>7, <1>8, <1>9, <1>10, <1>11, <1>12, <1>13,
     <1>14, <1>15, <1>16, <1>17, <1>18, <1>19, <1>20, <1>21
     DEF Next, Returned, CheckCredentials, StoreCache

-----------------------------------------------------------------------------
(* One call per key, one token per hash.                                   *)

\* SemType is preserved by every step.
LEMMA SemStep == CallType /\ SemType /\ [Next]_vars => SemType'
<1> SUFFICES ASSUME CallType, SemType, [Next]_vars PROVE SemType'
  OBVIOUS
<1> USE DEF storeVars, cacheVars, callVars, rangeVars
<1>s. st \in [Calls -> Stages]
  BY DEF CallType
<1>0. CASE UNCHANGED vars
  BY <1>0 DEF vars, SemType, Hashing
<1>1. ASSUME NEW t \in Tables, ReloadUsers(t) PROVE SemType'
  BY <1>1 DEF ReloadUsers, SemType, Hashing
<1>2. CASE ReloadGeneration
  BY <1>2 DEF ReloadGeneration, SemType, Hashing
<1>3. ASSUME NEW k \in Keys, Expire(k) PROVE SemType'
  BY <1>3 DEF Expire, SemType, Hashing
<1>4. ASSUME NEW c \in Calls, NEW k \in Keys, LoadUsers(c, k) PROVE SemType'
  <2>1. Hashing' = Hashing
    BY <1>4, <1>s DEF LoadUsers, Return, Goto, Hashing
  <2> QED
    BY <1>4, <2>1 DEF LoadUsers, SemType
<1>5. ASSUME NEW c \in Calls, LoadGeneration(c) PROVE SemType'
  <2>1. Hashing' = Hashing
    BY <1>5, <1>s DEF LoadGeneration, Goto, Hashing
  <2> QED
    BY <1>5, <2>1 DEF LoadGeneration, SemType
<1>6. ASSUME NEW c \in Calls, Lookup(c) PROVE SemType'
  <2>1. Hashing' = Hashing
    BY <1>6, <1>s DEF Lookup, Return, Goto, Usable, Hashing
  <2> QED
    BY <1>6, <2>1 DEF Lookup, SemType
<1>7. ASSUME NEW c \in Calls, Evict(c) PROVE SemType'
  <2>1. Hashing' = Hashing
    BY <1>7, <1>s DEF Evict, LoadAndDelete, Goto, Hashing
  <2> QED
    BY <1>7, <2>1 DEF Evict, SemType
<1>8. ASSUME NEW c \in Calls, Join(c) PROVE SemType'
  <2>1. Hashing' = Hashing
    BY <1>8, <1>s DEF Join, Goto, Hashing
  <2>2. inflight' \in [Keys -> Calls \cup {None}]
    BY <1>8 DEF Join, SemType
  <2> QED
    BY <1>8, <2>1, <2>2 DEF Join, SemType
<1>9. ASSUME NEW c \in Calls, Wait(c) PROVE SemType'
  <2>1. Hashing' = Hashing
    BY <1>9, <1>s DEF Wait, Return, Goto, Hashing
  <2> QED
    BY <1>9, <2>1 DEF Wait, SemType
<1>10. ASSUME NEW c \in Calls, Acquire(c) PROVE SemType'
  <2>1. Hashing' = Hashing \cup {c} /\ c \notin Hashing
    BY <1>10, <1>s DEF Acquire, Goto, Hashing
  <2>2. IsFiniteSet(Hashing') /\ Cardinality(Hashing') = Cardinality(Hashing) + 1
    BY <2>1, FS_AddElement DEF SemType
  <2>3. sem' = sem + 1 /\ sem' \in 0 .. authPBKDF2Concurrency
    BY <1>10, AuthBounds DEF Acquire, SemFree, SemType
  <2> QED
    BY <1>10, <2>2, <2>3 DEF Acquire, SemType
<1>11. ASSUME NEW c \in Calls, Hash(c) PROVE SemType'
  <2>1. Hashing' = Hashing \ {c} /\ c \in Hashing
    BY <1>11, <1>s DEF Hash, Goto, Hashing
  <2>2. IsFiniteSet(Hashing') /\ Cardinality(Hashing') = Cardinality(Hashing) - 1
    BY <2>1, FS_RemoveElement DEF SemType
  <2>3. Cardinality(Hashing') \in Nat
    BY <2>2, FS_CardinalityType
  <2>4. sem' = Cardinality(Hashing') /\ sem' \in 0 .. authPBKDF2Concurrency
    BY <1>11, <2>2, <2>3, AuthBounds DEF Hash, SemType
  <2> QED
    BY <1>11, <2>2, <2>4 DEF Hash, SemType
<1>12. ASSUME NEW c \in Calls, StoreEntry(c) PROVE SemType'
  <2>1. Hashing' = Hashing
    BY <1>12, <1>s DEF StoreEntry, Entry, Goto, Hashing
  <2> QED
    BY <1>12, <2>1 DEF StoreEntry, SemType
<1>13. ASSUME NEW c \in Calls, Overwrite(c) PROVE SemType'
  <2>1. Hashing' = Hashing
    BY <1>13, <1>s DEF Overwrite, Entry, Goto, Hashing
  <2> QED
    BY <1>13, <2>1 DEF Overwrite, SemType
<1>14. ASSUME NEW c \in Calls, CountUp(c) PROVE SemType'
  <2>1. Hashing' = Hashing
    BY <1>14, <1>s DEF CountUp, Present, Goto, Hashing
  <2> QED
    BY <1>14, <2>1 DEF CountUp, SemType
<1>15. ASSUME NEW c \in Calls, CountDown(c) PROVE SemType'
  <2>1. Hashing' = Hashing
    BY <1>15, <1>s DEF CountDown, Goto, Hashing
  <2> QED
    BY <1>15, <2>1 DEF CountDown, SemType
<1>16. ASSUME NEW c \in Calls, NEW k \in Keys, CleanVisit(c, k) PROVE SemType'
  <2>1. Hashing' = Hashing
    BY <1>16, <1>s DEF CleanVisit, Goto, Hashing
  <2> QED
    BY <1>16, <2>1 DEF CleanVisit, SemType
<1>17. ASSUME NEW c \in Calls, CleanDelete(c) PROVE SemType'
  <2>1. Hashing' = Hashing
    BY <1>17, <1>s DEF CleanDelete, LoadAndDelete, Goto, Hashing
  <2> QED
    BY <1>17, <2>1 DEF CleanDelete, SemType
<1>18. ASSUME NEW c \in Calls, CleanEnd(c) PROVE SemType'
  <2>1. Hashing' = Hashing
    BY <1>18, <1>s DEF CleanEnd, Goto, Hashing
  <2> QED
    BY <1>18, <2>1 DEF CleanEnd, SemType
<1>19. ASSUME NEW c \in Calls, TrimPick(c) PROVE SemType'
  <2>1. Hashing' = Hashing
    BY <1>19, <1>s DEF TrimPick, Present, Goto, Hashing
  <2> QED
    BY <1>19, <2>1 DEF TrimPick, SemType
<1>20. ASSUME NEW c \in Calls, TrimDelete(c) PROVE SemType'
  <2>1. Hashing' = Hashing
    BY <1>20, <1>s DEF TrimDelete, LoadAndDelete, Goto, Hashing
  <2> QED
    BY <1>20, <2>1 DEF TrimDelete, SemType
<1>21. ASSUME NEW c \in Calls, Finish(c) PROVE SemType'
  <2>1. Hashing' = Hashing
    BY <1>21, <1>s DEF Finish, Goto, Hashing
  <2>2. inflight' \in [Keys -> Calls \cup {None}]
    BY <1>21 DEF Finish, SemType
  <2> QED
    BY <1>21, <2>1, <2>2 DEF Finish, SemType
<1> QED
  BY <1>0, <1>1, <1>2, <1>3, <1>4, <1>5, <1>6, <1>7, <1>8, <1>9, <1>10, <1>11, <1>12, <1>13,
     <1>14, <1>15, <1>16, <1>17, <1>18, <1>19, <1>20, <1>21
     DEF Next, Returned, CheckCredentials, StoreCache

\* SingleFlight, and conversely: an entry of the table belongs to a call that
\* computes its key.
FlightInv ==
    /\ SingleFlight
    /\ \A k \in Keys : inflight[k] # None =>
          st[inflight[k]] \in Computing /\ key[inflight[k]] = k

\* FlightInv is preserved by every step.
LEMMA FlightStep == CallType /\ SemType /\ FlightInv /\ [Next]_vars => FlightInv'
<1> SUFFICES ASSUME CallType, SemType, FlightInv, [Next]_vars PROVE FlightInv'
  OBVIOUS
<1> USE DEF storeVars, cacheVars, callVars, rangeVars
<1> USE AuthNone
<1>s. /\ st \in [Calls -> Stages] /\ key \in [Calls -> Keys \cup {None}]
      /\ inflight \in [Keys -> Calls \cup {None}]
      /\ \A c \in Calls : st[c] # "idle" => key[c] \in Keys
  BY DEF CallType, SemType
<1>0. CASE UNCHANGED vars
  BY <1>0, <1>s DEF vars, FlightInv, SingleFlight, Computing
<1>1. ASSUME NEW t \in Tables, ReloadUsers(t) PROVE FlightInv'
  BY <1>1, <1>s DEF ReloadUsers, FlightInv, SingleFlight, Computing
<1>2. CASE ReloadGeneration
  BY <1>2, <1>s DEF ReloadGeneration, FlightInv, SingleFlight, Computing
<1>3. ASSUME NEW k \in Keys, Expire(k) PROVE FlightInv'
  BY <1>3, <1>s DEF Expire, FlightInv, SingleFlight, Computing
<1>4. ASSUME NEW c \in Calls, NEW k \in Keys, LoadUsers(c, k) PROVE FlightInv'
  BY <1>4, <1>s DEF LoadUsers, Return, Goto, FlightInv, SingleFlight, Computing
<1>5. ASSUME NEW c \in Calls, LoadGeneration(c) PROVE FlightInv'
  BY <1>5, <1>s DEF LoadGeneration, Goto, FlightInv, SingleFlight, Computing
<1>6. ASSUME NEW c \in Calls, Lookup(c) PROVE FlightInv'
  BY <1>6, <1>s DEF Lookup, Return, Goto, Usable, FlightInv, SingleFlight, Computing
<1>7. ASSUME NEW c \in Calls, Evict(c) PROVE FlightInv'
  BY <1>7, <1>s DEF Evict, LoadAndDelete, Goto, FlightInv, SingleFlight, Computing
<1>8. ASSUME NEW c \in Calls, Join(c) PROVE FlightInv'
  BY <1>8, <1>s DEF Join, Goto, FlightInv, SingleFlight, Computing
<1>9. ASSUME NEW c \in Calls, Wait(c) PROVE FlightInv'
  BY <1>9, <1>s DEF Wait, Return, Goto, FlightInv, SingleFlight, Computing
<1>10. ASSUME NEW c \in Calls, Acquire(c) PROVE FlightInv'
  BY <1>10, <1>s DEF Acquire, SemFree, Goto, FlightInv, SingleFlight, Computing
<1>11. ASSUME NEW c \in Calls, Hash(c) PROVE FlightInv'
  BY <1>11, <1>s DEF Hash, Goto, FlightInv, SingleFlight, Computing
<1>12. ASSUME NEW c \in Calls, StoreEntry(c) PROVE FlightInv'
  BY <1>12, <1>s DEF StoreEntry, Entry, Goto, FlightInv, SingleFlight, Computing
<1>13. ASSUME NEW c \in Calls, Overwrite(c) PROVE FlightInv'
  BY <1>13, <1>s DEF Overwrite, Entry, Goto, FlightInv, SingleFlight, Computing
<1>14. ASSUME NEW c \in Calls, CountUp(c) PROVE FlightInv'
  BY <1>14, <1>s DEF CountUp, Present, Goto, FlightInv, SingleFlight, Computing
<1>15. ASSUME NEW c \in Calls, CountDown(c) PROVE FlightInv'
  BY <1>15, <1>s DEF CountDown, Goto, FlightInv, SingleFlight, Computing
<1>16. ASSUME NEW c \in Calls, NEW k \in Keys, CleanVisit(c, k) PROVE FlightInv'
  BY <1>16, <1>s DEF CleanVisit, Goto, FlightInv, SingleFlight, Computing
<1>17. ASSUME NEW c \in Calls, CleanDelete(c) PROVE FlightInv'
  BY <1>17, <1>s DEF CleanDelete, LoadAndDelete, Goto, FlightInv, SingleFlight, Computing
<1>18. ASSUME NEW c \in Calls, CleanEnd(c) PROVE FlightInv'
  BY <1>18, <1>s DEF CleanEnd, Goto, FlightInv, SingleFlight, Computing
<1>19. ASSUME NEW c \in Calls, TrimPick(c) PROVE FlightInv'
  BY <1>19, <1>s DEF TrimPick, Present, Goto, FlightInv, SingleFlight, Computing
<1>20. ASSUME NEW c \in Calls, TrimDelete(c) PROVE FlightInv'
  BY <1>20, <1>s DEF TrimDelete, LoadAndDelete, Goto, FlightInv, SingleFlight, Computing
<1>21. ASSUME NEW c \in Calls, Finish(c) PROVE FlightInv'
  BY <1>21, <1>s DEF Finish, Goto, FlightInv, SingleFlight, Computing
<1> QED
  BY <1>0, <1>1, <1>2, <1>3, <1>4, <1>5, <1>6, <1>7, <1>8, <1>9, <1>10, <1>11, <1>12, <1>13,
     <1>14, <1>15, <1>16, <1>17, <1>18, <1>19, <1>20, <1>21
     DEF Next, Returned, CheckCredentials, StoreCache

-----------------------------------------------------------------------------
(* How old an answer may be.                                               *)

\* The horizon and the floors: no running call has a table older than the
\* floor of any call, and calls of one generation have one floor.
FloorInv ==
    /\ \A c \in Calls : /\ st[c] \in {"idle", "gen"} => floor[c] = 0
                        /\ floor[c] <= generation
                        /\ Active(c) => table[c] >= horizon
                        /\ Loaded(c) /\ gen[c] = generation => floor[c] = horizon
    /\ \A c, d \in Calls : Active(d) => table[d] >= floor[c]
    /\ \A c, d \in Calls : Loaded(c) /\ Loaded(d) /\ gen[c] = gen[d] => floor[c] = floor[d]

\* FloorInv is preserved by every step.
LEMMA FloorStep == StoreType /\ CallType /\ FloorInv /\ [Next]_vars => FloorInv'
<1> SUFFICES ASSUME StoreType, CallType, FloorInv, [Next]_vars PROVE FloorInv'
  OBVIOUS
<1> USE DEF storeVars, cacheVars, callVars, rangeVars
<1>s. /\ st \in [Calls -> Stages] /\ users \in Nat /\ generation \in Nat /\ horizon \in Nat
      /\ generation <= users /\ users <= generation + 1 /\ horizon <= generation
      /\ table \in [Calls -> Nat] /\ gen \in [Calls -> Nat] /\ floor \in [Calls -> Nat]
      /\ \A c \in Calls : Loaded(c) => gen[c] <= generation
  BY DEF CallType, StoreType, Numbers, Loaded
<1>0. CASE UNCHANGED vars
  BY <1>0, <1>s DEF vars, FloorInv, Active, Loaded
<1>1. ASSUME NEW t \in Tables, ReloadUsers(t) PROVE FloorInv'
  BY <1>1, <1>s DEF ReloadUsers, FloorInv, Active, Loaded
<1>2. CASE ReloadGeneration
  <2>1. generation' = generation + 1
    BY <1>2 DEF ReloadGeneration
  <2>2. horizon' <= generation' /\ \A c \in Calls : Active(c) => horizon' <= table[c]
    BY <1>2, <2>1, HorizonMoves
  <2>3. horizon' \in Nat
    BY <1>2, HorizonMoves DEF Numbers
  <2>4. UNCHANGED <<st, table, gen, floor>>
    BY <1>2 DEF ReloadGeneration
  <2> QED
    BY <1>s, <2>1, <2>2, <2>3, <2>4 DEF FloorInv, Active, Loaded
<1>3. ASSUME NEW k \in Keys, Expire(k) PROVE FloorInv'
  BY <1>3, <1>s DEF Expire, FloorInv, Active, Loaded
<1>4. ASSUME NEW c \in Calls, NEW k \in Keys, LoadUsers(c, k) PROVE FloorInv'
  BY <1>4, <1>s DEF LoadUsers, Return, Goto, FloorInv, Active, Loaded
<1>5. ASSUME NEW c \in Calls, LoadGeneration(c) PROVE FloorInv'
  BY <1>5, <1>s DEF LoadGeneration, Goto, FloorInv, Active, Loaded
<1>6. ASSUME NEW c \in Calls, Lookup(c) PROVE FloorInv'
  BY <1>6, <1>s DEF Lookup, Return, Goto, Usable, FloorInv, Active, Loaded
<1>7. ASSUME NEW c \in Calls, Evict(c) PROVE FloorInv'
  BY <1>7, <1>s DEF Evict, LoadAndDelete, Goto, FloorInv, Active, Loaded
<1>8. ASSUME NEW c \in Calls, Join(c) PROVE FloorInv'
  BY <1>8, <1>s DEF Join, Goto, FloorInv, Active, Loaded
<1>9. ASSUME NEW c \in Calls, Wait(c) PROVE FloorInv'
  BY <1>9, <1>s DEF Wait, Return, Goto, FloorInv, Active, Loaded
<1>10. ASSUME NEW c \in Calls, Acquire(c) PROVE FloorInv'
  BY <1>10, <1>s DEF Acquire, SemFree, Goto, FloorInv, Active, Loaded
<1>11. ASSUME NEW c \in Calls, Hash(c) PROVE FloorInv'
  BY <1>11, <1>s DEF Hash, Goto, FloorInv, Active, Loaded
<1>12. ASSUME NEW c \in Calls, StoreEntry(c) PROVE FloorInv'
  BY <1>12, <1>s DEF StoreEntry, Entry, Goto, FloorInv, Active, Loaded
<1>13. ASSUME NEW c \in Calls, Overwrite(c) PROVE FloorInv'
  BY <1>13, <1>s DEF Overwrite, Entry, Goto, FloorInv, Active, Loaded
<1>14. ASSUME NEW c \in Calls, CountUp(c) PROVE FloorInv'
  BY <1>14, <1>s DEF CountUp, Present, Goto, FloorInv, Active, Loaded
<1>15. ASSUME NEW c \in Calls, CountDown(c) PROVE FloorInv'
  BY <1>15, <1>s DEF CountDown, Goto, FloorInv, Active, Loaded
<1>16. ASSUME NEW c \in Calls, NEW k \in Keys, CleanVisit(c, k) PROVE FloorInv'
  BY <1>16, <1>s DEF CleanVisit, Goto, FloorInv, Active, Loaded
<1>17. ASSUME NEW c \in Calls, CleanDelete(c) PROVE FloorInv'
  BY <1>17, <1>s DEF CleanDelete, LoadAndDelete, Goto, FloorInv, Active, Loaded
<1>18. ASSUME NEW c \in Calls, CleanEnd(c) PROVE FloorInv'
  BY <1>18, <1>s DEF CleanEnd, Goto, FloorInv, Active, Loaded
<1>19. ASSUME NEW c \in Calls, TrimPick(c) PROVE FloorInv'
  BY <1>19, <1>s DEF TrimPick, Present, Goto, FloorInv, Active, Loaded
<1>20. ASSUME NEW c \in Calls, TrimDelete(c) PROVE FloorInv'
  BY <1>20, <1>s DEF TrimDelete, LoadAndDelete, Goto, FloorInv, Active, Loaded
<1>21. ASSUME NEW c \in Calls, Finish(c) PROVE FloorInv'
  BY <1>21, <1>s DEF Finish, Goto, FloorInv, Active, Loaded
<1> QED
  BY <1>0, <1>1, <1>2, <1>3, <1>4, <1>5, <1>6, <1>7, <1>8, <1>9, <1>10, <1>11, <1>12, <1>13,
     <1>14, <1>15, <1>16, <1>17, <1>18, <1>19, <1>20, <1>21
     DEF Next, Returned, CheckCredentials, StoreCache

\* A result that is right for table n.
Right(k, result, n) == n \in 1 .. Len(tables) /\ result = (tables[n][k[1]] = k[2])

\* Every entry of the cache is right for its table, which no call that may
\* still use the entry has a floor above.
EntriesInv ==
    \A k \in Keys : cache[k] # None =>
        /\ Right(k, cache[k].ok, cache[k].from)
        /\ cache[k].gen <= generation
        /\ cache[k].gen = generation => cache[k].from >= horizon
        /\ \A c \in Calls : Loaded(c) /\ gen[c] = cache[k].gen => cache[k].from >= floor[c]

\* A call that waits shares a result that is, or will be, recent enough for it.
WaitInv ==
    \A c \in Calls : st[c] = "wait" =>
        /\ key[owner[c]] = key[c]
        /\ st[owner[c]] \in Computing \/ (st[owner[c]] = "done" /\ from[owner[c]] >= floor[c])

\* Every result that has been computed or returned is right and recent enough.
ResultInv ==
    \A c \in Calls :
        /\ st[c] \in Hashed \cup {"done"} => Right(key[c], ok[c], from[c])
        /\ st[c] = "done" => from[c] >= floor[c]

\* The tables read so far stay as they were.
LEMMA TablesGrow ==
    ASSUME StoreType, [Next]_vars
    PROVE  /\ Len(tables) \in Nat /\ Len(tables') \in Nat /\ Len(tables) <= Len(tables')
           /\ \A n \in 1 .. Len(tables) : tables'[n] = tables[n]
<1>1. tables \in Seq(Tables) /\ Len(tables) \in Nat
  BY DEF StoreType
<1>2. ASSUME NEW t \in Tables, ReloadUsers(t)
      PROVE  Len(tables') = Len(tables) + 1 /\ \A n \in 1 .. Len(tables) : tables'[n] = tables[n]
  BY <1>1, <1>2 DEF ReloadUsers
<1>3. (\E t \in Tables : ReloadUsers(t)) \/ tables' = tables
  BY ZenonT(60)
     DEF Next, Returned, CheckCredentials, StoreCache, vars, storeVars, ReloadGeneration, Expire,
         LoadUsers, LoadGeneration, Lookup, Evict, Join, Wait, Acquire, Hash, StoreEntry,
         Overwrite, CountUp, CountDown, CleanVisit, CleanDelete, CleanEnd, TrimPick, TrimDelete,
         Finish
<1> QED
  BY <1>1, <1>2, <1>3


\* WaitInv is preserved by every step.
LEMMA WaitStep ==
      /\ StoreType /\ CallType /\ SemType /\ HashedInv /\ FlightInv /\ FloorInv /\ WaitInv
      /\ [Next]_vars
    => WaitInv'
<1> SUFFICES ASSUME StoreType, CallType, SemType, HashedInv, FlightInv, FloorInv, WaitInv,
                    [Next]_vars
             PROVE  WaitInv'
  OBVIOUS
<1> USE DEF storeVars, cacheVars, callVars, rangeVars
<1>s. /\ st \in [Calls -> Stages] /\ users \in Nat /\ generation \in Nat /\ horizon \in Nat
      /\ table \in [Calls -> Nat] /\ gen \in [Calls -> Nat] /\ floor \in [Calls -> Nat]
      /\ from \in [Calls -> Nat] /\ ok \in [Calls -> BOOLEAN] /\ Len(tables) = users
      /\ key \in [Calls -> Keys \cup {None}] /\ owner \in [Calls -> Calls \cup {None}]
      /\ \A c \in Calls : st[c] # "idle" => key[c] \in Keys /\ table[c] \in 1 .. users
  BY DEF CallType, StoreType, Numbers
<1>w. \A c \in Calls : st[c] = "wait" => owner[c] \in Calls
  BY DEF CallType
<1>0. CASE UNCHANGED vars
  BY <1>0, <1>s, <1>w DEF vars, WaitInv, Computing
<1>1. ASSUME NEW t \in Tables, ReloadUsers(t) PROVE WaitInv'
  BY <1>1, <1>s, <1>w DEF ReloadUsers, WaitInv, Computing
<1>2. CASE ReloadGeneration
  BY <1>2, <1>s, <1>w DEF ReloadGeneration, WaitInv, Computing
<1>3. ASSUME NEW k \in Keys, Expire(k) PROVE WaitInv'
  BY <1>3, <1>s, <1>w DEF Expire, WaitInv, Computing
<1>4. ASSUME NEW c \in Calls, NEW k \in Keys, LoadUsers(c, k) PROVE WaitInv'
  BY <1>4, <1>s, <1>w DEF LoadUsers, Return, Goto, WaitInv, Computing
<1>5. ASSUME NEW c \in Calls, LoadGeneration(c) PROVE WaitInv'
  BY <1>5, <1>s, <1>w DEF LoadGeneration, Goto, WaitInv, Computing
<1>6. ASSUME NEW c \in Calls, Lookup(c) PROVE WaitInv'
  BY <1>6, <1>s, <1>w, ZenonT(60) DEF Lookup, Return, Goto, Usable, WaitInv, Computing
<1>7. ASSUME NEW c \in Calls, Evict(c) PROVE WaitInv'
  BY <1>7, <1>s, <1>w DEF Evict, LoadAndDelete, Goto, WaitInv, Computing
<1>8. ASSUME NEW c \in Calls, Join(c) PROVE WaitInv'
  <2>1. key[c] \in Keys
    BY <1>8, <1>s DEF Join
  <2>2. inflight[key[c]] # None =>
          /\ inflight[key[c]] \in Calls /\ st[inflight[key[c]]] \in Computing
          /\ key[inflight[key[c]]] = key[c]
    BY <2>1 DEF FlightInv, SemType
  <2>3. st[c] = "join" /\ "join" \notin Computing
    BY <1>8 DEF Join, Computing
  <2>4. /\ \A d \in Calls : d # c => st'[d] = st[d] /\ owner'[d] = owner[d]
        /\ st'[c] = "wait" => inflight[key[c]] # None /\ owner'[c] = inflight[key[c]]
        /\ UNCHANGED <<key, from, floor>>
    BY <1>8, <1>s DEF Join, Goto
  <2> SUFFICES ASSUME NEW d \in Calls, st'[d] = "wait"
               PROVE  /\ key[owner'[d]] = key[d]
                      /\ \/ st'[owner'[d]] \in Computing
                         \/ st'[owner'[d]] = "done" /\ from[owner'[d]] >= floor[d]
    BY <2>4 DEF WaitInv
  <2>5. CASE d = c
    BY <2>2, <2>3, <2>4, <2>5
  <2>6. CASE d # c
    <3>1. st[d] = "wait" /\ owner'[d] = owner[d] /\ owner[d] \in Calls
      BY <1>w, <2>4, <2>6
    <3>2. key[owner[d]] = key[d] /\ \/ st[owner[d]] \in Computing
                                    \/ st[owner[d]] = "done" /\ from[owner[d]] >= floor[d]
      BY <3>1 DEF WaitInv
    <3>3. owner[d] # c
      BY <2>3, <3>2
    <3> QED
      BY <2>4, <3>1, <3>2, <3>3
  <2> QED
    BY <2>5, <2>6
<1>9. ASSUME NEW c \in Calls, Wait(c) PROVE WaitInv'
  BY <1>9, <1>s, <1>w DEF Wait, Return, Goto, WaitInv, Computing
<1>10. ASSUME NEW c \in Calls, Acquire(c) PROVE WaitInv'
  BY <1>10, <1>s, <1>w DEF Acquire, SemFree, Goto, WaitInv, Computing
<1>11. ASSUME NEW c \in Calls, Hash(c) PROVE WaitInv'
  BY <1>11, <1>s, <1>w DEF Hash, Goto, WaitInv, Computing
<1>12. ASSUME NEW c \in Calls, StoreEntry(c) PROVE WaitInv'
  BY <1>12, <1>s, <1>w, ZenonT(60) DEF StoreEntry, Entry, Goto, WaitInv, Computing
<1>13. ASSUME NEW c \in Calls, Overwrite(c) PROVE WaitInv'
  BY <1>13, <1>s, <1>w DEF Overwrite, Entry, Goto, WaitInv, Computing
<1>14. ASSUME NEW c \in Calls, CountUp(c) PROVE WaitInv'
  BY <1>14, <1>s, <1>w, ZenonT(60) DEF CountUp, Present, Goto, WaitInv, Computing
<1>15. ASSUME NEW c \in Calls, CountDown(c) PROVE WaitInv'
  BY <1>15, <1>s, <1>w DEF CountDown, Goto, WaitInv, Computing
<1>16. ASSUME NEW c \in Calls, NEW k \in Keys, CleanVisit(c, k) PROVE WaitInv'
  BY <1>16, <1>s, <1>w DEF CleanVisit, Goto, WaitInv, Computing
<1>17. ASSUME NEW c \in Calls, CleanDelete(c) PROVE WaitInv'
  BY <1>17, <1>s, <1>w DEF CleanDelete, LoadAndDelete, Goto, WaitInv, Computing
<1>18. ASSUME NEW c \in Calls, CleanEnd(c) PROVE WaitInv'
  BY <1>18, <1>s, <1>w DEF CleanEnd, Goto, WaitInv, Computing
<1>19. ASSUME NEW c \in Calls, TrimPick(c) PROVE WaitInv'
  BY <1>19, <1>s, <1>w, ZenonT(60) DEF TrimPick, Present, Goto, WaitInv, Computing
<1>20. ASSUME NEW c \in Calls, TrimDelete(c) PROVE WaitInv'
  BY <1>20, <1>s, <1>w DEF TrimDelete, LoadAndDelete, Goto, WaitInv, Computing
<1>21. ASSUME NEW c \in Calls, Finish(c) PROVE WaitInv'
  <2>1. from[c] = table[c] /\ \A d \in Calls : table[c] >= floor[d]
    BY <1>21 DEF Finish, HashedInv, Hashed, FloorInv, Active
  <2> QED
    BY <1>21, <1>s, <1>w, <2>1 DEF Finish, Goto, WaitInv, Computing
<1> QED
  BY <1>0, <1>1, <1>2, <1>3, <1>4, <1>5, <1>6, <1>7, <1>8, <1>9, <1>10, <1>11, <1>12, <1>13,
     <1>14, <1>15, <1>16, <1>17, <1>18, <1>19, <1>20, <1>21
     DEF Next, Returned, CheckCredentials, StoreCache

\* EntriesInv is preserved by every step.
LEMMA EntriesStep ==
      /\ StoreType /\ CallType /\ CacheType /\ HashedInv /\ FloorInv /\ ResultInv /\ EntriesInv
      /\ [Next]_vars
    => EntriesInv'
<1> SUFFICES ASSUME StoreType, CallType, CacheType, HashedInv, FloorInv, ResultInv, EntriesInv,
                    [Next]_vars
             PROVE  EntriesInv'
  OBVIOUS
<1> USE DEF storeVars, cacheVars, callVars, rangeVars
<1>s. /\ st \in [Calls -> Stages] /\ users \in Nat /\ generation \in Nat /\ horizon \in Nat
      /\ table \in [Calls -> Nat] /\ gen \in [Calls -> Nat] /\ floor \in [Calls -> Nat]
      /\ from \in [Calls -> Nat] /\ ok \in [Calls -> BOOLEAN] /\ Len(tables) = users
      /\ key \in [Calls -> Keys \cup {None}] /\ owner \in [Calls -> Calls \cup {None}]
      /\ \A c \in Calls : st[c] # "idle" => key[c] \in Keys /\ table[c] \in 1 .. users
  BY DEF CallType, StoreType, Numbers
<1>g. /\ Len(tables) \in Nat /\ Len(tables') \in Nat /\ Len(tables) <= Len(tables')
      /\ \A n \in 1 .. Len(tables) : tables'[n] = tables[n]
  BY TablesGrow
<1>c. /\ \A k \in Keys : cache[k] # None => cache[k].gen \in Nat /\ cache[k].from \in Nat
      /\ cache \in [Keys -> Entries \cup {None}]
  BY DEF CacheType, Entries, Numbers
<1>0. CASE UNCHANGED vars
  BY <1>0, <1>s, <1>g, <1>c DEF vars, EntriesInv, Right, Loaded
<1>1. ASSUME NEW t \in Tables, ReloadUsers(t) PROVE EntriesInv'
  BY <1>1, <1>s, <1>g, <1>c DEF ReloadUsers, EntriesInv, Right, Loaded
<1>2. CASE ReloadGeneration
  BY <1>2, <1>s, <1>g, <1>c DEF ReloadGeneration, EntriesInv, Right, Loaded
<1>3. ASSUME NEW k \in Keys, Expire(k) PROVE EntriesInv'
  BY <1>3, <1>s, <1>g, <1>c DEF Expire, EntriesInv, Right, Loaded
<1>4. ASSUME NEW c \in Calls, NEW k \in Keys, LoadUsers(c, k) PROVE EntriesInv'
  BY <1>4, <1>s, <1>g, <1>c DEF LoadUsers, Return, Goto, EntriesInv, Right, Loaded
<1>5. ASSUME NEW c \in Calls, LoadGeneration(c) PROVE EntriesInv'
  BY <1>5, <1>s, <1>g, <1>c DEF LoadGeneration, Goto, EntriesInv, Right, Loaded
<1>6. ASSUME NEW c \in Calls, Lookup(c) PROVE EntriesInv'
  BY <1>6, <1>s, <1>g, <1>c DEF Lookup, Return, Goto, Usable, EntriesInv, Right, Loaded
<1>7. ASSUME NEW c \in Calls, Evict(c) PROVE EntriesInv'
  BY <1>7, <1>s, <1>g, <1>c DEF Evict, LoadAndDelete, Goto, EntriesInv, Right, Loaded
<1>8. ASSUME NEW c \in Calls, Join(c) PROVE EntriesInv'
  BY <1>8, <1>s, <1>g, <1>c DEF Join, Goto, EntriesInv, Right, Loaded
<1>9. ASSUME NEW c \in Calls, Wait(c) PROVE EntriesInv'
  BY <1>9, <1>s, <1>g, <1>c DEF Wait, Return, Goto, EntriesInv, Right, Loaded
<1>10. ASSUME NEW c \in Calls, Acquire(c) PROVE EntriesInv'
  BY <1>10, <1>s, <1>g, <1>c DEF Acquire, SemFree, Goto, EntriesInv, Right, Loaded
<1>11. ASSUME NEW c \in Calls, Hash(c) PROVE EntriesInv'
  BY <1>11, <1>s, <1>g, <1>c DEF Hash, Goto, EntriesInv, Right, Loaded
<1>12. ASSUME NEW c \in Calls, StoreEntry(c) PROVE EntriesInv'
  <2>1. st[c] \in Hashed /\ key[c] \in Keys
    BY <1>12, <1>s DEF StoreEntry, Hashed
  <2>2. /\ Right(key[c], ok[c], from[c]) /\ gen[c] <= generation
        /\ gen[c] = generation => from[c] >= horizon
        /\ \A d \in Calls : Loaded(d) /\ gen[d] = gen[c] => from[c] >= floor[d]
    BY <2>1, <1>s, SMTT(30) DEF ResultInv, HashedInv, FloorInv, Hashed, Loaded, Active, CallType
  <2>3. Entry(c).gen = gen[c] /\ Entry(c).ok = ok[c] /\ Entry(c).from = from[c]
    BY DEF Entry
  <2>4. \A k \in Keys : cache'[k] = cache[k] \/ (k = key[c] /\ cache'[k] = Entry(c))
    BY <1>12, <1>c DEF StoreEntry
  <2>5. /\ UNCHANGED <<tables, generation, horizon, gen, floor>>
        /\ \A d \in Calls : Loaded(d)' => Loaded(d)
    BY <1>12, <1>s DEF StoreEntry, Goto, Loaded
  <2> QED
    BY <2>2, <2>3, <2>4, <2>5, SMTT(30) DEF EntriesInv, Right
<1>13. ASSUME NEW c \in Calls, Overwrite(c) PROVE EntriesInv'
  <2>1. st[c] \in Hashed /\ key[c] \in Keys
    BY <1>13, <1>s DEF Overwrite, Hashed
  <2>2. /\ Right(key[c], ok[c], from[c]) /\ gen[c] <= generation
        /\ gen[c] = generation => from[c] >= horizon
        /\ \A d \in Calls : Loaded(d) /\ gen[d] = gen[c] => from[c] >= floor[d]
    BY <2>1, <1>s, SMTT(30) DEF ResultInv, HashedInv, FloorInv, Hashed, Loaded, Active, CallType
  <2>3. Entry(c).gen = gen[c] /\ Entry(c).ok = ok[c] /\ Entry(c).from = from[c]
    BY DEF Entry
  <2>4. \A k \in Keys : cache'[k] = cache[k] \/ (k = key[c] /\ cache'[k] = Entry(c))
    BY <1>13, <1>c DEF Overwrite
  <2>5. /\ UNCHANGED <<tables, generation, horizon, gen, floor>>
        /\ \A d \in Calls : Loaded(d)' => Loaded(d)
    BY <1>13, <1>s DEF Overwrite, Goto, Loaded
  <2> QED
    BY <2>2, <2>3, <2>4, <2>5, SMTT(30) DEF EntriesInv, Right
<1>14. ASSUME NEW c \in Calls, CountUp(c) PROVE EntriesInv'
  BY <1>14, <1>s, <1>g, <1>c DEF CountUp, Present, Goto, EntriesInv, Right, Loaded
<1>15. ASSUME NEW c \in Calls, CountDown(c) PROVE EntriesInv'
  BY <1>15, <1>s, <1>g, <1>c DEF CountDown, Goto, EntriesInv, Right, Loaded
<1>16. ASSUME NEW c \in Calls, NEW k \in Keys, CleanVisit(c, k) PROVE EntriesInv'
  BY <1>16, <1>s, <1>g, <1>c DEF CleanVisit, Goto, EntriesInv, Right, Loaded
<1>17. ASSUME NEW c \in Calls, CleanDelete(c) PROVE EntriesInv'
  BY <1>17, <1>s, <1>g, <1>c DEF CleanDelete, LoadAndDelete, Goto, EntriesInv, Right, Loaded
<1>18. ASSUME NEW c \in Calls, CleanEnd(c) PROVE EntriesInv'
  BY <1>18, <1>s, <1>g, <1>c DEF CleanEnd, Goto, EntriesInv, Right, Loaded
<1>19. ASSUME NEW c \in Calls, TrimPick(c) PROVE EntriesInv'
  BY <1>19, <1>s, <1>g, <1>c DEF TrimPick, Present, Goto, EntriesInv, Right, Loaded
<1>20. ASSUME NEW c \in Calls, TrimDelete(c) PROVE EntriesInv'
  BY <1>20, <1>s, <1>g, <1>c DEF TrimDelete, LoadAndDelete, Goto, EntriesInv, Right, Loaded
<1>21. ASSUME NEW c \in Calls, Finish(c) PROVE EntriesInv'
  BY <1>21, <1>s, <1>g, <1>c DEF Finish, Goto, EntriesInv, Right, Loaded
<1> QED
  BY <1>0, <1>1, <1>2, <1>3, <1>4, <1>5, <1>6, <1>7, <1>8, <1>9, <1>10, <1>11, <1>12, <1>13,
     <1>14, <1>15, <1>16, <1>17, <1>18, <1>19, <1>20, <1>21
     DEF Next, Returned, CheckCredentials, StoreCache

\* ResultInv is preserved by every step.
LEMMA ResultStep ==
      /\ StoreType /\ CallType /\ HashedInv /\ FloorInv /\ EntriesInv /\ WaitInv /\ ResultInv
      /\ [Next]_vars
    => ResultInv'
<1> SUFFICES ASSUME StoreType, CallType, HashedInv, FloorInv, EntriesInv, WaitInv, ResultInv,
                    [Next]_vars
             PROVE  ResultInv'
  OBVIOUS
<1> USE DEF storeVars, cacheVars, callVars, rangeVars
<1>s. /\ st \in [Calls -> Stages] /\ users \in Nat /\ generation \in Nat /\ horizon \in Nat
      /\ table \in [Calls -> Nat] /\ gen \in [Calls -> Nat] /\ floor \in [Calls -> Nat]
      /\ from \in [Calls -> Nat] /\ ok \in [Calls -> BOOLEAN] /\ Len(tables) = users
      /\ key \in [Calls -> Keys \cup {None}] /\ owner \in [Calls -> Calls \cup {None}]
      /\ \A c \in Calls : st[c] # "idle" => key[c] \in Keys /\ table[c] \in 1 .. users
  BY DEF CallType, StoreType, Numbers
<1>g. /\ Len(tables) \in Nat /\ Len(tables') \in Nat /\ Len(tables) <= Len(tables')
      /\ \A n \in 1 .. Len(tables) : tables'[n] = tables[n]
  BY TablesGrow
<1>0. CASE UNCHANGED vars
  BY <1>0, <1>s, <1>g DEF vars, ResultInv, Right, Hashed
<1>1. ASSUME NEW t \in Tables, ReloadUsers(t) PROVE ResultInv'
  BY <1>1, <1>s, <1>g DEF ReloadUsers, ResultInv, Right, Hashed
<1>2. CASE ReloadGeneration
  BY <1>2, <1>s, <1>g DEF ReloadGeneration, ResultInv, Right, Hashed
<1>3. ASSUME NEW k \in Keys, Expire(k) PROVE ResultInv'
  BY <1>3, <1>s, <1>g DEF Expire, ResultInv, Right, Hashed
<1>4. ASSUME NEW c \in Calls, NEW k \in Keys, LoadUsers(c, k) PROVE ResultInv'
  <2>1. k[1] \in Users /\ k[2] \in Passwords /\ k[2] # None
    BY AuthNone DEF Keys
  <2>2. /\ \A d \in Calls : d # c => st'[d] = st[d] /\ key'[d] = key[d] /\ ok'[d] = ok[d]
                                   /\ from'[d] = from[d]
        /\ st'[c] \in {"done", "gen"} /\ key'[c] = k /\ UNCHANGED <<tables, floor>>
        /\ st'[c] = "done" => ok'[c] = FALSE /\ from'[c] = users /\ tables[users][k[1]] = None
    BY <1>4, <1>s DEF LoadUsers, Return, Goto
  <2>3. users \in 1 .. Len(tables) /\ floor[c] = 0
    BY <1>4, <1>s DEF LoadUsers, FloorInv, StoreType, Numbers
  <2>4. st'[c] = "done" => Right(k, FALSE, users)
    BY <2>1, <2>2, <2>3 DEF Right
  <2> SUFFICES ASSUME NEW d \in Calls
               PROVE  /\ st'[d] \in Hashed \cup {"done"} => Right(key'[d], ok'[d], from'[d])
                      /\ st'[d] = "done" => from'[d] >= floor[d]
    BY <2>2 DEF ResultInv, Right
  <2>5. CASE d = c
    <3>1. st'[d] \in Hashed \cup {"done"} => st'[c] = "done"
      BY <2>2, <2>5 DEF Hashed
    <3>2. st'[c] = "done" => from'[d] >= floor[d]
      BY <1>s, <2>2, <2>3, <2>5
    <3>3. st'[c] = "done" => Right(key'[d], ok'[d], from'[d])
      BY <2>2, <2>4, <2>5, Zenon
    <3> QED
      BY <2>5, <3>1, <3>2, <3>3
  <2>6. CASE d # c
    BY <2>2, <2>6 DEF ResultInv
  <2> QED
    BY <2>5, <2>6
<1>5. ASSUME NEW c \in Calls, LoadGeneration(c) PROVE ResultInv'
  BY <1>5, <1>s, <1>g DEF LoadGeneration, Goto, ResultInv, Right, Hashed
<1>6. ASSUME NEW c \in Calls, Lookup(c) PROVE ResultInv'
  <2>1. key[c] \in Keys /\ Loaded(c)
    BY <1>6, <1>s DEF Lookup, Loaded
  <2>2. Usable(c) => /\ Right(key[c], cache[key[c]].ok, cache[key[c]].from)
                     /\ cache[key[c]].from >= floor[c]
    BY <2>1 DEF Usable, EntriesInv
  <2>3. /\ \A d \in Calls : d # c => st'[d] = st[d] /\ ok'[d] = ok[d] /\ from'[d] = from[d]
        /\ st'[c] \in {"done", "join", "evict"} /\ UNCHANGED <<tables, floor, key>>
        /\ st'[c] = "done" =>
              Usable(c) /\ ok'[c] = cache[key[c]].ok /\ from'[c] = cache[key[c]].from
    BY <1>6, <1>s DEF Lookup, Return, Goto
  <2> QED
    BY <2>2, <2>3 DEF ResultInv, Right, Hashed
<1>7. ASSUME NEW c \in Calls, Evict(c) PROVE ResultInv'
  BY <1>7, <1>s, <1>g DEF Evict, LoadAndDelete, Goto, ResultInv, Right, Hashed
<1>8. ASSUME NEW c \in Calls, Join(c) PROVE ResultInv'
  BY <1>8, <1>s, <1>g DEF Join, Goto, ResultInv, Right, Hashed
<1>9. ASSUME NEW c \in Calls, Wait(c) PROVE ResultInv'
  <2>1. owner[c] \in Calls /\ st[c] = "wait" /\ st[owner[c]] = "done"
    BY <1>9 DEF Wait, CallType
  <2>2. Right(key[c], ok[owner[c]], from[owner[c]]) /\ from[owner[c]] >= floor[c]
    BY <2>1 DEF WaitInv, ResultInv, Computing
  <2>3. /\ \A d \in Calls : d # c => st'[d] = st[d] /\ ok'[d] = ok[d] /\ from'[d] = from[d]
        /\ st'[c] = "done" /\ UNCHANGED <<tables, floor, key>>
        /\ ok'[c] = ok[owner[c]] /\ from'[c] = from[owner[c]]
    BY <1>9, <1>s DEF Wait, Return, Goto
  <2> QED
    BY <2>2, <2>3 DEF ResultInv, Right, Hashed
<1>10. ASSUME NEW c \in Calls, Acquire(c) PROVE ResultInv'
  BY <1>10, <1>s, <1>g DEF Acquire, SemFree, Goto, ResultInv, Right, Hashed
<1>11. ASSUME NEW c \in Calls, Hash(c) PROVE ResultInv'
  BY <1>11, <1>s, <1>g DEF Hash, Goto, ResultInv, Right, Hashed
<1>12. ASSUME NEW c \in Calls, StoreEntry(c) PROVE ResultInv'
  BY <1>12, <1>s, <1>g DEF StoreEntry, Entry, Goto, ResultInv, Right, Hashed
<1>13. ASSUME NEW c \in Calls, Overwrite(c) PROVE ResultInv'
  BY <1>13, <1>s, <1>g DEF Overwrite, Entry, Goto, ResultInv, Right, Hashed
<1>14. ASSUME NEW c \in Calls, CountUp(c) PROVE ResultInv'
  BY <1>14, <1>s, <1>g DEF CountUp, Present, Goto, ResultInv, Right, Hashed
<1>15. ASSUME NEW c \in Calls, CountDown(c) PROVE ResultInv'
  BY <1>15, <1>s, <1>g DEF CountDown, Goto, ResultInv, Right, Hashed
<1>16. ASSUME NEW c \in Calls, NEW k \in Keys, CleanVisit(c, k) PROVE ResultInv'
  BY <1>16, <1>s, <1>g DEF CleanVisit, Goto, ResultInv, Right, Hashed
<1>17. ASSUME NEW c \in Calls, CleanDelete(c) PROVE ResultInv'
  BY <1>17, <1>s, <1>g DEF CleanDelete, LoadAndDelete, Goto, ResultInv, Right, Hashed
<1>18. ASSUME NEW c \in Calls, CleanEnd(c) PROVE ResultInv'
  BY <1>18, <1>s, <1>g DEF CleanEnd, Goto, ResultInv, Right, Hashed
<1>19. ASSUME NEW c \in Calls, TrimPick(c) PROVE ResultInv'
  BY <1>19, <1>s, <1>g DEF TrimPick, Present, Goto, ResultInv, Right, Hashed
<1>20. ASSUME NEW c \in Calls, TrimDelete(c) PROVE ResultInv'
  BY <1>20, <1>s, <1>g DEF TrimDelete, LoadAndDelete, Goto, ResultInv, Right, Hashed
<1>21. ASSUME NEW c \in Calls, Finish(c) PROVE ResultInv'
  <2>1. from[c] = table[c] /\ table[c] >= floor[c] /\ st[c] \in Hashed
    BY <1>21 DEF Finish, HashedInv, Hashed, FloorInv, Active
  <2>2. /\ \A d \in Calls : d # c => st'[d] = st[d]
        /\ st'[c] = "done" /\ UNCHANGED <<tables, floor, key, ok, from>>
    BY <1>21, <1>s DEF Finish, Goto
  <2> QED
    BY <2>1, <2>2 DEF ResultInv, Right, Hashed
<1> QED
  BY <1>0, <1>1, <1>2, <1>3, <1>4, <1>5, <1>6, <1>7, <1>8, <1>9, <1>10, <1>11, <1>12, <1>13,
     <1>14, <1>15, <1>16, <1>17, <1>18, <1>19, <1>20, <1>21
     DEF Next, Returned, CheckCredentials, StoreCache

-----------------------------------------------------------------------------
(* The count of the cache.                                                 *)

\* The calls that have yet to count an entry they have stored, or deleted.
Up == {c \in Calls : st[c] = "count"}
Down == {c \in Calls : st[c] \in {"evicted", "cleaned", "trimmed"}}

\* CountAccurate over sets that only ever grow by one.
CountInv ==
    /\ IsFiniteSet(Present) /\ IsFiniteSet(Up) /\ IsFiniteSet(Down)
    /\ Cardinality(Present) - drift = cacheCount + Cardinality(Up) - Cardinality(Down)

\* The three cardinalities are numbers.
LEMMA CountTypes ==
    ASSUME CountInv
    PROVE  Cardinality(Present) \in Nat /\ Cardinality(Up) \in Nat /\ Cardinality(Down) \in Nat
  BY FS_CardinalityType DEF CountInv

\* A LoadAndDelete that finds an entry owes one countdown, any other nothing.
LEMMA DeleteCounts ==
    ASSUME CallType, CacheType, CountInv, NEW c \in Calls, NEW k \in Keys,
           NEW then \in {"evicted", "cleaned", "trimmed"}, NEW else \in {"join", "clean", "finish"},
           LoadAndDelete(c, k, then, else), st[c] \in {"evict", "stale", "picked"}
    PROVE  CountInv'
<1>1. st \in [Calls -> Stages] /\ cache \in [Keys -> Entries \cup {None}] /\ cacheCount \in Int
      /\ drift \in Nat
  BY DEF CallType, CacheType
<1>2. CASE cache[k] = None
  <2>1. Present' = Present /\ Up' = Up /\ Down' = Down
    BY <1>1, <1>2 DEF LoadAndDelete, Goto, Present, Up, Down
  <2> QED
    BY <2>1 DEF CountInv, LoadAndDelete
<1>3. CASE cache[k] # None
  <2>1. /\ Present' = Present \ {k} /\ k \in Present
        /\ Up' = Up /\ Down' = Down \cup {c} /\ c \notin Down
    BY <1>1, <1>3 DEF LoadAndDelete, Goto, Present, Up, Down
  <2>2. IsFiniteSet(Present') /\ Cardinality(Present') = Cardinality(Present) - 1
    BY <2>1, FS_RemoveElement DEF CountInv
  <2>3. IsFiniteSet(Down') /\ Cardinality(Down') = Cardinality(Down) + 1
    BY <2>1, FS_AddElement DEF CountInv
  <2>4. cacheCount' = cacheCount /\ drift' = drift
    BY DEF LoadAndDelete
  <2> QED
    BY <1>1, <2>1, <2>2, <2>3, <2>4, CountTypes DEF CountInv
<1> QED
  BY <1>2, <1>3

\* CountInv is preserved by every step.
LEMMA CountStep ==
    StoreType /\ CallType /\ CacheType /\ HashedInv /\ CountInv /\ [Next]_vars
        => CountInv'
<1> SUFFICES ASSUME StoreType, CallType, CacheType, HashedInv, CountInv, [Next]_vars PROVE CountInv'
  OBVIOUS
<1> USE DEF storeVars, cacheVars, callVars, rangeVars
<1>s. /\ st \in [Calls -> Stages] /\ cache \in [Keys -> Entries \cup {None}]
      /\ cacheCount \in Int /\ drift \in Nat
  BY DEF CallType, CacheType
<1>0. CASE UNCHANGED vars
  BY <1>0 DEF vars, CountInv, Present, Up, Down
<1>1. ASSUME NEW t \in Tables, ReloadUsers(t) PROVE CountInv'
  BY <1>1 DEF ReloadUsers, CountInv, Present, Up, Down
<1>2. CASE ReloadGeneration
  BY <1>2 DEF ReloadGeneration, CountInv, Present, Up, Down
<1>3. ASSUME NEW k \in Keys, Expire(k) PROVE CountInv'
  BY <1>3 DEF Expire, CountInv, Present, Up, Down
<1>4. ASSUME NEW c \in Calls, NEW k \in Keys, LoadUsers(c, k) PROVE CountInv'
  <2>1. Present' = Present /\ Up' = Up /\ Down' = Down
    BY <1>4, <1>s DEF LoadUsers, Return, Goto, Present, Up, Down
  <2> QED
    BY <1>4, <2>1 DEF LoadUsers, CountInv
<1>5. ASSUME NEW c \in Calls, LoadGeneration(c) PROVE CountInv'
  <2>1. Present' = Present /\ Up' = Up /\ Down' = Down
    BY <1>5, <1>s DEF LoadGeneration, Goto, Present, Up, Down
  <2> QED
    BY <1>5, <2>1 DEF LoadGeneration, CountInv
<1>6. ASSUME NEW c \in Calls, Lookup(c) PROVE CountInv'
  <2>1. Present' = Present /\ Up' = Up /\ Down' = Down
    BY <1>6, <1>s DEF Lookup, Return, Goto, Usable, Present, Up, Down
  <2> QED
    BY <1>6, <2>1 DEF Lookup, CountInv
<1>7. ASSUME NEW c \in Calls, Evict(c) PROVE CountInv'
  <2>1. key[c] \in Keys /\ st[c] \in {"evict", "stale", "picked"}
    BY <1>7 DEF Evict, CallType, CacheType
  <2>2. LoadAndDelete(c, key[c], "evicted", "join")
    BY <1>7 DEF Evict
  <2> QED
    BY <2>1, <2>2, DeleteCounts
<1>8. ASSUME NEW c \in Calls, Join(c) PROVE CountInv'
  <2>1. Present' = Present /\ Up' = Up /\ Down' = Down
    BY <1>8, <1>s DEF Join, Goto, Present, Up, Down
  <2> QED
    BY <1>8, <2>1 DEF Join, CountInv
<1>9. ASSUME NEW c \in Calls, Wait(c) PROVE CountInv'
  <2>1. Present' = Present /\ Up' = Up /\ Down' = Down
    BY <1>9, <1>s DEF Wait, Return, Goto, Present, Up, Down
  <2> QED
    BY <1>9, <2>1 DEF Wait, CountInv
<1>10. ASSUME NEW c \in Calls, Acquire(c) PROVE CountInv'
  <2>1. Present' = Present /\ Up' = Up /\ Down' = Down
    BY <1>10, <1>s DEF Acquire, SemFree, Goto, Present, Up, Down
  <2> QED
    BY <1>10, <2>1 DEF Acquire, CountInv
<1>11. ASSUME NEW c \in Calls, Hash(c) PROVE CountInv'
  <2>1. Present' = Present /\ Up' = Up /\ Down' = Down
    BY <1>11, <1>s DEF Hash, Goto, Present, Up, Down
  <2> QED
    BY <1>11, <2>1 DEF Hash, CountInv
<1>12. ASSUME NEW c \in Calls, StoreEntry(c) PROVE CountInv'
  <2>1. key[c] \in Keys /\ Entry(c) \in Entries /\ Entry(c) # None
    BY <1>12, EntryType, AuthNone DEF StoreEntry, CallType, Hashed
  <2>2. CASE cache[key[c]] = None
    <3>1. /\ Present' = Present \cup {key[c]} /\ key[c] \notin Present
          /\ Up' = Up \cup {c} /\ c \notin Up /\ Down' = Down
      BY <1>12, <1>s, <2>1, <2>2 DEF StoreEntry, Goto, Present, Up, Down
    <3>2. IsFiniteSet(Present') /\ Cardinality(Present') = Cardinality(Present) + 1
      BY <3>1, FS_AddElement DEF CountInv
    <3>3. IsFiniteSet(Up') /\ Cardinality(Up') = Cardinality(Up) + 1
      BY <3>1, FS_AddElement DEF CountInv
    <3>4. cacheCount' = cacheCount /\ drift' = drift
      BY <1>12 DEF StoreEntry
    <3> QED
      BY <1>s, <3>1, <3>2, <3>3, <3>4, CountTypes DEF CountInv
  <2>3. CASE cache[key[c]] # None
    <3>1. Present' = Present /\ Up' = Up /\ Down' = Down
      BY <1>12, <1>s, <2>3 DEF StoreEntry, Goto, Present, Up, Down
    <3> QED
      BY <1>12, <3>1 DEF StoreEntry, CountInv
  <2> QED
    BY <2>2, <2>3
<1>13. ASSUME NEW c \in Calls, Overwrite(c) PROVE CountInv'
  <2>1. key[c] \in Keys /\ Entry(c) \in Entries /\ Entry(c) # None
    BY <1>13, EntryType, AuthNone DEF Overwrite, CallType, Hashed
  <2>2. Present' = Present \cup {key[c]} /\ Up' = Up /\ Down' = Down
    BY <1>13, <1>s, <2>1 DEF Overwrite, Goto, Present, Up, Down
  <2>3. IsFiniteSet(Present') /\ Cardinality(Present')
          = IF key[c] \in Present THEN Cardinality(Present) ELSE Cardinality(Present) + 1
    BY <2>2, FS_AddElement DEF CountInv
  <2>4. cacheCount' = cacheCount /\ drift' = IF key[c] \in Present THEN drift ELSE drift + 1
    BY <1>13, <2>1 DEF Overwrite, Present
  <2> QED
    BY <1>s, <2>2, <2>3, <2>4, CountTypes DEF CountInv
<1>14. ASSUME NEW c \in Calls, CountUp(c) PROVE CountInv'
  <2>1. Present' = Present /\ Up' = Up \ {c} /\ c \in Up /\ Down' = Down
    BY <1>14, <1>s DEF CountUp, Goto, Present, Up, Down
  <2>2. IsFiniteSet(Up') /\ Cardinality(Up') = Cardinality(Up) - 1
    BY <2>1, FS_RemoveElement DEF CountInv
  <2>3. cacheCount' = cacheCount + 1 /\ drift' = drift
    BY <1>14 DEF CountUp
  <2> QED
    BY <1>s, <2>1, <2>2, <2>3, CountTypes DEF CountInv
<1>15. ASSUME NEW c \in Calls, CountDown(c) PROVE CountInv'
  <2>1. Present' = Present /\ Up' = Up /\ Down' = Down \ {c} /\ c \in Down
    BY <1>15, <1>s DEF CountDown, Goto, Present, Up, Down
  <2>2. IsFiniteSet(Down') /\ Cardinality(Down') = Cardinality(Down) - 1
    BY <2>1, FS_RemoveElement DEF CountInv
  <2>3. cacheCount' = cacheCount - 1 /\ drift' = drift
    BY <1>15 DEF CountDown
  <2> QED
    BY <1>s, <2>1, <2>2, <2>3, CountTypes DEF CountInv
<1>16. ASSUME NEW c \in Calls, NEW k \in Keys, CleanVisit(c, k) PROVE CountInv'
  <2>1. Present' = Present /\ Up' = Up /\ Down' = Down
    BY <1>16, <1>s DEF CleanVisit, Goto, Present, Up, Down
  <2> QED
    BY <1>16, <2>1 DEF CleanVisit, CountInv
<1>17. ASSUME NEW c \in Calls, CleanDelete(c) PROVE CountInv'
  <2>1. pick[c] \in Keys /\ st[c] \in {"evict", "stale", "picked"}
    BY <1>17 DEF CleanDelete, CallType, CacheType
  <2>2. LoadAndDelete(c, pick[c], "cleaned", "clean")
    BY <1>17 DEF CleanDelete
  <2> QED
    BY <2>1, <2>2, DeleteCounts
<1>18. ASSUME NEW c \in Calls, CleanEnd(c) PROVE CountInv'
  <2>1. Present' = Present /\ Up' = Up /\ Down' = Down
    BY <1>18, <1>s DEF CleanEnd, Goto, Present, Up, Down
  <2> QED
    BY <1>18, <2>1 DEF CleanEnd, CountInv
<1>19. ASSUME NEW c \in Calls, TrimPick(c) PROVE CountInv'
  <2>1. Present' = Present /\ Up' = Up /\ Down' = Down
    BY <1>19, <1>s DEF TrimPick, Present, Goto, Up, Down
  <2> QED
    BY <1>19, <2>1 DEF TrimPick, CountInv
<1>20. ASSUME NEW c \in Calls, TrimDelete(c) PROVE CountInv'
  <2>1. pick[c] \in Keys /\ st[c] \in {"evict", "stale", "picked"}
    BY <1>20 DEF TrimDelete, CallType, CacheType
  <2>2. LoadAndDelete(c, pick[c], "trimmed", "finish")
    BY <1>20 DEF TrimDelete
  <2> QED
    BY <2>1, <2>2, DeleteCounts
<1>21. ASSUME NEW c \in Calls, Finish(c) PROVE CountInv'
  <2>1. Present' = Present /\ Up' = Up /\ Down' = Down
    BY <1>21, <1>s DEF Finish, Goto, Present, Up, Down
  <2> QED
    BY <1>21, <2>1 DEF Finish, CountInv
<1> QED
  BY <1>0, <1>1, <1>2, <1>3, <1>4, <1>5, <1>6, <1>7, <1>8, <1>9, <1>10, <1>11, <1>12, <1>13,
     <1>14, <1>15, <1>16, <1>17, <1>18, <1>19, <1>20, <1>21
     DEF Next, Returned, CheckCredentials, StoreCache

-----------------------------------------------------------------------------
(* The theorems.                                                           *)

AuthInv ==
    /\ StoreType /\ CallType /\ CacheType /\ SemType
    /\ HashedInv /\ FlightInv /\ FloorInv /\ WaitInv /\ EntriesInv /\ ResultInv
    /\ CountInv

\* The invariant holds initially.
LEMMA AuthInit == Init => AuthInv
<1> SUFFICES ASSUME Init PROVE AuthInv
  OBVIOUS
<1>1. StoreType
  <2>1. PICK t \in Tables : tables = <<t>>
    BY DEF Init
  <2>2. tables \in Seq(Tables) /\ Len(tables) = 1
    BY <2>1
  <2> QED
    BY <2>2, AuthBounds DEF Init, StoreType, Numbers
<1>2. CallType
  BY DEF Init, CallType, Stages
<1>3. CacheType
  BY DEF Init, CacheType
<1>4. SemType
  <2>1. Hashing = {}
    BY DEF Init, Hashing
  <2>2. IsFiniteSet(Hashing) /\ Cardinality(Hashing) = 0
    BY <2>1, FS_EmptySet
  <2> QED
    BY <2>2, AuthBounds DEF Init, SemType
<1>5. HashedInv /\ FlightInv /\ WaitInv /\ EntriesInv
  BY DEF Init, HashedInv, Hashed, FlightInv, SingleFlight, Computing, WaitInv, EntriesInv
<1>6. FloorInv
  BY DEF Init, FloorInv, Active, Loaded
<1>7. ResultInv
  BY DEF Init, ResultInv, Hashed
<1>8. CountInv
  <2>1. Present = {} /\ Up = {} /\ Down = {}
    BY DEF Init, Present, Up, Down
  <2>2. IsFiniteSet({}) /\ Cardinality({}) = 0
    BY FS_EmptySet
  <2> QED
    BY <2>1, <2>2 DEF Init, CountInv
<1> QED
  BY <1>1, <1>2, <1>3, <1>4, <1>5, <1>6, <1>7, <1>8 DEF AuthInv

\* The invariant always holds.
LEMMA AuthInvariant == Spec => []AuthInv
<1>1. AuthInv /\ [Next]_vars => AuthInv'
  BY StoreStep, CallStep, CacheStep, SemStep, HashedStep, FlightStep, FloorStep, WaitStep,
     EntriesStep, ResultStep, CountStep DEF AuthInv
<1> QED
  BY <1>1, AuthInit, PTL DEF Spec

\* Every variable keeps its type, and no more calls hash at a time than
\* authPBKDF2Concurrency allows.
THEOREM AuthTypeCorrect == Spec => []TypeOK
<1>1. AuthInv => TypeOK
  BY DEF AuthInv, StoreType, CallType, CacheType, SemType, TypeOK
<1> QED
  BY <1>1, AuthInvariant, PTL

\* SingleFlight always holds: a key is hashed by one call at a time.
THEOREM AuthSingleFlight == Spec => []SingleFlight
<1>1. AuthInv => SingleFlight
  BY DEF AuthInv, FlightInv
<1> QED
  BY <1>1, AuthInvariant, PTL

\* AnswerCurrent always holds: no entry of the cache and no check in flight
\* lets a call return a result older than the calls of its generation.
THEOREM AuthCurrent == Spec => []AnswerCurrent
<1>1. AuthInv => AnswerCurrent
  BY DEF AuthInv, ResultInv, Right, AnswerCurrent
<1> QED
  BY <1>1, AuthInvariant, PTL

\* CountAccurate always holds: the count of the cache drifts only where an
\* entry is stored over one that was deleted.
THEOREM AuthCount == Spec => []CountAccurate
<1>1. AuthInv => CountAccurate
  BY DEF AuthInv, CountInv, CountAccurate, Up, Down
<1> QED
  BY <1>1, AuthInvariant, PTL

=============================================================================
