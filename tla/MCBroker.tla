------------------------------ MODULE MCBroker ------------------------------
(***************************************************************************)
(* Broker on small instances: one Worker that connects once or twice, up   *)
(* to two Proxies with up to two sessions, channels of one slot.           *)
(***************************************************************************)
EXTENDS Broker, TLC
CONSTANTS c1, c2, g1

\* Every connection belongs to one worker GUID: reconnections of one worker.
OneWorker == [c \in Conns |-> g1]

ConnSymmetry == Permutations(Conns)

FullSymmetry == ConnSymmetry \cup Permutations(Proxies) \cup Permutations(Ids)

\* The frames that wait in the channels, of one slot, or in the hands of a reader.
Frames == Cardinality({c \in Conns : send[c] # <<>>}) + Cardinality({p \in Proxies : psend[p] # <<>>})
            + Cardinality({c \in Conns : rd[c] # None})

\* At most two frames; no handler that gives up; a Worker has its group, and is
\* replaced, or fails while it is alone; a session per Proxy: two Proxies as long as they serve,
\* and one, with its session until that is over, when it fails.
Small ==
    /\ Frames <= 2 /\ assigned[g1] # NoGroup
    /\ \A c \in Conns :
          /\ hs[c] # "closed"
          /\ rem[c] = "idle" \/ (\E d \in Conns : old[d] = c) \/ \A d \in Conns \ {c} : hs[d] = "idle"
    /\ \A p \in Proxies : Cardinality({id \in Ids : proxyOf[id] = p}) <= 1
    /\ \/ \A p \in Proxies : ph[p] \notin {"closing", "gone"} /\ pcl[p] = "idle"
       \/ /\ Cardinality({p \in Proxies : ph[p] # "idle"}) = 1
          /\ Cardinality({id \in Ids : proxyOf[id] # None}) = 1
          /\ \/ sessions # {} \/ closers # {}
             \/ \E p \in Proxies : ph[p] \in {"store", "send", "fail"}
=============================================================================
