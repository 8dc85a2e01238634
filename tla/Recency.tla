------------------------------ MODULE Recency ------------------------------
(***************************************************************************)
(* The replacement policy the cache of src/src/lru.js promises: the keys   *)
(* kept in order of their last use, the last of them evicted.              *)
(***************************************************************************)
EXTENDS Cache, Sequences, SequencesExt

VARIABLE order   \* the keys present, most recently used first

recencyVars == <<cacheVars, order>>

RecencyInit == Init /\ order = << >>

Touched(k) == <<k>> \o RemoveFirst(order, k)

RecencySet(k, v, ttl) ==
  LET e       == [value |-> v, expiry |-> Expiry(ttl)]
      overful == max > -1 /\ Len(Touched(k)) > max
  IN  /\ order' = IF overful THEN Front(Touched(k)) ELSE Touched(k)
      /\ store' = IF overful
                  THEN [store EXCEPT ![k] = e, ![Last(Touched(k))] = Absent]
                  ELSE [store EXCEPT ![k] = e]
      /\ out' = Undefined
      /\ UNCHANGED <<max, now>>

RecencyGet(k) ==
  /\ Get(k)
  /\ order' = IF store'[k] = Absent THEN RemoveFirst(order, k) ELSE Touched(k)

RecencyDelete(k) ==
  /\ Delete(k)
  /\ order' = RemoveFirst(order, k)

RecencyNext ==
  \/ \E k \in Keys, v \in Values, ttl \in Ttls : RecencySet(k, v, ttl)
  \/ \E k \in Keys : RecencyGet(k) \/ RecencyDelete(k)
  \/ Clock /\ UNCHANGED order

RecencySpec == RecencyInit /\ [][RecencyNext]_recencyVars
=============================================================================
