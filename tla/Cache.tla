------------------------------- MODULE Cache -------------------------------
(***************************************************************************)
(* What the resolver may expect of its cache (src/src/lru.js), whatever the *)
(* replacement policy: a map with expiring entries which forgets an entry  *)
(* only when it expired, was deleted, or had to make room.                 *)
(***************************************************************************)
EXTENDS Integers, FiniteSets

CONSTANTS
  Keys, Values,
  Ttls,       \* time to live of an entry, in clock units; -1 is for ever
  Times,      \* what the clock may show
  Maxes,      \* capacities a cache may be built with; -1 is unbounded
  Absent,     \* "no entry under this key"
  Undefined   \* what set returns, and get and delete when there is no entry

Entries == [value : Values, expiry : Int]

VARIABLES
  max,     \* the capacity
  store,   \* the entry under each key
  now,     \* the clock: it may jump, backwards too
  out      \* what the last call returned

cacheVars == <<max, store, now, out>>

Present == {k \in Keys : store[k] # Absent}

Expiry(ttl) == IF ttl > -1 THEN now + ttl ELSE -1
Expired(e)  == e.expiry > -1 /\ e.expiry < now

Init ==
  /\ max \in Maxes
  /\ store = [k \in Keys |-> Absent]
  /\ now \in Times
  /\ out = Undefined

Store(k, e) == store' = [store EXCEPT ![k] = e]

\* With no room left an entry goes, the new one if there is no other.
Victims(k) == IF Present = {} THEN {k} ELSE Present

Set(k, v, ttl) ==
  LET e == [value |-> v, expiry |-> Expiry(ttl)]
  IN  /\ IF store[k] = Absent /\ max > -1 /\ Cardinality(Present) >= max
         THEN \E d \in Victims(k) : store' = [store EXCEPT ![k] = e, ![d] = Absent]
         ELSE Store(k, e)
      /\ out' = Undefined
      /\ UNCHANGED <<max, now>>

Get(k) ==
  /\ IF store[k] # Absent /\ ~Expired(store[k])
     THEN out' = store[k].value /\ UNCHANGED store
     ELSE out' = Undefined /\ Store(k, Absent)
  /\ UNCHANGED <<max, now>>

\* An expired entry is returned all the same.
Delete(k) ==
  /\ out' = IF store[k] = Absent THEN Undefined ELSE store[k].value
  /\ Store(k, Absent)
  /\ UNCHANGED <<max, now>>

Clock ==
  /\ now' \in Times \ {now}
  /\ UNCHANGED <<max, store, out>>

Next ==
  \/ \E k \in Keys, v \in Values, ttl \in Ttls : Set(k, v, ttl)
  \/ \E k \in Keys : Get(k) \/ Delete(k)
  \/ Clock

Spec == Init /\ [][Next]_cacheVars
=============================================================================
