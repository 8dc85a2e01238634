-------------------------------- MODULE LRU --------------------------------
(***************************************************************************)
(* The cache of src/src/lru.js at the level of its pointers: a circular    *)
(* doubly linked list of elements, most recently used first, and a map     *)
(* from keys to elements.  Every call is one step: nothing in it yields.   *)
(***************************************************************************)
EXTENDS Integers, FiniteSets

CONSTANTS
  Keys, Values, Ttls, Times, Maxes, Absent, Undefined,   \* as in Cache
  Nodes,    \* the elements there may be
  Root,     \* the list's root element
  NoNode    \* null, and the map's undefined

Elements == Nodes \cup {Root}
Entries  == [value : Values, expiry : Int]
Data     == [key : Keys, value : Values, expiry : Int]

ASSUME LRUAssumption ==
  /\ Ttls \subseteq Nat \cup {-1} /\ Times \subseteq Nat /\ Maxes \subseteq Nat \cup {-1}
  /\ Absent \notin Entries
  /\ Root \notin Nodes /\ NoNode \notin Elements

VARIABLES
  max,     \* #max
  list,    \* #list: the links of the elements, those whose list it is, its size
  map,     \* #map
  data,    \* the data of each element
  now, out

vars == <<max, list, map, data, now, out>>

Lists == [prev : [Elements -> Elements \cup {NoNode}],
          next : [Elements -> Elements \cup {NoNode}],
          owned : SUBSET Nodes, size : Int]

TypeOK ==
  /\ max \in Maxes
  /\ list \in Lists /\ list.size >= 0
  /\ map \in [Keys -> Nodes \cup {NoNode}]
  /\ data \in [Nodes -> Data \cup {NoNode}]
  /\ now \in Times
  /\ out \in Values \cup {Undefined}

EmptyList ==
  [prev  |-> [n \in Elements |-> IF n = Root THEN Root ELSE NoNode],
   next  |-> [n \in Elements |-> IF n = Root THEN Root ELSE NoNode],
   owned |-> {}, size |-> 0]

Init ==
  /\ max \in Maxes
  /\ list = EmptyList
  /\ map = [k \in Keys |-> NoNode]
  /\ data = [n \in Nodes |-> NoNode]
  /\ now \in Times
  /\ out = Undefined

-----------------------------------------------------------------------------
(***************************************************************************)
(* class List.  The assignments are applied one after the other, as el and *)
(* at, or their neighbours, may be the same element.                       *)
(***************************************************************************)
\* Mutant: the link back from the next element is not restored.
UnlinkOneWay(l, el) == [l EXCEPT !.next[l.prev[el]] = l.next[el]]

Unlink(l, el) ==
  [l EXCEPT !.next[l.prev[el]] = l.next[el], !.prev[l.next[el]] = l.prev[el]]

LinkAfter(l, el, at) ==
  LET l1 == [l EXCEPT !.prev[el] = at, !.next[el] = l.next[at]]
      l2 == [l1 EXCEPT !.next[at] = el]
  IN  [l2 EXCEPT !.prev[l2.next[el]] = el]

In(l, el) == el \in l.owned \cup {Root}

ListRemove(l, el) ==
  IF el \in l.owned
  THEN [Unlink(l, el) EXCEPT !.next[el] = NoNode, !.prev[el] = NoNode,
                             !.owned = @ \ {el}, !.size = @ - 1]
  ELSE l

\* Mutant: the size is not incremented.
ListInsertUncounted(l, el, at) ==
  IF el # at /\ In(l, at)
  THEN [LinkAfter(l, el, at) EXCEPT !.owned = @ \cup {el}]
  ELSE l

ListInsert(l, el, at) ==
  IF el # at /\ In(l, at)
  THEN [LinkAfter(l, el, at) EXCEPT !.owned = @ \cup {el}, !.size = @ + 1]
  ELSE l

ListMove(l, el, at) ==
  IF In(l, el) /\ el # at /\ el # l.next[at] /\ In(l, at)
  THEN LinkAfter(Unlink(l, el), el, at)
  ELSE l

Back(l) == IF l.size > 0 THEN l.prev[Root] ELSE NoNode

-----------------------------------------------------------------------------
(***************************************************************************)
(* class LRU.                                                              *)
(***************************************************************************)
Expired(d) == d.expiry > -1 /\ d.expiry < now

Set(k, v, ttl) ==
  LET d == [key |-> k, value |-> v, expiry |-> IF ttl > -1 THEN now + ttl ELSE -1]
  IN  /\ \/ /\ map[k] = NoNode
            /\ \E el \in Nodes \ list.owned :
                 LET inserted == ListInsert(list, el, Root)
                     back     == Back(inserted)
                     data1    == [data EXCEPT ![el] = d]
                 IN  /\ data' = data1
                     /\ IF max > -1 /\ max < inserted.size
                        THEN /\ list' = ListRemove(inserted, back)
                             /\ map' = [map EXCEPT ![k] = el, ![data1[back].key] = NoNode]
                        ELSE /\ list' = inserted
                             /\ map' = [map EXCEPT ![k] = el]
         \/ /\ map[k] # NoNode
            /\ list' = ListMove(list, map[k], Root)
            /\ data' = [data EXCEPT ![map[k]] = d]
            /\ UNCHANGED map
      /\ out' = Undefined
      /\ UNCHANGED <<max, now>>

\* Mutant: the element leaves the list and stays in the map.
ForgetHalf(k) ==
  /\ list' = ListRemove(list, map[k])
  /\ UNCHANGED map

Forget(k) ==
  /\ list' = ListRemove(list, map[k])
  /\ map' = [map EXCEPT ![data[map[k]].key] = NoNode]

\* Mutant: the expiry is not looked at.
GetStale(k) ==
  /\ \/ map[k] = NoNode /\ out' = Undefined /\ UNCHANGED list
     \/ map[k] # NoNode /\ list' = ListMove(list, map[k], Root) /\ out' = data[map[k]].value
  /\ UNCHANGED <<max, map, data, now>>

\* Mutant: a hit does not count as a use.
GetUnmoved(k) ==
  /\ \/ map[k] = NoNode /\ out' = Undefined /\ UNCHANGED <<list, map>>
     \/ map[k] # NoNode /\ Expired(data[map[k]]) /\ out' = Undefined /\ Forget(k)
     \/ /\ map[k] # NoNode /\ ~Expired(data[map[k]])
        /\ out' = data[map[k]].value
        /\ UNCHANGED <<list, map>>
  /\ UNCHANGED <<max, data, now>>

Get(k) ==
  /\ \/ map[k] = NoNode /\ out' = Undefined /\ UNCHANGED <<list, map>>
     \/ map[k] # NoNode /\ Expired(data[map[k]]) /\ out' = Undefined /\ Forget(k)
     \/ /\ map[k] # NoNode /\ ~Expired(data[map[k]])
        /\ list' = ListMove(list, map[k], Root)
        /\ out' = data[map[k]].value
        /\ UNCHANGED map
  /\ UNCHANGED <<max, data, now>>

Delete(k) ==
  /\ \/ map[k] = NoNode /\ out' = Undefined /\ UNCHANGED <<list, map>>
     \/ map[k] # NoNode /\ out' = data[map[k]].value /\ Forget(k)
  /\ UNCHANGED <<max, data, now>>

\* Date.now() shows another time, possibly an earlier one.
Clock ==
  /\ now' \in Times \ {now}
  /\ UNCHANGED <<max, list, map, data, out>>

Next ==
  \/ \E k \in Keys, v \in Values, ttl \in Ttls : Set(k, v, ttl)
  \/ \E k \in Keys : Get(k) \/ Delete(k)
  \/ Clock

Spec == Init /\ [][Next]_vars

-----------------------------------------------------------------------------
(***************************************************************************)
(* Properties.                                                             *)
(***************************************************************************)
\* The map and the list hold the same elements, each under its own key.
MapMatchesList ==
  /\ \A k \in Keys : map[k] # NoNode => map[k] \in list.owned /\ data[map[k]].key = k
  /\ \A n \in list.owned : map[data[n].key] = n

\* r numbers the elements of l in the order of its links, the root first.
Numbers(l, r) ==
  /\ r[0] = Root
  /\ \A i \in 1 .. l.size : r[i] \in l.owned
  /\ \A i, j \in 1 .. l.size : r[i] = r[j] => i = j
  /\ \A n \in l.owned : \E i \in 1 .. l.size : r[i] = n
  /\ \A i \in 0 .. l.size - 1 : l.next[r[i]] = r[i + 1] /\ l.prev[r[i + 1]] = r[i]
  /\ l.next[r[l.size]] = Root /\ l.prev[Root] = r[l.size]

Ring(l) == \E r \in [0 .. l.size -> Elements] : Numbers(l, r)

\* The links form one ring: from the root, next leads through every element of the
\* list once and back, prev the other way.  The iterator and back() rely on it.
RingIntact == Ring(list)

\* set() leaves at most max entries, 0 included (line 27).
WithinCapacity == max > -1 => list.size <= max

(***************************************************************************)
(* What the elements stand for.                                            *)
(***************************************************************************)
StoreOf ==
  [k \in Keys |->
     IF map[k] = NoNode THEN Absent
     ELSE [value |-> data[map[k]].value, expiry |-> data[map[k]].expiry]]

\* The keys as the iterator meets their elements, from front() on.
OrderOf ==
  LET at[i \in 1 .. list.size] ==
        IF i = 1 THEN list.next[Root] ELSE list.next[at[i - 1]]
  IN  [i \in 1 .. list.size |-> data[at[i]].key]

CacheOf   == INSTANCE Cache WITH store <- StoreOf
RecencyOf == INSTANCE Recency WITH store <- StoreOf, order <- OrderOf

\* Seen through its calls, the linked list is a map that forgets an entry only
\* when it expired, was deleted, or had to make room.
ImplementsCache == CacheOf!Spec

\* What makes room is always the entry whose last set or hit is the oldest.
ImplementsRecency == RecencyOf!RecencySpec
=============================================================================
