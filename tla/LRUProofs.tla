----------------------------- MODULE LRUProofs -----------------------------
(***************************************************************************)
(* Proofs about LRU, for any keys, values and elements and any capacity.   *)
(***************************************************************************)
EXTENDS LRU, FiniteSetTheorems, SequenceTheorems, WellFoundedInduction, TLAPS

-----------------------------------------------------------------------------
(***************************************************************************)
(* The operations of the list, on any list whose links form a ring.        *)
(***************************************************************************)
IsList(l) == l \in Lists /\ l.size >= 0 /\ Ring(l)

\* A numbering r of n elements after el was put in front, and after the j-th was taken out.
Pushed(r, n, el) ==
  [i \in 0 .. n + 1 |-> IF i = 0 THEN Root ELSE IF i = 1 THEN el ELSE r[i - 1]]

Dropped(r, n, j) == [i \in 0 .. n - 1 |-> IF i < j THEN r[i] ELSE r[i + 1]]

\* What the assignments of LinkAfter come to, el and at being different elements.
LEMMA LinkAfterFields ==
  ASSUME NEW l \in Lists, NEW el \in Elements, NEW at \in Elements, el # at,
         l.next[at] \in Elements
  PROVE  LET m == LinkAfter(l, el, at)
         IN  /\ m \in Lists /\ m.owned = l.owned /\ m.size = l.size
             /\ m.next = [l.next EXCEPT ![el] = l.next[at], ![at] = el]
             /\ m.prev = [l.prev EXCEPT ![el] = at, ![l.next[at]] = el]
<1> DEFINE l1 == [l EXCEPT !.prev[el] = at, !.next[el] = l.next[at]]
           l2 == [l1 EXCEPT !.next[at] = el]
<1>1. /\ l1 \in Lists /\ l1.owned = l.owned /\ l1.size = l.size
      /\ l1.prev = [l.prev EXCEPT ![el] = at]
      /\ l1.next = [l.next EXCEPT ![el] = l.next[at]]
  BY DEF Lists
<1> HIDE DEF l1
<1>2. /\ l2 \in Lists /\ l2.owned = l.owned /\ l2.size = l.size
      /\ l2.prev = l1.prev
      /\ l2.next = [l1.next EXCEPT ![at] = el]
  BY <1>1 DEF Lists
<1>3. l2.next[el] = l.next[at]
  BY <1>1, <1>2 DEF Lists
<1> HIDE DEF l2
<1>4. LET m == [l2 EXCEPT !.prev[l2.next[el]] = el]
      IN  /\ m \in Lists /\ m.owned = l.owned /\ m.size = l.size
          /\ m.next = l2.next
          /\ m.prev = [l2.prev EXCEPT ![l.next[at]] = el]
  BY <1>2, <1>3 DEF Lists
<1>5. LinkAfter(l, el, at) = [l2 EXCEPT !.prev[l2.next[el]] = el]
  BY DEF LinkAfter, l1, l2
<1> QED
  BY <1>1, <1>2, <1>4, <1>5

\* insert(el, root) puts a new element in front of the others.
LEMMA InsertNumbers ==
  ASSUME NEW l, IsList(l), NEW el \in Nodes \ l.owned,
         NEW r \in [0 .. l.size -> Elements], Numbers(l, r)
  PROVE  LET m == ListInsert(l, el, Root)
         IN  /\ IsList(m) /\ m.owned = l.owned \cup {el} /\ m.size = l.size + 1
             /\ Back(m) = IF l.size = 0 THEN el ELSE Back(l)
             /\ Pushed(r, l.size, el) \in [0 .. m.size -> Elements]
             /\ Numbers(m, Pushed(r, l.size, el))
<1> DEFINE m == ListInsert(l, el, Root)
<1>1. Numbers(l, r)
  OBVIOUS
<1>2. l \in Lists /\ l.size \in Nat /\ l.owned \subseteq Nodes
  BY DEF IsList, Lists
<1>3. /\ l.next[Root] \in Elements /\ l.next[Root] # el /\ el # Root
      /\ l.next[Root] = (IF l.size = 0 THEN Root ELSE r[1])
  BY <1>1, <1>2, LRUAssumption DEF Numbers, Elements
<1>4. /\ m \in Lists /\ m.owned = l.owned \cup {el} /\ m.size = l.size + 1
      /\ m.next = [l.next EXCEPT ![el] = l.next[Root], ![Root] = el]
      /\ m.prev = [l.prev EXCEPT ![el] = Root, ![l.next[Root]] = el]
  <2> DEFINE k == LinkAfter(l, el, Root)
  <2>1. /\ k \in Lists /\ k.owned = l.owned /\ k.size = l.size
        /\ k.next = [l.next EXCEPT ![el] = l.next[Root], ![Root] = el]
        /\ k.prev = [l.prev EXCEPT ![el] = Root, ![l.next[Root]] = el]
    <3>1. /\ l \in Lists /\ el \in Elements /\ Root \in Elements /\ el # Root
          /\ l.next[Root] \in Elements
      BY <1>2, <1>3 DEF Elements
    <3> QED
      BY <3>1, LinkAfterFields
  <2>2. m = [k EXCEPT !.owned = l.owned \cup {el}, !.size = l.size + 1]
    BY <1>3, <2>1 DEF ListInsert, In
  <2>3. l.owned \cup {el} \in SUBSET Nodes /\ l.size + 1 \in Int
    BY <1>2
  <2> HIDE DEF k, m
  <2>4. /\ m \in Lists /\ m.prev = k.prev /\ m.next = k.next
        /\ m.owned = l.owned \cup {el} /\ m.size = l.size + 1
    BY <2>1, <2>2, <2>3 DEF Lists
  <2> QED
    BY <2>1, <2>4
<1> HIDE DEF m
<1> DEFINE q == Pushed(r, l.size, el)
<1>5. q \in [0 .. m.size -> Elements]
  BY <1>2, <1>3, <1>4 DEF Elements, Pushed
<1>6. /\ q[0] = Root /\ q[1] = el
      /\ \A i \in 1 .. l.size : q[i + 1] = r[i]
      /\ \A i \in 2 .. l.size + 1 : q[i] = r[i - 1]
  BY <1>2 DEF Pushed
<1> HIDE DEF q
<1>7. Numbers(m, q)
  <2>1. \A i \in 1 .. m.size : q[i] \in m.owned
    BY <1>1, <1>2, <1>4, <1>6 DEF Numbers
  <2>2. \A i, j \in 1 .. m.size : q[i] = q[j] => i = j
    BY <1>1, <1>2, <1>4, <1>6 DEF Numbers
  <2>3. ASSUME NEW n \in m.owned PROVE \E i \in 1 .. m.size : q[i] = n
    <3>1. CASE n = el
      BY <1>2, <1>4, <1>6, <3>1
    <3>2. CASE n \in l.owned
      <4>1. PICK i \in 1 .. l.size : r[i] = n
        BY <1>1, <3>2 DEF Numbers
      <4> QED
        BY <1>2, <1>4, <1>6, <4>1
    <3> QED
      BY <1>4, <3>1, <3>2
  <2>4. ASSUME NEW i \in 0 .. m.size - 1
        PROVE  m.next[q[i]] = q[i + 1] /\ m.prev[q[i + 1]] = q[i]
    <3>1. CASE i = 0
      BY <1>2, <1>3, <1>4, <1>6, <3>1 DEF Lists, Elements
    <3>2. CASE i = 1
      <4>1. l.size > 0 /\ q[i + 1] = r[1] /\ l.next[Root] = r[1]
        BY <1>2, <1>3, <1>4, <1>6, <3>2
      <4> QED
        BY <1>2, <1>3, <1>4, <1>6, <3>2, <4>1 DEF Lists, Elements
    <3>3. CASE i > 1
      <4>1. /\ i - 1 \in 1 .. l.size /\ i \in 1 .. l.size /\ q[i] = r[i - 1] /\ q[i + 1] = r[i]
        BY <1>2, <1>4, <1>6, <3>3
      <4>2. /\ r[i - 1] \in l.owned /\ r[i] \in l.owned
            /\ l.next[r[i - 1]] = r[i] /\ l.prev[r[i]] = r[i - 1]
            /\ l.size > 0 /\ r[i] # r[1]
        BY <1>1, <1>2, <3>3, <4>1 DEF Numbers
      <4> QED
        BY <1>2, <1>3, <1>4, <4>1, <4>2, LRUAssumption DEF Lists, Elements
    <3> QED
      BY <3>1, <3>2, <3>3
  <2>5. m.next[q[m.size]] = Root /\ m.prev[Root] = q[m.size]
    <3>1. CASE l.size = 0
      BY <1>1, <1>2, <1>3, <1>4, <1>6, <3>1 DEF Numbers, Lists, Elements
    <3>2. CASE l.size > 0
      <4>1. q[m.size] = r[l.size] /\ r[l.size] \in l.owned /\ r[1] \in l.owned
        BY <1>1, <1>2, <1>4, <1>6, <3>2 DEF Numbers
      <4> QED
        BY <1>1, <1>2, <1>3, <1>4, <3>2, <4>1, LRUAssumption DEF Numbers, Lists, Elements
    <3> QED
      BY <1>2, <3>1, <3>2
  <2> QED
    BY <1>6, <2>1, <2>2, <2>3, <2>4, <2>5 DEF Numbers
<1>8. Back(m) = IF l.size = 0 THEN el ELSE Back(l)
  <2>1. l.size > 0 => r[1] # Root
    BY <1>1, <1>2, LRUAssumption DEF Numbers, Elements
  <2> QED
    BY <1>1, <1>2, <1>3, <1>4, <2>1 DEF Back, Lists, Elements, Numbers
<1> QED
  BY <1>2, <1>4, <1>5, <1>7, <1>8 DEF IsList, Ring, m, q

LEMMA InsertFront ==
  ASSUME NEW l, IsList(l), NEW el \in Nodes \ l.owned
  PROVE  LET m == ListInsert(l, el, Root)
         IN  /\ IsList(m) /\ m.owned = l.owned \cup {el} /\ m.size = l.size + 1
             /\ Back(m) = IF l.size = 0 THEN el ELSE Back(l)
<1>1. PICK r \in [0 .. l.size -> Elements] : Numbers(l, r)
  BY DEF IsList, Ring
<1> QED
  BY <1>1, InsertNumbers

\* The list without el, before remove() clears its links or move() sets them.
Cut(l, el) == [Unlink(l, el) EXCEPT !.owned = l.owned \ {el}, !.size = l.size - 1]

\* Joining the neighbours of el leaves a ring of the other elements.
LEMMA CutNumbers ==
  ASSUME NEW l, IsList(l), NEW el \in l.owned,
         NEW r \in [0 .. l.size -> Elements], Numbers(l, r), NEW j \in 1 .. l.size, r[j] = el
  PROVE  LET x == Cut(l, el)
         IN  /\ IsList(x) /\ x.owned = l.owned \ {el} /\ x.size = l.size - 1
             /\ Dropped(r, l.size, j) \in [0 .. x.size -> Elements]
             /\ Numbers(x, Dropped(r, l.size, j))
<1> DEFINE x == Cut(l, el)
<1>1. Numbers(l, r)
  OBVIOUS
<1>2. /\ l \in Lists /\ l.size \in Nat /\ l.owned \subseteq Nodes /\ Root \notin l.owned
      /\ el \in Elements
  BY LRUAssumption DEF IsList, Lists, Elements
<1>3. j \in 1 .. l.size /\ r[j] = el
  OBVIOUS
<1> DEFINE succ == IF j = l.size THEN Root ELSE r[j + 1]
<1>4. l.prev[el] = r[j - 1] /\ l.next[el] = succ /\ succ \in Elements /\ r[j - 1] \in Elements
  BY <1>1, <1>2, <1>3 DEF Numbers, Elements
<1>5. \A i, k \in 0 .. l.size : r[i] = r[k] => i = k
  BY <1>1, <1>2 DEF Numbers
<1>6. /\ x \in Lists /\ x.owned = l.owned \ {el} /\ x.size = l.size - 1
      /\ x.next = [l.next EXCEPT ![r[j - 1]] = succ]
      /\ x.prev = [l.prev EXCEPT ![succ] = r[j - 1]]
  <2> DEFINE u == Unlink(l, el)
  <2>1. /\ u \in Lists
        /\ u.next = [l.next EXCEPT ![r[j - 1]] = succ]
        /\ u.prev = [l.prev EXCEPT ![succ] = r[j - 1]]
    BY <1>2, <1>4 DEF Unlink, Lists
  <2>2. x = [u EXCEPT !.owned = l.owned \ {el}, !.size = l.size - 1]
    BY DEF Cut
  <2>3. l.owned \ {el} \in SUBSET Nodes /\ l.size - 1 \in Int
    BY <1>2
  <2> HIDE DEF u, x
  <2> QED
    BY <2>1, <2>2, <2>3 DEF Lists
<1> HIDE DEF x
<1> DEFINE q == Dropped(r, l.size, j)
<1>7. q \in [0 .. x.size -> Elements]
  BY <1>2, <1>3, <1>6 DEF Dropped
<1>8. /\ \A i \in 0 .. j - 1 : q[i] = r[i]
      /\ \A i \in j .. l.size - 1 : q[i] = r[i + 1]
  BY <1>2, <1>3 DEF Dropped
<1> HIDE DEF q
<1>9. Numbers(x, q)
  <2>1. q[0] = Root
    BY <1>1, <1>2, <1>3, <1>8 DEF Numbers
  <2>2. \A i \in 1 .. x.size : q[i] \in x.owned
    BY <1>1, <1>2, <1>3, <1>5, <1>6, <1>8 DEF Numbers
  <2>3. \A i, k \in 1 .. x.size : q[i] = q[k] => i = k
    BY <1>2, <1>3, <1>5, <1>6, <1>8
  <2>4. ASSUME NEW n \in x.owned PROVE \E i \in 1 .. x.size : q[i] = n
    <3>1. PICK k \in 1 .. l.size : r[k] = n
      BY <1>1, <1>6 DEF Numbers
    <3>2. k # j
      BY <1>3, <1>6, <3>1
    <3>3. CASE k < j
      <4>1. q[k] = r[k] /\ k \in 1 .. x.size
        BY <1>2, <1>3, <1>6, <1>8, <3>3
      <4> QED
        BY <3>1, <4>1
    <3>4. CASE k > j
      <4>1. q[k - 1] = r[k] /\ k - 1 \in 1 .. x.size
        BY <1>2, <1>3, <1>6, <1>8, <3>4
      <4> QED
        BY <3>1, <4>1
    <3> QED
      BY <3>2, <3>3, <3>4
  <2>5. ASSUME NEW i \in 0 .. x.size - 1
        PROVE  x.next[q[i]] = q[i + 1] /\ x.prev[q[i + 1]] = q[i]
    <3>1. \A k \in 0 .. l.size : r[k] \in Elements
      BY <1>2
    <3>2. CASE i + 1 < j
      <4>1. /\ q[i] = r[i] /\ q[i + 1] = r[i + 1] /\ r[i] # r[j - 1] /\ r[i + 1] # succ
            /\ l.next[r[i]] = r[i + 1] /\ l.prev[r[i + 1]] = r[i]
        BY <1>1, <1>2, <1>3, <1>5, <1>6, <1>8, <3>2 DEF Numbers
      <4> QED
        BY <1>2, <1>3, <1>6, <3>1, <3>2, <4>1 DEF Lists
    <3>3. CASE i + 1 = j
      <4>1. q[i] = r[j - 1] /\ q[i + 1] = r[j + 1] /\ succ = r[j + 1]
        BY <1>2, <1>3, <1>6, <1>8, <3>3
      <4> QED
        BY <1>2, <1>4, <1>6, <4>1 DEF Lists
    <3>4. CASE i + 1 > j
      <4>1. q[i] = r[i + 1] /\ q[i + 1] = r[i + 2]
        BY <1>2, <1>3, <1>6, <1>8, <3>4
      <4>2. i + 1 \in 0 .. l.size - 1 /\ i + 2 \in 0 .. l.size /\ i + 2 # j /\ i + 2 # j + 1
        BY <1>2, <1>3, <1>6, <3>4
      <4>3. l.next[r[i + 1]] = r[i + 2] /\ l.prev[r[i + 2]] = r[i + 1]
        BY <1>1, <4>2 DEF Numbers
      <4>4. r[i + 1] # r[j - 1] /\ r[i + 2] # succ
        BY <1>1, <1>2, <1>3, <1>5, <3>4, <4>2 DEF Numbers
      <4> QED
        BY <1>2, <1>3, <1>6, <3>1, <3>4, <4>1, <4>2, <4>3, <4>4 DEF Lists
    <3> QED
      BY <1>2, <1>3, <1>6, <3>2, <3>3, <3>4
  <2>6. x.next[q[x.size]] = Root /\ x.prev[Root] = q[x.size]
    <3>1. CASE j = l.size
      <4>1. q[x.size] = r[j - 1] /\ succ = Root
        BY <1>2, <1>3, <1>6, <1>8, <3>1
      <4> QED
        BY <1>2, <1>4, <1>6, <4>1 DEF Lists
    <3>2. CASE j < l.size
      <4>1. q[x.size] = r[l.size]
        BY <1>2, <1>3, <1>6, <1>8, <3>2
      <4>2. succ # Root
        BY <1>1, <1>2, <1>3, <3>2 DEF Numbers
      <4>3. r[l.size] # r[j - 1]
        BY <1>2, <1>3, <1>5, <3>2
      <4> QED
        BY <1>1, <1>2, <1>6, <4>1, <4>2, <4>3 DEF Numbers, Lists, Elements
    <3> QED
      BY <1>2, <1>3, <3>1, <3>2
  <2> QED
    BY <2>1, <2>2, <2>3, <2>4, <2>5, <2>6 DEF Numbers
<1> QED
  BY <1>2, <1>3, <1>6, <1>7, <1>9 DEF IsList, Ring, x, q

\* Every element has its number.
LEMMA Numbered ==
  ASSUME NEW l, IsList(l), NEW el \in l.owned
  PROVE  \E r \in [0 .. l.size -> Elements], j \in 1 .. l.size : Numbers(l, r) /\ r[j] = el
<1>1. PICK r \in [0 .. l.size -> Elements] : Numbers(l, r)
  BY DEF IsList, Ring
<1>2. PICK j \in 1 .. l.size : r[j] = el
  BY <1>1 DEF Numbers
<1> QED
  BY <1>1, <1>2

\* The links of Cut are those of Unlink.
LEMMA CutFields ==
  ASSUME NEW l \in Lists, NEW el \in l.owned, l.prev[el] \in Elements, l.next[el] \in Elements
  PROVE  /\ Unlink(l, el) \in Lists /\ Unlink(l, el).owned = l.owned
         /\ Unlink(l, el).size = l.size
         /\ Cut(l, el) \in Lists
         /\ Cut(l, el).next = Unlink(l, el).next /\ Cut(l, el).prev = Unlink(l, el).prev
<1> DEFINE u == Unlink(l, el)
<1>1. u \in Lists /\ u.owned = l.owned /\ u.size = l.size
  BY DEF Unlink, Lists, Elements
<1>2. Cut(l, el) = [u EXCEPT !.owned = l.owned \ {el}, !.size = l.size - 1]
  BY DEF Cut
<1>3. l.owned \ {el} \in SUBSET Nodes /\ l.size - 1 \in Int
  BY DEF Lists
<1> HIDE DEF u
<1>4. Cut(l, el) \in Lists /\ Cut(l, el).next = u.next /\ Cut(l, el).prev = u.prev
  BY <1>1, <1>2, <1>3 DEF Lists
<1> QED
  BY <1>1, <1>4 DEF u

\* Every element of a list is linked on both sides.
LEMMA Linked ==
  ASSUME NEW l, IsList(l), NEW el \in l.owned
  PROVE  /\ l \in Lists /\ el \in Nodes /\ el # Root
         /\ l.prev[el] \in Elements /\ l.next[el] \in Elements
         /\ l.next[Root] \in Elements
<1>1. PICK r \in [0 .. l.size -> Elements] : Numbers(l, r)
  BY DEF IsList, Ring
<1>2. l \in Lists /\ l.size \in Nat /\ el \in Nodes /\ el # Root
  BY LRUAssumption DEF IsList, Lists, Elements
<1>3. PICK j \in 1 .. l.size : r[j] = el
  BY <1>1 DEF Numbers
<1>4. /\ l.prev[el] = r[j - 1] /\ l.next[el] = (IF j = l.size THEN Root ELSE r[j + 1])
      /\ l.next[Root] = r[1]
  BY <1>1, <1>2, <1>3 DEF Numbers
<1> QED
  BY <1>2, <1>3, <1>4 DEF Elements

\* remove(el) takes el out of the list and leaves a ring.
LEMMA RemoveNumbers ==
  ASSUME NEW l, IsList(l), NEW el \in l.owned,
         NEW r \in [0 .. l.size -> Elements], Numbers(l, r), NEW j \in 1 .. l.size, r[j] = el
  PROVE  LET m == ListRemove(l, el)
         IN  /\ IsList(m) /\ m.owned = l.owned \ {el} /\ m.size = l.size - 1
             /\ Dropped(r, l.size, j) \in [0 .. m.size -> Elements]
             /\ Numbers(m, Dropped(r, l.size, j))
<1> DEFINE q == Dropped(r, l.size, j)
<1> DEFINE m == ListRemove(l, el)
           u == Unlink(l, el)
           x == Cut(l, el)
<1>1. /\ IsList(x) /\ x.owned = l.owned \ {el} /\ x.size = l.size - 1
      /\ q \in [0 .. x.size -> Elements] /\ Numbers(x, q)
  BY CutNumbers
<1> HIDE DEF q
<1>2. /\ u \in Lists /\ u.owned = l.owned /\ u.size = l.size
      /\ x.next = u.next /\ x.prev = u.prev
      /\ el \in Nodes /\ el # Root /\ el \in Elements
  BY Linked, CutFields DEF Elements
<1>3. l.owned \ {el} \in SUBSET Nodes /\ l.size - 1 \in Int
  BY <1>1 DEF IsList, Lists
<1>4. m = [u EXCEPT !.next[el] = NoNode, !.prev[el] = NoNode,
                    !.owned = l.owned \ {el}, !.size = l.size - 1]
  BY <1>2 DEF ListRemove
<1> HIDE DEF m, u, x
<1>5. /\ m \in Lists /\ m.owned = x.owned /\ m.size = x.size
      /\ m.next = [x.next EXCEPT ![el] = NoNode] /\ m.prev = [x.prev EXCEPT ![el] = NoNode]
  BY <1>1, <1>2, <1>3, <1>4 DEF Lists
<1>6. \A i \in 0 .. x.size : q[i] # el /\ q[i] \in Elements
  <2>1. \A i \in 0 .. x.size : i = 0 \/ i \in 1 .. x.size
    BY <1>1 DEF IsList, Lists
  <2>2. q[0] = Root /\ \A i \in 1 .. x.size : q[i] \in x.owned
    BY <1>1 DEF Numbers
  <2>3. \A i \in 0 .. x.size : q[i] \in Elements
    BY <1>1
  <2> QED
    BY <1>1, <1>2, <2>1, <2>2, <2>3
<1>7. Numbers(m, q)
  BY <1>1, <1>2, <1>5, <1>6 DEF Numbers, Lists, IsList, Elements
<1> QED
  BY <1>1, <1>5, <1>7 DEF IsList, Ring, m, q

LEMMA RemoveRing ==
  ASSUME NEW l, IsList(l), NEW el \in l.owned
  PROVE  LET m == ListRemove(l, el)
         IN  IsList(m) /\ m.owned = l.owned \ {el} /\ m.size = l.size - 1
BY Numbered, RemoveNumbers

\* move(el, root) keeps the elements, and leaves a ring.
LEMMA MoveNumbers ==
  ASSUME NEW l, IsList(l), NEW el \in l.owned,
         NEW r \in [0 .. l.size -> Elements], Numbers(l, r), NEW j \in 1 .. l.size, r[j] = el
  PROVE  LET m == ListMove(l, el, Root)
             p == Pushed(Dropped(r, l.size, j), l.size - 1, el)
         IN  /\ IsList(m) /\ m.owned = l.owned /\ m.size = l.size
             /\ p \in [0 .. l.size -> Elements] /\ Numbers(m, p)
<1> DEFINE q == Dropped(r, l.size, j)
           p == Pushed(q, l.size - 1, el)
<1>0. l.size \in Nat
  BY DEF IsList, Lists
<1>1. CASE el = l.next[Root]
  <2>1. j = 1 /\ ListMove(l, el, Root) = l
    <3>1. l.next[Root] = r[1]
      BY <1>0 DEF Numbers
    <3>2. 1 \in 1 .. l.size
      BY <1>0
    <3>3. j = 1
      BY <1>1, <3>1, <3>2 DEF Numbers
    <3> QED
      BY <1>1, <3>3 DEF ListMove
  <2>2. \A i \in 1 .. l.size - 1 : q[i] = r[i + 1]
    BY <1>0, <2>1 DEF Dropped
  <2>3. \A i \in 0 .. l.size : p[i] = IF i = 0 THEN Root ELSE IF i = 1 THEN el ELSE q[i - 1]
    <3>1. l.size - 1 + 1 = l.size
      BY <1>0
    <3> HIDE DEF q
    <3> QED
      BY <3>1 DEF Pushed
  <2>4. ASSUME NEW i \in 0 .. l.size PROVE p[i] = r[i]
    <3>1. CASE i = 0 \/ i = 1
      BY <2>1, <2>3, <3>1 DEF Numbers
    <3>2. CASE i > 1
      <4>1. i - 1 \in 1 .. l.size - 1 /\ (i - 1) + 1 = i
        BY <1>0, <3>2
      <4> HIDE DEF p, q
      <4>2. p[i] = q[i - 1] /\ q[i - 1] = r[(i - 1) + 1]
        BY <2>2, <2>3, <3>2, <4>1
      <4> QED
        BY <4>1, <4>2
    <3> QED
      BY <3>1, <3>2
  <2>5. p = r
    <3>1. p = [i \in 0 .. l.size |-> p[i]]
      BY <1>0 DEF Pushed
    <3> HIDE DEF p
    <3> QED
      BY <2>4, <3>1
  <2> QED
    BY <2>1, <2>5
<1>2. CASE el # l.next[Root]
  <2> DEFINE m == ListMove(l, el, Root)
             u == Unlink(l, el)
             x == Cut(l, el)
             y == ListInsert(x, el, Root)
  <2>1. /\ IsList(x) /\ x.owned = l.owned \ {el} /\ x.size = l.size - 1
        /\ q \in [0 .. x.size -> Elements] /\ Numbers(x, q)
    BY CutNumbers
  <2> HIDE DEF q
  <2>2. /\ u \in Lists /\ u.owned = l.owned /\ u.size = l.size
        /\ x.next = u.next /\ x.prev = u.prev
        /\ el \in Nodes /\ el # Root
    BY Linked, CutFields
  <2>3. /\ IsList(y) /\ y.owned = l.owned /\ y.size = l.size
        /\ p \in [0 .. l.size -> Elements] /\ Numbers(y, p)
    <3>1. el \in Nodes \ x.owned /\ l.size \in Int
      BY <2>1, <2>2 DEF IsList, Lists
    <3>2. /\ IsList(y) /\ y.owned = x.owned \cup {el} /\ y.size = x.size + 1
          /\ p \in [0 .. y.size -> Elements] /\ Numbers(y, p)
      <4> HIDE DEF x
      <4> QED
        BY <2>1, <3>1, InsertNumbers
    <3> QED
      BY <2>1, <3>1, <3>2
  <2>4. m = LinkAfter(u, el, Root)
    BY <1>2, <2>2 DEF ListMove, In
  <2>5. x.next[Root] \in Elements /\ x \in Lists
    <3> HIDE DEF x
    <3> QED
      BY <2>1 DEF Numbers, IsList, Lists, Elements
  <2>6. /\ y.next = [x.next EXCEPT ![el] = x.next[Root], ![Root] = el]
        /\ y.prev = [x.prev EXCEPT ![el] = Root, ![x.next[Root]] = el]
    <3> DEFINE z == LinkAfter(x, el, Root)
    <3> HIDE DEF x
    <3>1. /\ z \in Lists
          /\ z.next = [x.next EXCEPT ![el] = x.next[Root], ![Root] = el]
          /\ z.prev = [x.prev EXCEPT ![el] = Root, ![x.next[Root]] = el]
      BY <2>2, <2>5, LinkAfterFields DEF Elements
    <3>2. y = [z EXCEPT !.owned = z.owned \cup {el}, !.size = z.size + 1]
      BY <2>2 DEF ListInsert, In
    <3> HIDE DEF y, z
    <3> QED
      BY <3>1, <3>2 DEF Lists
  <2> HIDE DEF m, u, x, y, p
  <2>7. /\ m \in Lists /\ m.owned = u.owned /\ m.size = u.size
        /\ m.next = [u.next EXCEPT ![el] = u.next[Root], ![Root] = el]
        /\ m.prev = [u.prev EXCEPT ![el] = Root, ![u.next[Root]] = el]
    BY <2>2, <2>4, <2>5, LinkAfterFields DEF Elements
  <2>8. /\ m.next = y.next /\ m.prev = y.prev /\ m.owned = y.owned /\ m.size = y.size
    BY <2>2, <2>3, <2>6, <2>7
  <2>9. Numbers(m, p)
    BY <2>3, <2>8 DEF Numbers
  <2>10. IsList(m)
    BY <2>3, <2>7, <2>8, <2>9 DEF IsList, Ring
  <2> QED
    BY <2>3, <2>8, <2>9, <2>10 DEF m, p, q
<1> QED
  BY <1>1, <1>2

LEMMA MoveRing ==
  ASSUME NEW l, IsList(l), NEW el \in l.owned
  PROVE  LET m == ListMove(l, el, Root)
         IN  IsList(m) /\ m.owned = l.owned /\ m.size = l.size
BY Numbered, MoveNumbers

\* back() of a list that is not empty is one of its elements, never the root.
LEMMA BackIsOwned ==
  ASSUME NEW l, IsList(l), l.size > 0
  PROVE  Back(l) \in l.owned
<1>1. PICK r \in [0 .. l.size -> Elements] : Numbers(l, r)
  BY DEF IsList, Ring
<1>2. l.prev[Root] = r[l.size] /\ l.size \in 1 .. l.size
  BY <1>1 DEF Numbers, IsList, Lists
<1> QED
  BY <1>1, <1>2 DEF Numbers, Back

-----------------------------------------------------------------------------
(***************************************************************************)
(* The cache.  The list is a ring, the map and the list agree, and there   *)
(* is room for every element: together they are inductive.                 *)
(***************************************************************************)
Owned == \A n \in list.owned : data[n] \in Data

CacheInv == TypeOK /\ Owned /\ IsList(list) /\ MapMatchesList /\ WithinCapacity

\* An empty cache satisfies the invariant.
LEMMA CacheInit == Init => CacheInv
<1> SUFFICES ASSUME Init PROVE CacheInv
  OBVIOUS
<1>1. list \in Lists /\ list.size = 0 /\ list.owned = {}
  BY DEF Init, EmptyList, Lists, Elements
<1>2. Ring(list)
  <2> DEFINE r == [i \in 0 .. 0 |-> Root]
  <2>1. r \in [0 .. list.size -> Elements]
    BY <1>1 DEF Elements
  <2>2. list.next[Root] = Root /\ list.prev[Root] = Root
    BY DEF Init, EmptyList, Elements
  <2>3. Numbers(list, r)
    BY <1>1, <2>2 DEF Numbers
  <2> QED
    BY <2>1, <2>3 DEF Ring
<1>3. TypeOK /\ Owned /\ MapMatchesList /\ WithinCapacity
  BY <1>1, LRUAssumption DEF Init, TypeOK, Owned, MapMatchesList, WithinCapacity
<1> QED
  BY <1>1, <1>2, <1>3 DEF CacheInv, IsList

\* What set() gives an element.
LEMMA NewData ==
  ASSUME TypeOK, NEW k \in Keys, NEW v \in Values, NEW ttl \in Ttls
  PROVE  [key |-> k, value |-> v, expiry |-> IF ttl > -1 THEN now + ttl ELSE -1] \in Data
BY LRUAssumption DEF TypeOK, Data

\* A key that is in the cache leads to an element of the list, and to no other.
LEMMA Cached ==
  ASSUME CacheInv, NEW k \in Keys, map[k] # NoNode
  PROVE  /\ map[k] \in list.owned /\ map[k] \in Nodes /\ data[map[k]].key = k
         /\ data[map[k]] \in Data
BY LRUAssumption DEF CacheInv, TypeOK, Owned, MapMatchesList, Lists

\* set() keeps the invariant, also when it makes room (lines 20-37).
LEMMA SetStep ==
  ASSUME CacheInv, NEW k \in Keys, NEW v \in Values, NEW ttl \in Ttls, Set(k, v, ttl)
  PROVE  CacheInv'
<1> DEFINE d == [key |-> k, value |-> v, expiry |-> IF ttl > -1 THEN now + ttl ELSE -1]
<1>1. d \in Data /\ d.key = k
  BY NewData DEF CacheInv
<1> HIDE DEF d
<1>2. max' = max /\ now' = now /\ out' = Undefined
  BY DEF Set
<1>3. CASE map[k] = NoNode
  <2>1. PICK el \in Nodes \ list.owned :
          LET inserted == ListInsert(list, el, Root)
              back     == Back(inserted)
              data1    == [data EXCEPT ![el] = d]
          IN  /\ data' = data1
              /\ IF max > -1 /\ max < inserted.size
                 THEN /\ list' = ListRemove(inserted, back)
                      /\ map' = [map EXCEPT ![k] = el, ![data1[back].key] = NoNode]
                 ELSE /\ list' = inserted
                      /\ map' = [map EXCEPT ![k] = el]
    BY <1>3 DEF Set, d
  <2> DEFINE inserted == ListInsert(list, el, Root)
             back     == Back(inserted)
  <2>2. /\ IsList(inserted)
        /\ inserted.owned = list.owned \cup {el} /\ inserted.size = list.size + 1
    BY InsertFront DEF CacheInv
  <2>3. list.size \in Nat /\ inserted.size > 0
    BY <2>2 DEF CacheInv, IsList, Lists
  <2>4. back \in list.owned \cup {el}
    BY <2>2, <2>3, BackIsOwned
  <2>5. /\ data' = [data EXCEPT ![el] = d]
        /\ data' \in [Nodes -> Data \cup {NoNode}]
        /\ \A n \in list.owned \cup {el} : data'[n] \in Data
        /\ data'[el] = d /\ \A n \in list.owned : data'[n] = data[n]
    BY <1>1, <2>1 DEF CacheInv, TypeOK, Owned, Lists
  <2>6. /\ \A n \in list.owned : data[n].key \in Keys /\ data[n].key # k
        /\ \A n \in list.owned : map[data[n].key] = n
        /\ list.owned \subseteq Nodes /\ NoNode \notin Nodes
    BY <1>3, LRUAssumption DEF CacheInv, MapMatchesList, Owned, Data, IsList, Lists, Elements
  <2>7. CASE max > -1 /\ max < inserted.size
    <3>1. /\ list' = ListRemove(inserted, back)
          /\ map' = [map EXCEPT ![k] = el, ![data'[back].key] = NoNode]
      BY <2>1, <2>7
    <3> HIDE DEF inserted, back
    <3>2. IsList(list') /\ list'.owned = (list.owned \cup {el}) \ {back} /\ list'.size = list.size
      BY <2>2, <2>3, <2>4, <3>1, RemoveRing
    <3>3. TypeOK'
      BY <1>2, <2>4, <2>5, <2>6, <3>1, <3>2, <1>1 DEF CacheInv, TypeOK, IsList, Data
    <3>4. Owned' /\ WithinCapacity'
      BY <1>2, <2>5, <3>2 DEF CacheInv, Owned, WithinCapacity
    <3>5. MapMatchesList'
      <4>1. ASSUME NEW j \in Keys, map'[j] # NoNode
            PROVE  map'[j] \in list'.owned /\ data'[map'[j]].key = j
        BY <1>1, <2>4, <2>5, <2>6, <3>1, <3>2, <4>1 DEF CacheInv, TypeOK, MapMatchesList, Data
      <4>2. ASSUME NEW n \in list'.owned PROVE map'[data'[n].key] = n
        BY <1>1, <2>4, <2>5, <2>6, <3>1, <3>2 DEF CacheInv, TypeOK, MapMatchesList, Data
      <4> QED
        BY <4>1, <4>2 DEF MapMatchesList
    <3> QED
      BY <3>2, <3>3, <3>4, <3>5 DEF CacheInv
  <2>8. CASE ~(max > -1 /\ max < inserted.size)
    <3>1. list' = inserted /\ map' = [map EXCEPT ![k] = el]
      BY <2>1, <2>8
    <3>2. TypeOK'
      BY <1>2, <2>2, <2>5, <3>1 DEF CacheInv, TypeOK, IsList
    <3>3. Owned' /\ WithinCapacity'
      BY <1>2, <2>2, <2>3, <2>5, <2>8, <3>1, LRUAssumption
         DEF CacheInv, Owned, WithinCapacity, TypeOK
    <3>4. MapMatchesList'
      BY <1>1, <2>2, <2>5, <2>6, <3>1 DEF CacheInv, TypeOK, MapMatchesList, Data
    <3> QED
      BY <2>2, <3>1, <3>2, <3>3, <3>4 DEF CacheInv
  <2> QED
    BY <2>7, <2>8
<1>4. CASE map[k] # NoNode
  <2>1. /\ list' = ListMove(list, map[k], Root)
        /\ data' = [data EXCEPT ![map[k]] = d]
        /\ map' = map
    BY <1>4 DEF Set, d
  <2>2. map[k] \in list.owned /\ map[k] \in Nodes /\ data[map[k]].key = k
    BY <1>4, Cached
  <2>3. IsList(list') /\ list'.owned = list.owned /\ list'.size = list.size
    BY <2>1, <2>2, MoveRing DEF CacheInv
  <2>4. TypeOK' /\ Owned' /\ WithinCapacity'
    BY <1>1, <1>2, <2>1, <2>2, <2>3 DEF CacheInv, TypeOK, Owned, WithinCapacity, IsList
  <2>5. MapMatchesList'
    BY <1>1, <2>1, <2>2, <2>3 DEF CacheInv, TypeOK, MapMatchesList, IsList, Lists
  <2> QED
    BY <2>3, <2>4, <2>5 DEF CacheInv
<1> QED
  BY <1>3, <1>4

\* Forgetting a key takes the same element out of the list and out of the map.
LEMMA ForgetStep ==
  ASSUME CacheInv, NEW k \in Keys, map[k] # NoNode, Forget(k),
         max' = max, now' = now, data' = data, out' \in Values \cup {Undefined}
  PROVE  CacheInv'
<1>1. /\ map[k] \in list.owned /\ map[k] \in Nodes /\ data[map[k]].key = k
  BY Cached
<1>2. /\ IsList(list') /\ list'.owned = list.owned \ {map[k]} /\ list'.size = list.size - 1
  BY <1>1, RemoveRing DEF Forget, CacheInv
<1>3. map' = [map EXCEPT ![k] = NoNode]
  BY <1>1 DEF Forget
<1>4. TypeOK' /\ Owned'
  BY <1>1, <1>2, <1>3 DEF CacheInv, TypeOK, Owned, IsList
<1>5. WithinCapacity'
  BY <1>2, LRUAssumption DEF CacheInv, WithinCapacity, TypeOK, Lists
<1>6. MapMatchesList'
  <2>1. ASSUME NEW j \in Keys, map'[j] # NoNode
        PROVE  map'[j] \in list'.owned /\ data'[map'[j]].key = j
    <3>1. j # k /\ map'[j] = map[j]
      BY <1>3, <2>1 DEF CacheInv, TypeOK
    <3> QED
      BY <1>1, <1>2, <2>1, <3>1, Cached
  <2>2. ASSUME NEW n \in list'.owned PROVE map'[data'[n].key] = n
    <3>1. n \in list.owned /\ n # map[k] /\ map[data[n].key] = n /\ data[n].key \in Keys
      BY <1>2, <2>2 DEF CacheInv, MapMatchesList, Owned, Data
    <3> QED
      BY <1>1, <1>3, <3>1 DEF CacheInv, TypeOK
  <2> QED
    BY <2>1, <2>2 DEF MapMatchesList
<1> QED
  BY <1>2, <1>4, <1>5, <1>6 DEF CacheInv

\* A step that leaves the elements and the map alone keeps the invariant.
LEMMA SameElements ==
  ASSUME CacheInv, IsList(list'), list'.owned = list.owned, list'.size = list.size,
         max' = max, map' = map, data' = data,
         now' \in Times, out' \in Values \cup {Undefined}
  PROVE  CacheInv'
BY DEF CacheInv, TypeOK, Owned, MapMatchesList, WithinCapacity, IsList

\* get() keeps the invariant: it removes, moves to the front, or does nothing (lines 39-51).
LEMMA GetStep ==
  ASSUME CacheInv, NEW k \in Keys, Get(k)
  PROVE  CacheInv'
<1>1. max' = max /\ data' = data /\ now' = now /\ now \in Times
  BY DEF Get, CacheInv, TypeOK
<1>2. CASE map[k] = NoNode
  BY <1>1, <1>2, SameElements DEF Get, CacheInv
<1>3. CASE map[k] # NoNode /\ Expired(data[map[k]])
  <2>1. Forget(k) /\ out' = Undefined
    BY <1>3 DEF Get
  <2> QED
    BY <1>1, <1>3, <2>1, ForgetStep
<1>4. CASE map[k] # NoNode /\ ~Expired(data[map[k]])
  <2>1. list' = ListMove(list, map[k], Root) /\ out' = data[map[k]].value /\ map' = map
    BY <1>4 DEF Get
  <2>2. IsList(list') /\ list'.owned = list.owned /\ list'.size = list.size
    BY <1>4, <2>1, Cached, MoveRing DEF CacheInv
  <2>3. out' \in Values
    BY <1>4, <2>1, Cached DEF Data
  <2> QED
    BY <1>1, <2>1, <2>2, <2>3, SameElements
<1> QED
  BY <1>2, <1>3, <1>4

\* delete() keeps the invariant (lines 53-61).
LEMMA DeleteStep ==
  ASSUME CacheInv, NEW k \in Keys, Delete(k)
  PROVE  CacheInv'
<1>1. max' = max /\ data' = data /\ now' = now /\ now \in Times
  BY DEF Delete, CacheInv, TypeOK
<1>2. CASE map[k] = NoNode
  BY <1>1, <1>2, SameElements DEF Delete, CacheInv
<1>3. CASE map[k] # NoNode
  <2>1. Forget(k) /\ out' = data[map[k]].value
    BY <1>3 DEF Delete
  <2>2. out' \in Values
    BY <1>3, <2>1, Cached DEF Data
  <2> QED
    BY <1>1, <1>3, <2>1, <2>2, ForgetStep
<1> QED
  BY <1>2, <1>3

\* Every step of the cache keeps the invariant.
LEMMA CacheStep == CacheInv /\ [Next]_vars => CacheInv'
<1> SUFFICES ASSUME CacheInv, [Next]_vars PROVE CacheInv'
  OBVIOUS
<1>1. ASSUME NEW k \in Keys, NEW v \in Values, NEW ttl \in Ttls, Set(k, v, ttl)
      PROVE  CacheInv'
  BY <1>1, SetStep
<1>2. ASSUME NEW k \in Keys, Get(k) PROVE CacheInv'
  BY <1>2, GetStep
<1>3. ASSUME NEW k \in Keys, Delete(k) PROVE CacheInv'
  BY <1>3, DeleteStep
<1>4. CASE Clock
  BY <1>4, SameElements DEF Clock, CacheInv, TypeOK
<1>5. CASE UNCHANGED vars
  BY <1>5, SameElements DEF vars, CacheInv, TypeOK
<1> QED
  BY <1>1, <1>2, <1>3, <1>4, <1>5 DEF Next

\* The inductive invariant holds in every behaviour.
LEMMA CacheAlways == Spec => []CacheInv
<1> QED
  BY CacheInit, CacheStep, PTL DEF Spec

\* The state of the cache is always of its type.
THEOREM TypeCorrect == Spec => []TypeOK
<1>1. CacheInv => TypeOK
  BY DEF CacheInv
<1> QED
  BY <1>1, CacheAlways, PTL

\* The relinking of insert, remove and move (lru.js lines 99 to 130) never breaks the
\* ring, whichever elements happen to be neighbours.
THEOREM RingStaysIntact == Spec => []RingIntact
<1>1. CacheInv => RingIntact
  BY DEF CacheInv, IsList, RingIntact
<1> QED
  BY <1>1, CacheAlways, PTL

\* The map never leads to an element out of the list, nor misses one in it.
THEOREM MapAndListAgree == Spec => []MapMatchesList
<1>1. CacheInv => MapMatchesList
  BY DEF CacheInv
<1> QED
  BY <1>1, CacheAlways, PTL

\* The cache never holds more than max entries.
THEOREM CapacityRespected == Spec => []WithinCapacity
<1>1. CacheInv => WithinCapacity
  BY DEF CacheInv
<1> QED
  BY <1>1, CacheAlways, PTL

-----------------------------------------------------------------------------
(***************************************************************************)
(* The linked list implements the abstract cache.                          *)
(***************************************************************************)
\* The entry under a key is there exactly when the map leads to an element.
LEMMA Stored ==
  ASSUME CacheInv
  PROVE  /\ StoreOf \in [Keys -> Entries \cup {Absent}]
         /\ \A k \in Keys : map[k] = NoNode => StoreOf[k] = Absent
         /\ \A k \in Keys : map[k] # NoNode =>
              /\ StoreOf[k] = [value |-> data[map[k]].value, expiry |-> data[map[k]].expiry]
              /\ StoreOf[k] # Absent
<1>1. ASSUME NEW k \in Keys, map[k] # NoNode
      PROVE  [value |-> data[map[k]].value, expiry |-> data[map[k]].expiry] \in Entries
  BY <1>1, Cached DEF Data, Entries
<1> QED
  BY <1>1, LRUAssumption DEF StoreOf

\* The size of the list is the number of entries there are.
LEMMA SizeIsCount ==
  ASSUME CacheInv
  PROVE  CacheOf!Cardinality(CacheOf!Present) = list.size
<1>0. CacheOf!Cardinality(CacheOf!Present) = Cardinality(CacheOf!Present)
  BY DEF CacheOf!Cardinality, Cardinality
<1>1. PICK r \in [0 .. list.size -> Elements] : Numbers(list, r)
  BY DEF CacheInv, IsList, Ring
<1>2. list.size \in Nat
  BY DEF CacheInv, IsList, Lists
<1>3. CacheOf!Present = {k \in Keys : map[k] # NoNode}
  BY Stored DEF CacheOf!Present
<1> DEFINE f == [i \in 1 .. list.size |-> data[r[i]].key]
<1>4. \A n \in list.owned : data[n].key \in Keys /\ map[data[n].key] = n /\ n # NoNode
  BY LRUAssumption DEF CacheInv, Owned, Data, MapMatchesList, IsList, Lists, Elements
<1>5. \A i \in 1 .. list.size : r[i] \in list.owned /\ f[i] = data[r[i]].key
  BY <1>1 DEF Numbers
<1> HIDE DEF f
<1>6. f \in [1 .. list.size -> CacheOf!Present]
  BY <1>3, <1>4, <1>5 DEF f
<1>7. ASSUME NEW i \in 1 .. list.size, NEW j \in 1 .. list.size, f[i] = f[j] PROVE i = j
  <2>1. r[i] = r[j]
    BY <1>4, <1>5, <1>7
  <2> QED
    BY <1>1, <2>1 DEF Numbers
<1>8. ASSUME NEW k \in CacheOf!Present PROVE \E i \in 1 .. list.size : f[i] = k
  <2>1. map[k] \in list.owned /\ data[map[k]].key = k
    BY <1>3, <1>8, Cached
  <2> QED
    BY <1>1, <1>5, <2>1 DEF Numbers
<1>9. f \in Bijection(1 .. list.size, CacheOf!Present)
  BY <1>6, <1>7, <1>8 DEF Bijection, Injection, Surjection, IsInjective
<1> QED
  BY <1>0, <1>2, <1>9, FS_CountingElements DEF ExistsBijection

\* What removing an element does to the abstract store.
LEMMA ForgetStores ==
  ASSUME CacheInv, CacheInv', NEW k \in Keys, map[k] # NoNode, Forget(k), data' = data
  PROVE  StoreOf' = [StoreOf EXCEPT ![k] = Absent]
<1>1. map' = [map EXCEPT ![k] = NoNode]
  BY Cached DEF Forget
<1>2. /\ StoreOf \in [Keys -> Entries \cup {Absent}]
      /\ StoreOf' = [j \in Keys |-> StoreOf'[j]]
  BY Stored DEF StoreOf
<1>3. ASSUME NEW j \in Keys PROVE StoreOf'[j] = [StoreOf EXCEPT ![k] = Absent][j]
  BY <1>1, <1>2 DEF CacheInv, TypeOK, StoreOf
<1> QED
  BY <1>2, <1>3

\* set() of a key that is not there: what becomes of the list, its data and the store.
LEMMA SetNew ==
  ASSUME CacheInv, CacheInv', NEW k \in Keys, NEW v \in Values, NEW ttl \in Ttls,
         Set(k, v, ttl), map[k] = NoNode
  PROVE  \E el \in Nodes \ list.owned :
           LET inserted == ListInsert(list, el, Root)
               back     == IF list.size = 0 THEN el ELSE Back(list)
               e        == [value |-> v, expiry |-> CacheOf!Expiry(ttl)]
           IN  /\ data'[el].key = k
               /\ \A n \in list.owned : data'[n] = data[n]
               /\ IF max > -1 /\ max < list.size + 1
                  THEN /\ list' = ListRemove(inserted, back)
                       /\ StoreOf' = [StoreOf EXCEPT ![k] = e, ![data'[back].key] = Absent]
                  ELSE list' = inserted /\ StoreOf' = [StoreOf EXCEPT ![k] = e]
<1> DEFINE d == [key |-> k, value |-> v, expiry |-> IF ttl > -1 THEN now + ttl ELSE -1]
           e == [value |-> v, expiry |-> CacheOf!Expiry(ttl)]
<1>1. d \in Data /\ d.key = k /\ e = [value |-> d.value, expiry |-> d.expiry]
  BY NewData DEF CacheInv, CacheOf!Expiry
<1> HIDE DEF d, e
<1>2. PICK el \in Nodes \ list.owned :
        LET inserted == ListInsert(list, el, Root)
            back     == Back(inserted)
            data1    == [data EXCEPT ![el] = d]
        IN  /\ data' = data1
            /\ IF max > -1 /\ max < inserted.size
               THEN /\ list' = ListRemove(inserted, back)
                    /\ map' = [map EXCEPT ![k] = el, ![data1[back].key] = NoNode]
               ELSE /\ list' = inserted
                    /\ map' = [map EXCEPT ![k] = el]
  BY DEF Set, d
<1> DEFINE inserted == ListInsert(list, el, Root)
           back     == IF list.size = 0 THEN el ELSE Back(list)
           b        == data'[back].key
<1>3. inserted.size = list.size + 1 /\ Back(inserted) = back
  BY InsertFront DEF CacheInv
<1>4. /\ data' = [data EXCEPT ![el] = d] /\ data'[el] = d /\ el # NoNode
      /\ \A n \in list.owned : data'[n] = data[n]
      /\ \A j \in Keys : map[j] # NoNode => data'[map[j]] = data[map[j]] /\ map[j] # el
  BY <1>2, Cached, LRUAssumption DEF CacheInv, TypeOK, Elements
<1>5. /\ StoreOf \in [Keys -> Entries \cup {Absent}]
      /\ StoreOf' = [j \in Keys |-> StoreOf'[j]]
  BY Stored DEF StoreOf
<1> HIDE DEF inserted, back, b
<1>6. CASE max > -1 /\ max < list.size + 1
  <2>1. map' = [map EXCEPT ![k] = el, ![b] = NoNode] /\ list' = ListRemove(inserted, back)
    BY <1>2, <1>3, <1>6 DEF inserted, b
  <2>2. \A j \in Keys : StoreOf'[j] = [StoreOf EXCEPT ![k] = e, ![b] = Absent][j]
    BY <1>1, <1>4, <1>5, <2>1 DEF CacheInv, TypeOK, StoreOf
  <2>3. StoreOf' = [StoreOf EXCEPT ![k] = e, ![b] = Absent]
    BY <1>5, <2>2
  <2> QED
    BY <1>1, <1>4, <1>6, <2>1, <2>3 DEF inserted, back, b, e
<1>7. CASE ~(max > -1 /\ max < list.size + 1)
  <2>1. map' = [map EXCEPT ![k] = el] /\ list' = inserted
    BY <1>2, <1>3, <1>7 DEF inserted
  <2>2. \A j \in Keys : StoreOf'[j] = [StoreOf EXCEPT ![k] = e][j]
    BY <1>1, <1>4, <1>5, <2>1 DEF CacheInv, TypeOK, StoreOf
  <2>3. StoreOf' = [StoreOf EXCEPT ![k] = e]
    BY <1>5, <2>2
  <2> QED
    BY <1>1, <1>4, <1>7, <2>1, <2>3 DEF inserted, e
<1> QED
  BY <1>6, <1>7

\* set() of a key that is there replaces its entry.
LEMMA SetOld ==
  ASSUME CacheInv, CacheInv', NEW k \in Keys, NEW v \in Values, NEW ttl \in Ttls,
         Set(k, v, ttl), map[k] # NoNode
  PROVE  /\ list' = ListMove(list, map[k], Root)
         /\ \A n \in list.owned : data'[n].key = data[n].key
         /\ StoreOf' = [StoreOf EXCEPT ![k] = [value |-> v, expiry |-> CacheOf!Expiry(ttl)]]
<1> DEFINE d == [key |-> k, value |-> v, expiry |-> IF ttl > -1 THEN now + ttl ELSE -1]
           e == [value |-> v, expiry |-> CacheOf!Expiry(ttl)]
<1>1. d \in Data /\ d.key = k /\ e = [value |-> d.value, expiry |-> d.expiry]
  BY NewData DEF CacheInv, CacheOf!Expiry
<1>2. /\ data' = [data EXCEPT ![map[k]] = d] /\ map' = map
      /\ list' = ListMove(list, map[k], Root)
  BY DEF Set
<1> HIDE DEF d, e
<1>3. /\ StoreOf \in [Keys -> Entries \cup {Absent}]
      /\ StoreOf' = [j \in Keys |-> StoreOf'[j]]
  BY Stored DEF StoreOf
<1>4. \A j \in Keys : StoreOf'[j] = [StoreOf EXCEPT ![k] = e][j]
  BY <1>1, <1>2, <1>3, Cached DEF CacheInv, TypeOK, StoreOf
<1>5. \A n \in list.owned : data'[n].key = data[n].key
  BY <1>1, <1>2, Cached DEF CacheInv, TypeOK, IsList, Lists
<1> QED
  BY <1>2, <1>3, <1>4, <1>5 DEF e

\* set() of the list is set() of the abstract cache.
LEMMA SetImplements ==
  ASSUME CacheInv, CacheInv', NEW k \in Keys, NEW v \in Values, NEW ttl \in Ttls, Set(k, v, ttl)
  PROVE  CacheOf!Set(k, v, ttl)
<1> DEFINE e == [value |-> v, expiry |-> CacheOf!Expiry(ttl)]
<1>1. max' = max /\ now' = now /\ out' = Undefined
  BY DEF Set
<1>2. /\ max \in Int /\ list.size \in Nat /\ CacheOf!Cardinality(CacheOf!Present) = list.size
  BY SizeIsCount, LRUAssumption DEF CacheInv, TypeOK, IsList, Lists
<1>3. CASE map[k] = NoNode
  <2> DEFINE full == max > -1 /\ max < list.size + 1
  <2>1. PICK el \in Nodes \ list.owned :
          LET back == IF list.size = 0 THEN el ELSE Back(list)
          IN  /\ data'[el].key = k
              /\ \A n \in list.owned : data'[n] = data[n]
              /\ IF full
                 THEN StoreOf' = [StoreOf EXCEPT ![k] = e, ![data'[back].key] = Absent]
                 ELSE StoreOf' = [StoreOf EXCEPT ![k] = e]
    BY <1>3, SetNew
  <2>2. StoreOf[k] = Absent
    BY <1>3, Stored
  <2> DEFINE back == IF list.size = 0 THEN el ELSE Back(list)
             b    == data'[back].key
  <2>3. b \in CacheOf!Victims(k)
    <3>1. CASE list.size = 0
      <4>1. list.owned = {}
        BY <3>1 DEF CacheInv, IsList, Ring, Numbers
      <4>2. CacheOf!Present = {}
        BY <4>1, Stored, Cached DEF CacheOf!Present
      <4> QED
        BY <2>1, <3>1, <4>2 DEF CacheOf!Victims
    <3>2. CASE list.size > 0
      <4>1. back = Back(list) /\ Back(list) \in list.owned
        BY <3>2, BackIsOwned DEF CacheInv
      <4>2. back \in list.owned /\ b = data[back].key
        BY <2>1, <4>1
      <4> HIDE DEF back, b
      <4>3. b \in Keys /\ map[b] # NoNode
        BY <4>2, LRUAssumption DEF CacheInv, Owned, Data, MapMatchesList, IsList, Lists, Elements
      <4>4. b \in CacheOf!Present
        BY <4>3, Stored DEF CacheOf!Present
      <4> QED
        BY <4>4 DEF CacheOf!Victims
    <3> QED
      BY <1>2, <3>1, <3>2
  <2>4. CASE full
    <3>1. StoreOf' = [StoreOf EXCEPT ![k] = e, ![b] = Absent]
      BY <2>1, <2>4
    <3> HIDE DEF b
    <3>2. \E x \in CacheOf!Victims(k) : StoreOf' = [StoreOf EXCEPT ![k] = e, ![x] = Absent]
      BY <2>3, <3>1
    <3>3. max > -1 /\ CacheOf!Cardinality(CacheOf!Present) >= max
      BY <1>2, <2>4
    <3> QED
      BY <1>1, <2>2, <3>2, <3>3, Zenon DEF CacheOf!Set
  <2>5. CASE ~full
    <3>1. StoreOf' = [StoreOf EXCEPT ![k] = e]
      BY <2>1, <2>5
    <3> QED
      BY <1>1, <1>2, <2>2, <2>5, <3>1 DEF CacheOf!Set, CacheOf!Store, CacheOf!Expiry
  <2> QED
    BY <2>4, <2>5
<1>4. CASE map[k] # NoNode
  <2>1. StoreOf' = [StoreOf EXCEPT ![k] = e] /\ StoreOf[k] # Absent
    BY <1>4, SetOld, Stored
  <2> QED
    BY <1>1, <2>1 DEF CacheOf!Set, CacheOf!Store, CacheOf!Expiry
<1> QED
  BY <1>3, <1>4

\* get() of the list is get() of the abstract cache.
LEMMA GetImplements ==
  ASSUME CacheInv, CacheInv', NEW k \in Keys, Get(k)
  PROVE  CacheOf!Get(k)
<1>2. max' = max /\ data' = data /\ now' = now
  BY DEF Get
<1>3. StoreOf \in [Keys -> Entries \cup {Absent}]
  BY Stored
<1>4. CASE map[k] = NoNode
  <2>1. out' = Undefined /\ StoreOf' = StoreOf /\ StoreOf[k] = Absent
    BY <1>2, <1>4, Stored DEF Get, StoreOf
  <2>2. StoreOf' = [StoreOf EXCEPT ![k] = Absent]
    BY <1>3, <2>1
  <2> QED
    BY <1>2, <2>1, <2>2 DEF CacheOf!Get, CacheOf!Store
<1>5. CASE map[k] # NoNode
  <2>1. /\ StoreOf[k] # Absent /\ StoreOf[k].value = data[map[k]].value
        /\ CacheOf!Expired(StoreOf[k]) <=> Expired(data[map[k]])
    BY <1>5, Stored DEF CacheOf!Expired, Expired
  <2>2. CASE Expired(data[map[k]])
    <3>1. out' = Undefined /\ StoreOf' = [StoreOf EXCEPT ![k] = Absent]
      BY <1>2, <1>5, <2>2, ForgetStores DEF Get
    <3> QED
      BY <1>2, <2>1, <2>2, <3>1 DEF CacheOf!Get, CacheOf!Store
  <2>3. CASE ~Expired(data[map[k]])
    <3>1. out' = data[map[k]].value /\ StoreOf' = StoreOf
      BY <1>2, <1>5, <2>3 DEF Get, StoreOf
    <3> QED
      BY <1>2, <2>1, <2>3, <3>1 DEF CacheOf!Get
  <2> QED
    BY <2>2, <2>3
<1> QED
  BY <1>4, <1>5

\* delete() of the list is delete() of the abstract cache.
LEMMA DeleteImplements ==
  ASSUME CacheInv, CacheInv', NEW k \in Keys, Delete(k)
  PROVE  CacheOf!Delete(k)
<1>1. max' = max /\ data' = data /\ now' = now
  BY DEF Delete
<1>2. StoreOf \in [Keys -> Entries \cup {Absent}]
  BY Stored
<1>3. CASE map[k] = NoNode
  <2>1. out' = Undefined /\ StoreOf' = StoreOf /\ StoreOf[k] = Absent
    BY <1>1, <1>3, Stored DEF Delete, StoreOf
  <2>2. StoreOf' = [StoreOf EXCEPT ![k] = Absent]
    BY <1>2, <2>1
  <2> QED
    BY <1>1, <2>1, <2>2 DEF CacheOf!Delete, CacheOf!Store
<1>4. CASE map[k] # NoNode
  <2>1. StoreOf[k] # Absent /\ StoreOf[k].value = data[map[k]].value
    BY <1>4, Stored
  <2>2. out' = data[map[k]].value /\ StoreOf' = [StoreOf EXCEPT ![k] = Absent]
    BY <1>1, <1>4, ForgetStores DEF Delete
  <2> QED
    BY <1>1, <2>1, <2>2 DEF CacheOf!Delete, CacheOf!Store
<1> QED
  BY <1>3, <1>4

\* The relinked elements behave as the abstract cache does: an entry that is neither
\* expired nor deleted is found, until it makes room in a cache that is full.
THEOREM ListImplementsCache == Spec => ImplementsCache
<1>1. Init => CacheOf!Init
  BY DEF Init, CacheOf!Init, StoreOf
<1>2. ASSUME CacheInv, CacheInv', [Next]_vars PROVE [CacheOf!Next]_CacheOf!cacheVars
  <2>1. ASSUME NEW k \in Keys, NEW v \in Values, NEW ttl \in Ttls, Set(k, v, ttl)
        PROVE  CacheOf!Next
    BY <1>2, <2>1, SetImplements DEF CacheOf!Next
  <2>2. ASSUME NEW k \in Keys, Get(k) PROVE CacheOf!Next
    BY <1>2, <2>2, GetImplements DEF CacheOf!Next
  <2>3. ASSUME NEW k \in Keys, Delete(k) PROVE CacheOf!Next
    BY <1>2, <2>3, DeleteImplements DEF CacheOf!Next
  <2>4. CASE Clock
    <3>1. StoreOf' = StoreOf
      BY <2>4 DEF Clock, StoreOf
    <3> QED
      BY <2>4, <3>1 DEF Clock, CacheOf!Clock, CacheOf!Next
  <2>5. CASE UNCHANGED vars
    BY <2>5 DEF vars, CacheOf!cacheVars, StoreOf
  <2> QED
    BY <1>2, <2>1, <2>2, <2>3, <2>4, <2>5 DEF Next
<1> QED
  BY <1>1, <1>2, CacheAlways, PTL DEF Spec, ImplementsCache, CacheOf!Spec

-----------------------------------------------------------------------------
(***************************************************************************)
(* The linked list implements the order of use.  OrderOf follows the links *)
(* by a recursive function; the numbering of a ring is that function.      *)
(***************************************************************************)
\* A set of numbers that is not empty has a least one: induction, as a minimal
\* counterexample.
LEMMA LeastNumber ==
  ASSUME NEW T \in SUBSET Nat, T # {}
  PROVE  \E x \in T : \A y \in T : x <= y
<1>1. PICK x \in T : \A y \in T : <<y, x>> \notin OpToRel(<, Nat)
  BY WFMin, NatLessThanWellFounded
<1>2. \A y \in T : ~(y < x)
  BY <1>1 DEF OpToRel
<1>3. \A y \in T : x \in Nat /\ y \in Nat
  OBVIOUS
<1>4. \A y \in T : x <= y
  BY <1>2, <1>3
<1> QED
  BY <1>4

\* The keys of n numbered elements.
Keyed(r, n, d) == [i \in 1 .. n |-> d[r[i]].key]

\* OrderOf, of any list and any data.
Walked(l, d) ==
  LET at[i \in 1 .. l.size] == IF i = 1 THEN l.next[Root] ELSE l.next[at[i - 1]]
  IN  [i \in 1 .. l.size |-> d[at[i]].key]

LEMMA WalkFollowsNumbers ==
  ASSUME NEW l, l.size \in Nat, NEW r, Numbers(l, r), NEW d
  PROVE  Walked(l, d) = Keyed(r, l.size, d)
<1> DEFINE n == l.size
           Steps(f) == f = [i \in 1 .. n |-> IF i = 1 THEN l.next[Root] ELSE l.next[f[i - 1]]]
           at == CHOOSE f : Steps(f)
           w == [i \in 1 .. n |-> r[i]]
<1>0. n \in Nat /\ r[0] = Root /\ \A i \in 0 .. n - 1 : l.next[r[i]] = r[i + 1]
  BY DEF Numbers
<1>1. Steps(w)
  <2>1. ASSUME NEW i \in 1 .. n PROVE w[i] = IF i = 1 THEN l.next[Root] ELSE l.next[w[i - 1]]
    <3>1. CASE i = 1
      BY <1>0, <3>1
    <3>2. CASE i > 1
      <4>1. i - 1 \in 0 .. n - 1 /\ i - 1 \in 1 .. n /\ (i - 1) + 1 = i
        BY <1>0, <3>2
      <4>2. w[i - 1] = r[i - 1] /\ w[i] = r[i] /\ l.next[r[i - 1]] = r[(i - 1) + 1]
        BY <1>0, <4>1
      <4> HIDE DEF w
      <4> QED
        BY <3>2, <4>1, <4>2
    <3> QED
      BY <3>1, <3>2
  <2> QED
    BY <2>1
<1>2. Steps(at)
  BY <1>1
<1>3. Walked(l, d) = [i \in 1 .. n |-> d[at[i]].key]
  BY DEF Walked
<1> HIDE DEF at
<1>4. ASSUME NEW i \in 1 .. n PROVE at[i] = IF i = 1 THEN l.next[Root] ELSE l.next[at[i - 1]]
  BY <1>2
<1>5. \A i \in 1 .. n : at[i] = r[i]
  <2> DEFINE T == {i \in 1 .. n : at[i] # r[i]}
  <2> SUFFICES ASSUME T # {} PROVE FALSE
    OBVIOUS
  <2>1. PICK i \in T : \A j \in T : i <= j
    <3>1. T \in SUBSET Nat /\ T # {}
      OBVIOUS
    <3> HIDE DEF T
    <3> QED
      BY <3>1, LeastNumber
  <2>2. CASE i = 1
    BY <1>0, <1>4, <2>1, <2>2
  <2>3. CASE i # 1
    <3>1. /\ i - 1 \in 1 .. n /\ i - 1 \in 0 .. n - 1 /\ (i - 1) + 1 = i
          /\ i - 1 \notin T /\ i \in 1 .. n
      BY <1>0, <2>1, <2>3
    <3>2. at[i] = l.next[at[i - 1]]
      BY <1>4, <2>3, <3>1
    <3>3. at[i - 1] = r[i - 1] /\ l.next[r[i - 1]] = r[i]
      BY <1>0, <3>1
    <3> QED
      BY <2>1, <3>2, <3>3
  <2> QED
    BY <2>2, <2>3
<1> QED
  BY <1>3, <1>5 DEF Keyed

\* What the operators on sequences do, position by position.
LEMMA KeyedSeq ==
  ASSUME NEW n \in Nat, NEW r, NEW d, \A i \in 1 .. n : d[r[i]].key \in Keys
  PROVE  /\ Keyed(r, n, d) \in Seq(Keys) /\ Len(Keyed(r, n, d)) = n
         /\ \A i \in 1 .. n : Keyed(r, n, d)[i] = d[r[i]].key
<1>1. Keyed(r, n, d) \in [1 .. n -> Keys]
  BY DEF Keyed
<1>2. Keyed(r, n, d) \in Seq(Keys)
  BY <1>1
<1> QED
  BY <1>1, <1>2 DEF Keyed

LEMMA RemoveKey ==
  ASSUME NEW s \in Seq(Keys), NEW k \in Keys, NEW j \in 1 .. Len(s),
         \A i \in 1 .. Len(s) : s[i] = k <=> i = j
  PROVE  RecencyOf!RemoveFirst(s, k)
           = [i \in 1 .. Len(s) - 1 |-> IF i < j THEN s[i] ELSE s[i + 1]]
<1> DEFINE n == Len(s)
           a == SubSeq(s, 1, j - 1)
           b == SubSeq(s, j + 1, n)
           w == [i \in 1 .. n - 1 |-> IF i < j THEN s[i] ELSE s[i + 1]]
<1>1. n \in Nat /\ j \in Nat /\ 1 <= j /\ j <= n
  OBVIOUS
<1>2. RecencyOf!SelectInSeq(s, LAMBDA v : v = k) = j
  <2>1. {i \in 1 .. n : s[i] = k} = {j}
    OBVIOUS
  <2> QED
    BY <2>1 DEF RecencyOf!SelectInSeq, RecencyOf!Min
<1>3. RecencyOf!RemoveFirst(s, k) = a \o b
  BY <1>2 DEF RecencyOf!RemoveFirst, RecencyOf!RemoveAt
<1>4. /\ a \in Seq(Keys) /\ Len(a) = j - 1 /\ \A i \in 1 .. j - 1 : a[i] = s[i]
      /\ b \in Seq(Keys) /\ Len(b) = n - j /\ \A i \in 1 .. n - j : b[i] = s[j + i]
  <2>1. a \in Seq(Keys) /\ b \in Seq(Keys)
    BY <1>1
  <2>2. Len(a) = j - 1 /\ Len(b) = n - j
    BY <1>1
  <2>3. \A i \in 1 .. j - 1 : a[i] = s[i]
    BY <1>1
  <2>4. \A i \in 1 .. n - j : b[i] = s[j + i]
    BY <1>1
  <2> QED
    BY <2>1, <2>2, <2>3, <2>4
<1> HIDE DEF a, b
<1>5. /\ a \o b \in Seq(Keys) /\ Len(a \o b) = n - 1
      /\ \A i \in 1 .. n - 1 : (a \o b)[i] = IF i < j THEN a[i] ELSE b[i - (j - 1)]
  <2>1. Len(a \o b) = n - 1 /\ a \o b \in Seq(Keys)
    <3>1. Len(a) + Len(b) = n - 1
      BY <1>1, <1>4
    <3> QED
      BY <1>4, <3>1, ConcatProperties
  <2>2. ASSUME NEW i \in 1 .. n - 1
        PROVE (a \o b)[i] = IF i <= j - 1 THEN a[i] ELSE b[i - (j - 1)]
    <3>1. i \in 1 .. Len(a) + Len(b)
      BY <1>1, <1>4
    <3>2. (a \o b)[i] = IF i <= Len(a) THEN a[i] ELSE b[i - Len(a)]
      BY <1>4, <3>1
    <3> QED
      BY <1>4, <3>2
  <2> QED
    BY <1>1, <2>1, <2>2
<1>6. ASSUME NEW i \in 1 .. n - 1 PROVE (a \o b)[i] = w[i]
  <2>1. CASE i < j
    <3>1. i \in 1 .. j - 1
      BY <1>1, <2>1
    <3> QED
      BY <1>4, <1>5, <2>1, <3>1
  <2>2. CASE ~(i < j)
    <3>1. i - (j - 1) \in 1 .. n - j /\ j + (i - (j - 1)) = i + 1
      BY <1>1, <2>2
    <3>2. b[i - (j - 1)] = s[j + (i - (j - 1))]
      BY <1>4, <3>1
    <3> QED
      BY <1>5, <2>2, <3>1, <3>2
  <2> QED
    BY <2>1, <2>2
<1> DEFINE c == a \o b
<1>7. c = [i \in 1 .. n - 1 |-> c[i]]
  <2>1. c \in Seq(Keys) /\ Len(c) = n - 1
    BY <1>5
  <2> HIDE DEF c
  <2>2. c = [i \in 1 .. Len(c) |-> c[i]]
    BY <2>1
  <2> QED
    BY <2>1, <2>2
<1> HIDE DEF c
<1>8. c = w
  BY <1>6, <1>7 DEF c
<1> QED
  BY <1>3, <1>8 DEF c

LEMMA RemoveNoKey ==
  ASSUME NEW s, NEW k, \A i \in 1 .. Len(s) : s[i] # k
  PROVE  RecencyOf!RemoveFirst(s, k) = s
BY DEF RecencyOf!RemoveFirst

\* Putting a key in front.
LEMMA InFront ==
  ASSUME NEW s \in Seq(Keys), NEW k \in Keys
  PROVE  <<k>> \o s = [i \in 1 .. Len(s) + 1 |-> IF i = 1 THEN k ELSE s[i - 1]]
<1> DEFINE c == <<k>> \o s
           n == Len(s)
<1>1. <<k>> \in Seq(Keys) /\ Len(<<k>>) = 1 /\ <<k>>[1] = k /\ n \in Nat
  OBVIOUS
<1>2. /\ c \in Seq(Keys) /\ Len(c) = n + 1
      /\ \A i \in 1 .. n + 1 : c[i] = IF i <= 1 THEN <<k>>[i] ELSE s[i - 1]
  <2>1. c \in Seq(Keys) /\ Len(c) = n + 1
    BY <1>1
  <2>2. \A i \in 1 .. n + 1 : c[i] = IF i <= 1 THEN <<k>>[i] ELSE s[i - 1]
    BY <1>1
  <2> QED
    BY <2>1, <2>2
<1> HIDE DEF c
<1>3. c = [i \in 1 .. n + 1 |-> c[i]]
  <2>1. c = [i \in 1 .. Len(c) |-> c[i]]
    BY <1>2
  <2> QED
    BY <1>2, <2>1
<1>4. ASSUME NEW i \in 1 .. n + 1 PROVE c[i] = IF i = 1 THEN k ELSE s[i - 1]
  BY <1>1, <1>2
<1> QED
  BY <1>3, <1>4 DEF c

\* A key put in front is the key of an element put in front.
KeyToPush(q, n, d, k, el, e) ==
  /\ n \in Nat /\ k \in Keys /\ e[el].key = k
  /\ \A i \in 1 .. n : d[q[i]].key \in Keys /\ e[q[i]].key = d[q[i]].key

LEMMA PushKey ==
  ASSUME NEW n, NEW q, NEW d, NEW k, NEW el, NEW e, KeyToPush(q, n, d, k, el, e)
  PROVE  <<k>> \o Keyed(q, n, d) = Keyed(Pushed(q, n, el), n + 1, e)
<1> DEFINE s == Keyed(q, n, d)
           p == Pushed(q, n, el)
<1>0. /\ n \in Nat /\ k \in Keys /\ e[el].key = k
      /\ \A i \in 1 .. n : d[q[i]].key \in Keys /\ e[q[i]].key = d[q[i]].key
  BY DEF KeyToPush
<1>1. s \in Seq(Keys) /\ Len(s) = n /\ \A i \in 1 .. n : s[i] = d[q[i]].key
  BY <1>0, KeyedSeq
<1>2. \A i \in 1 .. n + 1 : p[i] = IF i = 1 THEN el ELSE q[i - 1]
  BY <1>0 DEF Pushed
<1> HIDE DEF s, p
<1>3. <<k>> \o s = [i \in 1 .. n + 1 |-> IF i = 1 THEN k ELSE s[i - 1]]
  BY <1>0, <1>1, InFront
<1>4. ASSUME NEW i \in 1 .. n + 1 PROVE (IF i = 1 THEN k ELSE s[i - 1]) = e[p[i]].key
  <2>1. CASE i = 1
    BY <1>0, <1>2, <2>1
  <2>2. CASE i # 1
    <3>1. i - 1 \in 1 .. n
      BY <1>0, <2>2
    <3>2. s[i - 1] = d[q[i - 1]].key /\ e[q[i - 1]].key = d[q[i - 1]].key /\ p[i] = q[i - 1]
      BY <1>0, <1>1, <1>2, <2>2, <3>1
    <3> QED
      BY <2>2, <3>2
  <2> QED
    BY <2>1, <2>2
<1>5. <<k>> \o s = [i \in 1 .. n + 1 |-> e[p[i]].key]
  BY <1>3, <1>4
<1> QED
  BY <1>5 DEF Keyed, s, p

\* The order is that of the keys of the ring; no key is in it twice.
LEMMA OrderIs ==
  ASSUME CacheInv, NEW r, Numbers(list, r)
  PROVE  /\ list.size \in Nat
         /\ OrderOf = Keyed(r, list.size, data)
         /\ OrderOf \in Seq(Keys) /\ Len(OrderOf) = list.size
         /\ \A i \in 1 .. list.size : /\ r[i] \in list.owned
                                      /\ OrderOf[i] = data[r[i]].key /\ data[r[i]].key \in Keys
                                      /\ map[OrderOf[i]] = r[i] /\ r[i] # NoNode
<1>1. list.size \in Nat
  BY DEF CacheInv, IsList, Lists
<1>2. OrderOf = Walked(list, data)
  BY DEF OrderOf, Walked
<1>3. OrderOf = Keyed(r, list.size, data)
  BY <1>1, <1>2, WalkFollowsNumbers
<1>4. \A i \in 1 .. list.size : r[i] \in list.owned
  BY DEF Numbers
<1>5. \A n \in list.owned : data[n].key \in Keys /\ map[data[n].key] = n /\ n # NoNode
  BY LRUAssumption DEF CacheInv, Owned, Data, MapMatchesList, IsList, Lists, Elements
<1>6. \A i \in 1 .. list.size : data[r[i]].key \in Keys
  BY <1>4, <1>5
<1>7. /\ OrderOf \in Seq(Keys) /\ Len(OrderOf) = list.size
      /\ \A i \in 1 .. list.size : OrderOf[i] = data[r[i]].key
  BY <1>1, <1>3, <1>6, KeyedSeq
<1> QED
  BY <1>1, <1>3, <1>4, <1>5, <1>7

\* Without a key the order is that of the ring without its element.
LEMMA DropKey ==
  ASSUME CacheInv, NEW r, Numbers(list, r), NEW k \in Keys,
         NEW j \in 1 .. list.size, r[j] = map[k], map[k] # NoNode
  PROVE  RecencyOf!RemoveFirst(OrderOf, k) = Keyed(Dropped(r, list.size, j), list.size - 1, data)
<1> DEFINE n == list.size
           s == OrderOf
           q == Dropped(r, n, j)
<1>1. /\ n \in Nat /\ s \in Seq(Keys) /\ Len(s) = n
      /\ \A i \in 1 .. n : s[i] = data[r[i]].key /\ map[s[i]] = r[i]
  BY OrderIs
<1>2. s[j] = k
  BY <1>1, Cached
<1>3. \A i \in 1 .. n : r[i] = r[j] => i = j
  BY DEF Numbers
<1> HIDE DEF s
<1>4. \A i \in 1 .. n : s[i] = k <=> i = j
  BY <1>1, <1>2, <1>3
<1>5. RecencyOf!RemoveFirst(s, k) = [i \in 1 .. n - 1 |-> IF i < j THEN s[i] ELSE s[i + 1]]
  BY <1>1, <1>4, RemoveKey
<1>6. \A i \in 1 .. n - 1 : q[i] = IF i < j THEN r[i] ELSE r[i + 1]
  BY <1>1 DEF Dropped
<1> HIDE DEF q
<1>7. ASSUME NEW i \in 1 .. n - 1
      PROVE  (IF i < j THEN s[i] ELSE s[i + 1]) = data[q[i]].key
  <2>1. i \in 1 .. n /\ i + 1 \in 1 .. n
    BY <1>1
  <2> QED
    BY <1>1, <1>6, <2>1
<1> QED
  BY <1>5, <1>7 DEF Keyed, s, q

\* A key that is not in the cache is not in the order.
LEMMA AbsentKey ==
  ASSUME CacheInv, NEW k \in Keys, map[k] = NoNode
  PROVE  RecencyOf!RemoveFirst(OrderOf, k) = OrderOf
<1>1. PICK r \in [0 .. list.size -> Elements] : Numbers(list, r)
  BY DEF CacheInv, IsList, Ring
<1>2. /\ Len(OrderOf) = list.size
      /\ \A i \in 1 .. list.size : map[OrderOf[i]] = r[i] /\ r[i] # NoNode
  BY <1>1, OrderIs
<1> QED
  BY <1>2, RemoveNoKey

\* Taking an element out of the list takes its key out of the order.
LEMMA ForgetOrders ==
  ASSUME CacheInv, NEW k \in Keys, map[k] # NoNode, Forget(k), data' = data
  PROVE  OrderOf' = RecencyOf!RemoveFirst(OrderOf, k)
<1>1. map[k] \in list.owned /\ IsList(list)
  BY Cached DEF CacheInv
<1>2. PICK r \in [0 .. list.size -> Elements], j \in 1 .. list.size :
        Numbers(list, r) /\ r[j] = map[k]
  BY <1>1, Numbered
<1> DEFINE q == Dropped(r, list.size, j)
<1>3. list' = ListRemove(list, map[k])
  BY DEF Forget
<1>4. IsList(list') /\ list'.size = list.size - 1 /\ Numbers(list', q)
  BY <1>1, <1>2, <1>3, RemoveNumbers
<1> HIDE DEF q
<1>5. list'.size \in Nat
  BY <1>4 DEF IsList, Lists
<1>6. OrderOf' = Walked(list', data')
  BY DEF OrderOf, Walked
<1>7. OrderOf' = Keyed(q, list'.size, data')
  BY <1>4, <1>5, <1>6, WalkFollowsNumbers
<1>8. RecencyOf!RemoveFirst(OrderOf, k) = Keyed(q, list.size - 1, data)
  BY <1>2, DropKey DEF q
<1> QED
  BY <1>4, <1>7, <1>8

\* Moving an element to the front moves its key to the front.
LEMMA MoveOrders ==
  ASSUME CacheInv, NEW k \in Keys, map[k] # NoNode, list' = ListMove(list, map[k], Root),
         \A n \in list.owned : data'[n].key = data[n].key
  PROVE  OrderOf' = RecencyOf!Touched(k)
<1>1. map[k] \in list.owned /\ IsList(list) /\ data[map[k]].key = k
  BY Cached DEF CacheInv
<1>2. PICK r \in [0 .. list.size -> Elements], j \in 1 .. list.size :
        Numbers(list, r) /\ r[j] = map[k]
  BY <1>1, Numbered
<1> DEFINE q == Dropped(r, list.size, j)
           p == Pushed(q, list.size - 1, map[k])
<1>3. IsList(list') /\ list'.size = list.size /\ Numbers(list', p)
  BY <1>1, <1>2, MoveNumbers
<1>4. /\ list.size \in Nat
      /\ \A i \in 1 .. list.size : r[i] \in list.owned /\ data[r[i]].key \in Keys
  BY <1>2, OrderIs
<1>5. \A i \in 1 .. list.size - 1 : q[i] = r[i] \/ q[i] = r[i + 1]
  BY <1>4 DEF Dropped
<1>6. RecencyOf!RemoveFirst(OrderOf, k) = Keyed(q, list.size - 1, data)
  BY <1>2, DropKey
<1> HIDE DEF q
<1>7. ASSUME NEW i \in 1 .. list.size - 1
      PROVE  data[q[i]].key \in Keys /\ data'[q[i]].key = data[q[i]].key
  <2>1. i \in 1 .. list.size /\ i + 1 \in 1 .. list.size
    BY <1>4
  <2> QED
    BY <1>4, <1>5, <2>1
<1>8. <<k>> \o Keyed(q, list.size - 1, data) = Keyed(p, list.size, data')
  <2>1. list.size - 1 \in Nat /\ (list.size - 1) + 1 = list.size /\ data'[map[k]].key = k
    BY <1>1, <1>4
  <2> DEFINE m == list.size - 1
  <2>2. p = Pushed(q, m, map[k])
    OBVIOUS
  <2>3. m \in Nat /\ \A i \in 1 .. m : data[q[i]].key \in Keys /\ data'[q[i]].key = data[q[i]].key
    BY <1>7, <2>1
  <2> HIDE DEF m, p
  <2>4. <<k>> \o Keyed(q, m, data) = Keyed(Pushed(q, m, map[k]), m + 1, data')
    <3>1. KeyToPush(q, m, data, k, map[k], data')
      BY <2>1, <2>3 DEF KeyToPush
    <3> QED
      BY <3>1, PushKey
  <2> QED
    BY <2>1, <2>2, <2>4 DEF m
<1> HIDE DEF p
<1>9. OrderOf' = Keyed(p, list'.size, data')
  <2>1. OrderOf' = Walked(list', data')
    BY DEF OrderOf, Walked
  <2> QED
    BY <1>3, <1>4, <2>1, WalkFollowsNumbers
<1> QED
  BY <1>3, <1>6, <1>8, <1>9 DEF RecencyOf!Touched


\* set() of a new key puts it in front, and takes the last key when there is no room.
LEMMA NewOrders ==
  ASSUME CacheInv, CacheInv', NEW k \in Keys, map[k] = NoNode,
         NEW el \in Nodes \ list.owned, data'[el].key = k,
         \A n \in list.owned : data'[n] = data[n]
  PROVE  LET inserted == ListInsert(list, el, Root)
             back     == IF list.size = 0 THEN el ELSE Back(list)
             touched  == RecencyOf!Touched(k)
         IN  /\ Len(touched) = list.size + 1
             /\ RecencyOf!Last(touched) = data'[back].key
             /\ list' = inserted => OrderOf' = touched
             /\ list' = ListRemove(inserted, back) => OrderOf' = RecencyOf!Front(touched)
<1> DEFINE inserted == ListInsert(list, el, Root)
           back     == IF list.size = 0 THEN el ELSE Back(list)
           touched  == RecencyOf!Touched(k)
           n        == list.size
<1>1. PICK r \in [0 .. n -> Elements] : Numbers(list, r)
  BY DEF CacheInv, IsList, Ring
<1>2. /\ n \in Nat /\ OrderOf = Keyed(r, n, data) /\ OrderOf \in Seq(Keys) /\ Len(OrderOf) = n
      /\ \A i \in 1 .. n : /\ r[i] \in list.owned /\ data[r[i]].key \in Keys
                           /\ map[OrderOf[i]] = r[i] /\ r[i] # NoNode
  BY <1>1, OrderIs
<1> DEFINE p == Pushed(r, n, el)
<1>3. /\ IsList(inserted) /\ inserted.owned = list.owned \cup {el} /\ inserted.size = n + 1
      /\ Back(inserted) = back /\ p \in [0 .. inserted.size -> Elements] /\ Numbers(inserted, p)
  BY <1>1, InsertNumbers DEF CacheInv
<1>4. RecencyOf!RemoveFirst(OrderOf, k) = OrderOf
  BY <1>2, RemoveNoKey
<1>5. touched = Keyed(p, n + 1, data')
  <2>1. \A i \in 1 .. n : data'[r[i]].key = data[r[i]].key
    BY <1>2
  <2>2. <<k>> \o Keyed(r, n, data) = Keyed(p, n + 1, data')
    <3>1. KeyToPush(r, n, data, k, el, data')
      BY <1>2, <2>1 DEF KeyToPush
    <3> HIDE DEF n
    <3> QED
      BY <3>1, PushKey
  <2> QED
    BY <1>2, <1>4, <2>2 DEF RecencyOf!Touched
<1> HIDE DEF p, inserted, touched
<1>6. \A i \in 1 .. n + 1 : p[i] \in list.owned \cup {el} /\ data'[p[i]].key \in Keys
  <2>1. \A i \in 1 .. n + 1 : p[i] \in list.owned \cup {el}
    BY <1>3 DEF Numbers
  <2>2. \A x \in list.owned : data[x].key \in Keys
    BY DEF CacheInv, Owned, Data
  <2> QED
    BY <2>1, <2>2
<1>7. /\ touched \in Seq(Keys) /\ Len(touched) = n + 1
      /\ \A i \in 1 .. n + 1 : touched[i] = data'[p[i]].key
  BY <1>2, <1>5, <1>6, KeyedSeq
<1>8. p[n + 1] = back
  BY <1>2, <1>3 DEF Numbers, Back
<1>9. RecencyOf!Last(touched) = data'[back].key
  BY <1>2, <1>7, <1>8 DEF RecencyOf!Last
<1>10. OrderOf' = Walked(list', data')
  BY DEF OrderOf, Walked
<1>11. ASSUME list' = inserted PROVE OrderOf' = touched
  BY <1>2, <1>3, <1>5, <1>10, <1>11, WalkFollowsNumbers
<1>12. ASSUME list' = ListRemove(inserted, back) PROVE OrderOf' = RecencyOf!Front(touched)
  <2> DEFINE q == Dropped(p, n + 1, n + 1)
  <2>1. n + 1 \in 1 .. inserted.size /\ back \in inserted.owned
    <3>1. n + 1 \in 1 .. n + 1
      BY <1>2
    <3> QED
      BY <1>3, <1>6, <1>8, <3>1
  <2>2. list'.size = n /\ Numbers(list', q)
    <3>1. list'.size = inserted.size - 1 /\ Numbers(list', Dropped(p, inserted.size, n + 1))
      BY <1>3, <1>8, <1>12, <2>1, RemoveNumbers
    <3> QED
      BY <1>2, <1>3, <3>1
  <2>3. \A i \in 1 .. n : q[i] = p[i]
    BY <1>2 DEF Dropped
  <2> HIDE DEF q
  <2>4. OrderOf' = Keyed(q, n, data')
    BY <1>2, <1>10, <2>2, WalkFollowsNumbers
  <2>5. RecencyOf!Front(touched) = SubSeq(touched, 1, n)
    <3>1. (n + 1) - 1 = n
      BY <1>2
    <3> QED
      BY <1>7, <3>1 DEF RecencyOf!Front
  <2>6. SubSeq(touched, 1, n) = [i \in 1 .. n |-> touched[i]]
    BY <1>2, <1>7
  <2>7. \A i \in 1 .. n : touched[i] = data'[q[i]].key
    <3>1. \A i \in 1 .. n : i \in 1 .. n + 1
      BY <1>2
    <3> QED
      BY <1>7, <2>3, <3>1
  <2> QED
    BY <2>4, <2>5, <2>6, <2>7 DEF Keyed
<1> QED
  BY <1>7, <1>9, <1>11, <1>12 DEF inserted, touched

\* set() of the list is set() by order of use.
LEMMA SetKeepsOrder ==
  ASSUME CacheInv, CacheInv', NEW k \in Keys, NEW v \in Values, NEW ttl \in Ttls, Set(k, v, ttl)
  PROVE  RecencyOf!RecencySet(k, v, ttl)
<1> DEFINE e       == [value |-> v, expiry |-> CacheOf!Expiry(ttl)]
           touched == RecencyOf!Touched(k)
           overful == max > -1 /\ Len(touched) > max
<1>1. max' = max /\ now' = now /\ out' = Undefined
  BY DEF Set
<1>2. max \in Int /\ list.size \in Nat
  BY LRUAssumption DEF CacheInv, TypeOK, IsList, Lists
<1>3. CASE map[k] = NoNode
  <2>1. PICK el \in Nodes \ list.owned :
          LET inserted == ListInsert(list, el, Root)
              back     == IF list.size = 0 THEN el ELSE Back(list)
          IN  /\ data'[el].key = k
              /\ \A n \in list.owned : data'[n] = data[n]
              /\ IF max > -1 /\ max < list.size + 1
                 THEN /\ list' = ListRemove(inserted, back)
                      /\ StoreOf' = [StoreOf EXCEPT ![k] = e, ![data'[back].key] = Absent]
                 ELSE list' = inserted /\ StoreOf' = [StoreOf EXCEPT ![k] = e]
    BY <1>3, SetNew
  <2> DEFINE inserted == ListInsert(list, el, Root)
             back     == IF list.size = 0 THEN el ELSE Back(list)
  <2>2. /\ Len(touched) = list.size + 1 /\ RecencyOf!Last(touched) = data'[back].key
        /\ list' = inserted => OrderOf' = touched
        /\ list' = ListRemove(inserted, back) => OrderOf' = RecencyOf!Front(touched)
    BY <1>3, <2>1, NewOrders
  <2> HIDE DEF e, touched, inserted, back
  <2>3. overful <=> max > -1 /\ max < list.size + 1
    BY <1>2, <2>2
  <2>4. CASE overful
    <3>1. /\ OrderOf' = RecencyOf!Front(touched)
          /\ StoreOf' = [StoreOf EXCEPT ![k] = e, ![RecencyOf!Last(touched)] = Absent]
      BY <2>1, <2>2, <2>3, <2>4 DEF inserted, back
    <3> QED
      BY <1>1, <2>4, <3>1
         DEF RecencyOf!RecencySet, e, touched, CacheOf!Expiry, RecencyOf!Expiry
  <2>5. CASE ~overful
    <3>1. OrderOf' = touched /\ StoreOf' = [StoreOf EXCEPT ![k] = e]
      BY <2>1, <2>2, <2>3, <2>5 DEF inserted
    <3> QED
      BY <1>1, <2>5, <3>1
         DEF RecencyOf!RecencySet, e, touched, CacheOf!Expiry, RecencyOf!Expiry
  <2> QED
    BY <2>4, <2>5
<1>4. CASE map[k] # NoNode
  <2>1. /\ list' = ListMove(list, map[k], Root)
        /\ \A n \in list.owned : data'[n].key = data[n].key
        /\ StoreOf' = [StoreOf EXCEPT ![k] = e]
    BY <1>4, SetOld
  <2>2. OrderOf' = touched
    BY <1>4, <2>1, MoveOrders
  <2>3. Len(touched) = list.size
    <3>1. /\ list'.size = list.size /\ IsList(list') /\ IsList(list)
      BY <1>4, <2>1, Cached, MoveRing DEF CacheInv
    <3>2. PICK r : Numbers(list', r)
      BY <3>1 DEF IsList, Ring
    <3>3. Len(OrderOf') = list'.size
      <4>1. OrderOf' = Walked(list', data')
        BY DEF OrderOf, Walked
      <4>2. list'.size \in Nat
        BY <1>2, <3>1
      <4>3. OrderOf' = Keyed(r, list'.size, data')
        BY <3>2, <4>1, <4>2, WalkFollowsNumbers
      <4> QED
        BY <4>2, <4>3 DEF Keyed
    <3> QED
      BY <2>2, <3>1, <3>3
  <2> HIDE DEF e, touched
  <2>4. ~overful
    BY <1>2, <2>3 DEF CacheInv, WithinCapacity
  <2> QED
    BY <1>1, <2>1, <2>2, <2>4
       DEF RecencyOf!RecencySet, e, touched, CacheOf!Expiry, RecencyOf!Expiry
<1> QED
  BY <1>3, <1>4

\* get() of the list is get() by order of use.
LEMMA GetKeepsOrder ==
  ASSUME CacheInv, CacheInv', NEW k \in Keys, Get(k)
  PROVE  RecencyOf!RecencyGet(k)
<1>1. data' = data /\ RecencyOf!Get(k)
  BY GetImplements DEF Get, CacheOf!Get, RecencyOf!Get, CacheOf!Expired, RecencyOf!Expired,
                       CacheOf!Store, RecencyOf!Store
<1>2. CASE map[k] = NoNode
  <2>1. list' = list /\ map' = map
    BY <1>2 DEF Get
  <2>2. OrderOf' = OrderOf
    BY <1>1, <2>1 DEF OrderOf
  <2>3. StoreOf'[k] = Absent
    BY <1>2, <2>1 DEF StoreOf
  <2>4. RecencyOf!RemoveFirst(OrderOf, k) = OrderOf
    BY <1>2, AbsentKey
  <2> QED
    BY <1>1, <2>2, <2>3, <2>4 DEF RecencyOf!RecencyGet
<1>3. CASE map[k] # NoNode /\ Expired(data[map[k]])
  <2>1. Forget(k)
    BY <1>3 DEF Get
  <2>2. OrderOf' = RecencyOf!RemoveFirst(OrderOf, k)
    BY <1>1, <1>3, <2>1, ForgetOrders
  <2>3. StoreOf'[k] = Absent
    <3>1. StoreOf' = [StoreOf EXCEPT ![k] = Absent] /\ StoreOf \in [Keys -> Entries \cup {Absent}]
      BY <1>1, <1>3, <2>1, ForgetStores, Stored
    <3> QED
      BY <3>1
  <2> QED
    BY <1>1, <2>2, <2>3 DEF RecencyOf!RecencyGet
<1>4. CASE map[k] # NoNode /\ ~Expired(data[map[k]])
  <2>1. list' = ListMove(list, map[k], Root) /\ map' = map
    BY <1>4 DEF Get
  <2>2. OrderOf' = RecencyOf!Touched(k)
    BY <1>1, <1>4, <2>1, MoveOrders
  <2>3. StoreOf'[k] # Absent
    <3>1. StoreOf' = StoreOf /\ StoreOf[k] # Absent
      BY <1>1, <1>4, <2>1, Stored DEF StoreOf
    <3> QED
      BY <3>1
  <2> QED
    BY <1>1, <2>2, <2>3 DEF RecencyOf!RecencyGet
<1> QED
  BY <1>2, <1>3, <1>4

\* delete() of the list is delete() by order of use.
LEMMA DeleteKeepsOrder ==
  ASSUME CacheInv, CacheInv', NEW k \in Keys, Delete(k)
  PROVE  RecencyOf!RecencyDelete(k)
<1>1. data' = data /\ RecencyOf!Delete(k)
  BY DeleteImplements DEF Delete, CacheOf!Delete, RecencyOf!Delete,
                          CacheOf!Store, RecencyOf!Store
<1>2. CASE map[k] = NoNode
  <2>1. OrderOf' = OrderOf
    BY <1>1, <1>2 DEF Delete, OrderOf
  <2>2. RecencyOf!RemoveFirst(OrderOf, k) = OrderOf
    BY <1>2, AbsentKey
  <2> QED
    BY <1>1, <2>1, <2>2 DEF RecencyOf!RecencyDelete
<1>3. CASE map[k] # NoNode
  <2>1. OrderOf' = RecencyOf!RemoveFirst(OrderOf, k)
    BY <1>1, <1>3, ForgetOrders DEF Delete
  <2> QED
    BY <1>1, <2>1 DEF RecencyOf!RecencyDelete
<1> QED
  BY <1>2, <1>3

\* What makes room is always the entry whose last set or hit is the oldest, for any number
\* of keys and elements and any capacity (lines 20-61, with the relinking below them).
THEOREM ListImplementsRecency == Spec => ImplementsRecency
<1>1. ASSUME Init PROVE RecencyOf!RecencyInit
  <2>1. RecencyOf!Init
    BY <1>1 DEF Init, RecencyOf!Init, StoreOf
  <2>2. list.size = 0
    BY <1>1 DEF Init, EmptyList
  <2>3. OrderOf = << >>
    BY <2>2 DEF OrderOf
  <2> QED
    BY <2>1, <2>3 DEF RecencyOf!RecencyInit
<1>2. ASSUME CacheInv, CacheInv', [Next]_vars PROVE [RecencyOf!RecencyNext]_RecencyOf!recencyVars
  <2>1. ASSUME NEW k \in Keys, NEW v \in Values, NEW ttl \in Ttls, Set(k, v, ttl)
        PROVE  RecencyOf!RecencyNext
    BY <1>2, <2>1, SetKeepsOrder DEF RecencyOf!RecencyNext
  <2>2. ASSUME NEW k \in Keys, Get(k) PROVE RecencyOf!RecencyNext
    BY <1>2, <2>2, GetKeepsOrder DEF RecencyOf!RecencyNext
  <2>3. ASSUME NEW k \in Keys, Delete(k) PROVE RecencyOf!RecencyNext
    BY <1>2, <2>3, DeleteKeepsOrder DEF RecencyOf!RecencyNext
  <2>4. CASE Clock
    <3>1. StoreOf' = StoreOf /\ OrderOf' = OrderOf
      BY <2>4 DEF Clock, StoreOf, OrderOf
    <3> QED
      BY <2>4, <3>1 DEF Clock, RecencyOf!Clock, RecencyOf!RecencyNext
  <2>5. CASE UNCHANGED vars
    BY <2>5 DEF vars, RecencyOf!recencyVars, RecencyOf!cacheVars, StoreOf, OrderOf
  <2> QED
    BY <1>2, <2>1, <2>2, <2>3, <2>4, <2>5 DEF Next
<1> QED
  BY <1>1, <1>2, CacheAlways, PTL DEF Spec, ImplementsRecency, RecencyOf!RecencySpec
=============================================================================
