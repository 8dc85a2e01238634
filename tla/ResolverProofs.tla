--------------------------- MODULE ResolverProofs ---------------------------
(***************************************************************************)
(* Proofs about Resolver, for any calls, hosts, addresses, connections and *)
(* number of retries.                                                      *)
(***************************************************************************)
EXTENDS Resolver, TLAPS

\* With a pin, a connection that may deliver data is one of the right server.
PeersChecked ==
  config.pinned =>
    \A k \in Conns : conn[k].state \in {"secure", "closing"} => conn[k].peer = "pinned"

\* A question asked through the system is on no connection.
PlainUsesNone == config.mode = "plain" => \A l \in Lookups : look[l].via = NoConn

\* The inductive invariant.
ResolverInv ==
  /\ TypeOK /\ PeersChecked /\ PlainUsesNone
  /\ CallsFollowLookups /\ OnePersistentClient /\ AddressesOverridden /\ DotSocketsReleased

\* The program starts in the invariant: nothing asked, nothing cached, nothing connected.
LEMMA ResolverInit == Init => ResolverInv
<1> SUFFICES ASSUME Init PROVE ResolverInv
  OBVIOUS
<1>1. TypeOK
  BY ResolverAssumption DEF Init, TypeOK, Idle, Gone, Stages
<1>2. PeersChecked /\ PlainUsesNone
  BY DEF Init, PeersChecked, PlainUsesNone, Idle, Gone
<1>3. CallsFollowLookups
  BY DEF Init, CallsFollowLookups
<1>4. OnePersistentClient /\ DotSocketsReleased
  BY DEF Init, OnePersistentClient, DotSocketsReleased, Gone
<1>5. AddressesOverridden
  BY DEF Init, AddressesOverridden, Idle
<1> QED
  BY <1>1, <1>2, <1>3, <1>4, <1>5 DEF ResolverInv

-----------------------------------------------------------------------------
(***************************************************************************)
(* Lookups and their calls.                                                *)
(***************************************************************************)
\* Lookups that end neither found nor failed leave their calls as they are.
LEMMA Pending ==
  ASSUME TypeOK, CallsFollowLookups, call' = call,
         NEW S \in SUBSET {l \in Lookups : InFlight(l)},
         look' \in [Lookups -> [stage : Stages, via : Conns \cup {NoConn},
                                retry : 0 .. MaxRetries, address : Addresses \cup {Null}]],
         \A l \in S : look'[l].stage \notin {"found", "failed"},
         \A l \in Lookups \ S : look'[l] = look[l]
  PROVE  CallsFollowLookups'
<1> SUFFICES ASSUME NEW c \in Calls
             PROVE  /\ call[c].state = "resolved" =>
                         /\ \A f \in Families : look'[<<c, f>>].stage = "found"
                         /\ \E f \in Families : look'[<<c, f>>].address # Null
                    /\ call[c].state = "running" =>
                         /\ \A f \in Families : look'[<<c, f>>].stage # "failed"
                         /\ \E f \in Families : look'[<<c, f>>].stage # "found"
                    /\ call[c].state = "rejected" =>
                         \/ \E f \in Families : look'[<<c, f>>].stage = "failed"
                         \/ \A f \in Families : look'[<<c, f>>].stage = "found" /\ look'[<<c, f>>].address = Null
  BY DEF CallsFollowLookups
<1>1. \A f \in Families : <<c, f>> \in Lookups
  BY DEF Lookups
<1>2. \A f \in Families :
        \/ look'[<<c, f>>] = look[<<c, f>>]
        \/ /\ look[<<c, f>>].stage \in {"asking", "backoff"}
           /\ look'[<<c, f>>].stage \notin {"found", "failed"}
  BY <1>1 DEF InFlight
<1> QED
  BY <1>2 DEF CallsFollowLookups

\* A lookup that is through settles its call, unless the call is settled already.
LEMMA Settled ==
  ASSUME TypeOK, CallsFollowLookups, NEW l \in Lookups, Asking(l),
         NEW r \in [stage : {"found", "failed"}, via : Conns \cup {NoConn},
                    retry : 0 .. MaxRetries, address : Addresses \cup {Null}],
         look' = [look EXCEPT ![l] = r], Settle(l[1])
  PROVE  /\ CallsFollowLookups'
         /\ call' \in [Calls -> [state : {"idle", "running", "resolved", "rejected"}, host : Hosts]]
         /\ look' \in [Lookups -> [stage : Stages, via : Conns \cup {NoConn},
                                   retry : 0 .. MaxRetries, address : Addresses \cup {Null}]]
<1> PICK d \in Calls, g \in Families : l = <<d, g>>
  BY DEF Lookups
<1>1. Verdict(d, look') \in {"running", "resolved", "rejected"}
  BY DEF Verdict
<1>2. /\ call' \in [Calls -> [state : {"idle", "running", "resolved", "rejected"}, host : Hosts]]
      /\ \A c \in Calls : c # d => call'[c] = call[c]
      /\ call'[d].state = IF call[d].state = "running" THEN Verdict(d, look') ELSE call[d].state
  BY <1>1 DEF Settle, TypeOK
<1>3. look' \in [Lookups -> [stage : Stages, via : Conns \cup {NoConn},
                             retry : 0 .. MaxRetries, address : Addresses \cup {Null}]]
  BY DEF TypeOK, Stages
<1>4. /\ look'[<<d, g>>] = r /\ look[<<d, g>>].stage = "asking"
      /\ \A c \in Calls, f \in Families : <<c, f>> # l => look'[<<c, f>>] = look[<<c, f>>]
  BY DEF TypeOK, Asking, Lookups
<1>5. ASSUME NEW c \in Calls
      PROVE  /\ call'[c].state = "resolved" =>
                  /\ \A f \in Families : look'[<<c, f>>].stage = "found"
                  /\ \E f \in Families : look'[<<c, f>>].address # Null
             /\ call'[c].state = "running" =>
                  /\ \A f \in Families : look'[<<c, f>>].stage # "failed"
                  /\ \E f \in Families : look'[<<c, f>>].stage # "found"
             /\ call'[c].state = "rejected" =>
                  \/ \E f \in Families : look'[<<c, f>>].stage = "failed"
                  \/ \A f \in Families : look'[<<c, f>>].stage = "found" /\ look'[<<c, f>>].address = Null
  <2>1. CASE c # d
    <3>1. call'[c] = call[c] /\ \A f \in Families : look'[<<c, f>>] = look[<<c, f>>]
      BY <1>2, <1>4, <2>1
    <3> QED
      BY <3>1 DEF CallsFollowLookups
  <2>2. CASE c = d /\ call[c].state = "running"
    BY <1>2, <2>2 DEF Verdict
  <2>3. CASE c = d /\ call[c].state # "running"
    <3>1. /\ call'[c].state = call[c].state
          /\ \A f \in Families : look[<<c, f>>].stage = "failed" => look'[<<c, f>>] = look[<<c, f>>]
      BY <1>2, <1>4, <2>3
    <3>2. ~ \A f \in Families : look[<<c, f>>].stage = "found"
      BY <1>4, <2>3
    <3> QED
      BY <2>3, <3>1, <3>2 DEF CallsFollowLookups
  <2> QED
    BY <2>1, <2>2, <2>3
<1> QED
  BY <1>2, <1>3, <1>5 DEF CallsFollowLookups

-----------------------------------------------------------------------------
(***************************************************************************)
(* Asking.                                                                 *)
(***************************************************************************)
LookType == [stage : Stages, via : Conns \cup {NoConn}, retry : 0 .. MaxRetries,
             address : Addresses \cup {Null}]

\* What is asked on a connection, and what is not.
LEMMA RouteType ==
  ASSUME TypeOK, NEW ls \in SUBSET Lookups, NEW route \in Routes(ls)
  PROVE  /\ route \in [ls -> Conns \cup {NoConn}]
         /\ ~Connects => \A l \in ls : route[l] = NoConn
<1>1. CASE ls = {} \/ ~Connects
  BY <1>1 DEF Routes
<1>2. CASE ls # {} /\ Connects
  <2>1. CASE ~Shared
    <3>1. route \in [ls -> Free]
      BY <1>2, <2>1 DEF Routes, Injection
    <3> QED
      BY <1>2, <3>1 DEF Free
  <2>2. CASE Shared /\ Reusable
    BY <1>2, <2>2 DEF Routes, Reusable
  <2>3. CASE Shared /\ ~Reusable
    BY <1>2, <2>3 DEF Routes, Free
  <2> QED
    BY <2>1, <2>2, <2>3
<1> QED
  BY <1>1, <1>2

\* Opening connections keeps the session unique, and touches none that is in use.
LEMMA Opened ==
  ASSUME TypeOK, OnePersistentClient, PeersChecked,
         NEW ls \in SUBSET Lookups, NEW route \in Routes(ls), Open(route), config' = config
  PROVE  /\ conn' \in [Conns -> [state : {"gone", "connecting", "secure", "closing"},
                                 peer : Peers \cup {"unknown"}]]
         /\ client' \in Conns \cup {NoConn}
         /\ OnePersistentClient' /\ PeersChecked'
         /\ \A k \in Conns : conn[k].state # "gone" => conn'[k] = conn[k]
         /\ \A k \in Conns : conn'[k].state # "gone" /\ conn[k].state = "gone" =>
                            \E l \in ls : route[l] = k
<1>1. route \in [ls -> Conns \cup {NoConn}]
  BY RouteType
<1>2. Range(route) = {route[l] : l \in ls}
  BY <1>1 DEF Range
<1>3. conn' = [k \in Conns |-> IF k \in Range(route) /\ conn[k] = Gone THEN Dialled ELSE conn[k]]
  BY DEF Open
<1>4. /\ conn' \in [Conns -> [state : {"gone", "connecting", "secure", "closing"},
                              peer : Peers \cup {"unknown"}]]
      /\ \A k \in Conns : conn[k].state # "gone" => conn'[k] = conn[k]
      /\ \A k \in Conns : conn'[k] = conn[k] \/ (k \in Range(route) /\ conn'[k].state = "connecting")
  <2> DEFINE Kept == [state : {"gone", "connecting", "secure", "closing"},
                      peer : Peers \cup {"unknown"}]
  <2>1. \A k \in Conns : conn[k] \in Kept
    BY DEF TypeOK
  <2>2. Dialled \in Kept /\ Dialled.state = "connecting" /\ Gone.state = "gone"
    BY DEF Dialled, Gone
  <2>3. \A k \in Conns : conn'[k] = IF k \in Range(route) /\ conn[k] = Gone THEN Dialled ELSE conn[k]
    BY <1>3
  <2>4. conn' \in [Conns -> Kept]
    <3>1. \A k \in Conns : conn'[k] \in Kept
      BY <2>1, <2>2, <2>3
    <3> HIDE DEF Kept
    <3> QED
      BY <1>3, <3>1
  <2>5. \A k \in Conns : conn[k].state # "gone" => conn'[k] = conn[k]
    BY <2>2, <2>3
  <2>6. \A k \in Conns : conn'[k] = conn[k] \/ (k \in Range(route) /\ conn'[k].state = "connecting")
    BY <2>2, <2>3
  <2> QED
    BY <2>4, <2>5, <2>6, Zenon
<1>5. client' \in Conns \cup {NoConn}
  BY <1>1, <1>2 DEF Open, TypeOK
<1>6. PeersChecked'
  BY <1>4 DEF PeersChecked
<1>7. OnePersistentClient'
  <2> SUFFICES ASSUME Shared
               PROVE  \A k \in Conns : conn'[k].state \in {"connecting", "secure"} => k = client'
    BY DEF OnePersistentClient, Shared, UsesDoh
  <2>1. CASE ls = {}
    BY <1>2, <1>4, <2>1 DEF Open, OnePersistentClient
  <2>2. CASE ls # {} /\ Reusable
    <3>1. \A l \in ls : route[l] = client
      BY <2>2 DEF Routes, Shared, Connects
    <3>2. Range(route) = {client}
      BY <1>2, <2>2, <3>1
    <3>3. client' = client
      BY <3>2 DEF Open
    <3> QED
      BY <1>4, <3>2, <3>3 DEF OnePersistentClient
  <2>3. CASE ls # {} /\ ~Reusable
    <3>1. PICK k \in Free : route = [l \in ls |-> k]
      BY <2>3 DEF Routes, Shared, Connects
    <3>2. Range(route) = {k}
      BY <1>2, <2>3, <3>1
    <3>3. client' = k
      BY <3>2 DEF Open
    <3>4. \A j \in Conns : conn[j].state \notin {"connecting", "secure"}
      BY <2>3 DEF OnePersistentClient, Reusable
    <3> QED
      BY <1>4, <3>2, <3>3, <3>4
  <2> QED
    BY <2>1, <2>2, <2>3
<1> QED
  BY <1>2, <1>4, <1>5, <1>6, <1>7

\* A call asks its questions, or takes what is cached (lines 76-105).
LEMMA ResolveStep ==
  ASSUME ResolverInv, NEW c \in Calls, NEW h \in Hosts, Resolve(c, h)
  PROVE  ResolverInv'
<1> DEFINE misses == {l \in {c} \X Families : cache[<<h, l[2]>>] = Missing}
<1>1. PICK route \in Routes(misses) :
        /\ Open(route)
        /\ look' = [l \in Lookups |->
              IF l[1] # c THEN look[l]
              ELSE IF l \notin misses THEN Found(cache[<<h, l[2]>>])
              ELSE IF config.mode \in Modes THEN Asked(route[l]) ELSE Failed]
  BY DEF Resolve
<1>2. misses \in SUBSET Lookups /\ TypeOK
  BY DEF Lookups, ResolverInv
<1>3. /\ config' = config /\ cache' = cache
      /\ call' = [call EXCEPT ![c] = [host |-> h, state |-> Verdict(c, look')]]
      /\ call[c].state # "running" /\ \A f \in Families : ~InFlight(<<c, f>>)
  BY DEF Resolve
<1>4. \A l \in Lookups : l = <<l[1], l[2]>> /\ l[1] \in Calls /\ l[2] \in Families
  BY DEF Lookups
<1>5. \A l \in Lookups : l[1] = c /\ l \notin misses => cache[<<h, l[2]>>] \in Addresses \cup {Null}
  BY <1>2, <1>4 DEF TypeOK
<1>6. route \in [misses -> Conns \cup {NoConn}]
  BY <1>1, <1>2, RouteType
<1> HIDE DEF misses
<1>7. \A l \in Lookups : look'[l] \in LookType
  <2> SUFFICES ASSUME NEW l \in Lookups PROVE look'[l] \in LookType
    OBVIOUS
  <2>1. look[l] \in LookType
    BY <1>2 DEF TypeOK, LookType
  <2>2. 0 \in 0 .. MaxRetries
    BY ResolverAssumption
  <2> QED
    BY <1>1, <1>5, <1>6, <2>1, <2>2 DEF LookType, Found, Asked, Failed, Idle, Stages
<1>8. look' \in [Lookups -> LookType]
  BY <1>1, <1>7
<1>9. Verdict(c, look') \in {"running", "resolved", "rejected"}
  BY DEF Verdict
<1>10. /\ conn' \in [Conns -> [state : {"gone", "connecting", "secure", "closing"},
                                peer : Peers \cup {"unknown"}]]
       /\ client' \in Conns \cup {NoConn}
       /\ OnePersistentClient' /\ PeersChecked'
       /\ \A k \in Conns : conn[k].state # "gone" => conn'[k] = conn[k]
       /\ \A k \in Conns : conn'[k].state # "gone" /\ conn[k].state = "gone" =>
                          \E l \in misses : route[l] = k
  BY <1>1, <1>2, <1>3, Opened DEF ResolverInv
<1>11. TypeOK'
  BY <1>2, <1>3, <1>8, <1>9, <1>10 DEF TypeOK, LookType
<1>12. PlainUsesNone'
  <2> SUFFICES ASSUME config.mode = "plain", NEW l \in Lookups PROVE look'[l].via = NoConn
    BY <1>3 DEF PlainUsesNone
  <2>1. \A m \in misses : route[m] = NoConn
    BY <1>1, <1>2, RouteType DEF Connects, UsesDoh, UsesDot
  <2> QED
    BY <1>1, <2>1 DEF ResolverInv, PlainUsesNone, Found, Asked, Failed, Idle
<1>13. CallsFollowLookups'
  <2>1. /\ \A d \in Calls : d # c => call'[d] = call[d]
        /\ call'[c].state = Verdict(c, look')
    BY <1>2, <1>3 DEF TypeOK
  <2>2. \A d \in Calls, f \in Families : d # c => look'[<<d, f>>] = look[<<d, f>>]
    BY <1>1 DEF Lookups
  <2>3. ASSUME NEW d \in Calls
        PROVE  /\ call'[d].state = "resolved" =>
                    /\ \A f \in Families : look'[<<d, f>>].stage = "found"
                    /\ \E f \in Families : look'[<<d, f>>].address # Null
               /\ call'[d].state = "running" =>
                    /\ \A f \in Families : look'[<<d, f>>].stage # "failed"
                    /\ \E f \in Families : look'[<<d, f>>].stage # "found"
               /\ call'[d].state = "rejected" =>
                    \/ \E f \in Families : look'[<<d, f>>].stage = "failed"
                    \/ \A f \in Families : look'[<<d, f>>].stage = "found" /\ look'[<<d, f>>].address = Null
    <3>1. CASE d # c
      <4>1. call'[d] = call[d] /\ \A f \in Families : look'[<<d, f>>] = look[<<d, f>>]
        BY <2>1, <2>2, <3>1
      <4> QED
        BY <4>1 DEF ResolverInv, CallsFollowLookups
    <3>2. CASE d = c
      BY <2>1, <3>2 DEF Verdict
    <3> QED
      BY <3>1, <3>2
  <2> QED
    BY <2>3 DEF CallsFollowLookups
<1>14. AddressesOverridden'
  <2>1. \A l \in Lookups : look'[l].address \in {Override[a] : a \in Addresses} \cup {Null}
    <3> SUFFICES ASSUME NEW l \in Lookups
                 PROVE  look'[l].address \in {Override[a] : a \in Addresses} \cup {Null}
      OBVIOUS
    <3>1. CASE l[1] = c /\ l \notin misses
      <4>1. /\ look'[l].address = cache[<<h, l[2]>>] /\ cache[<<h, l[2]>>] # Missing
            /\ <<h, l[2]>> \in Hosts \X Families
        BY <1>1, <1>4, <1>5, <3>1, ResolverAssumption DEF Found, Idle
      <4> QED
        BY <4>1 DEF ResolverInv, AddressesOverridden
    <3>2. CASE l[1] # c
      BY <1>1, <3>2 DEF ResolverInv, AddressesOverridden
    <3>3. CASE l \in misses /\ l[1] = c
      BY <1>1, <3>3 DEF Asked, Failed, Idle
    <3> QED
      BY <3>1, <3>2, <3>3
  <2> QED
    BY <1>3, <2>1 DEF ResolverInv, AddressesOverridden
<1>15. DotSocketsReleased'
  <2> SUFFICES ASSUME UsesDot, NEW k \in Conns, conn'[k].state # "gone"
               PROVE  \E l \in Lookups : look'[l].stage = "asking" /\ look'[l].via = k
    BY <1>3 DEF DotSocketsReleased, UsesDot, Users, Asking
  <2>1. CASE conn[k].state # "gone"
    <3>1. PICK l \in Lookups : look[l].stage = "asking" /\ look[l].via = k
      BY <2>1 DEF ResolverInv, DotSocketsReleased, Users, Asking
    <3>2. l[1] # c
      BY <1>3, <1>4, <3>1 DEF InFlight
    <3> QED
      BY <1>1, <3>1, <3>2
  <2>2. CASE conn[k].state = "gone"
    <3>1. PICK l \in misses : route[l] = k
      BY <1>10, <2>2
    <3>2. l \in Lookups /\ l[1] = c /\ config.mode \in Modes
      BY <1>2 DEF misses, UsesDot, Modes
    <3> QED
      BY <1>1, <3>1, <3>2 DEF Asked, Idle
  <2> QED
    BY <2>1, <2>2
<1> QED
  BY <1>10, <1>11, <1>12, <1>13, <1>14, <1>15 DEF ResolverInv

-----------------------------------------------------------------------------
(***************************************************************************)
(* Answers and failures.                                                   *)
(***************************************************************************)
ConnType == [state : {"gone", "connecting", "secure", "closing"},
             peer : Peers \cup {"unknown"}]

\* A connection is let go of by the lookup that asked on it, and kept for the others.
LEMMA Left ==
  ASSUME ResolverInv, NEW l \in Lookups, Asking(l), config' = config,
         Finish(l) \/ (~UsesDot /\ UNCHANGED <<conn, client>>),
         \A m \in Lookups \ {l} : look'[m] = look[m]
  PROVE  /\ conn' \in [Conns -> ConnType] /\ client' \in Conns \cup {NoConn}
         /\ OnePersistentClient' /\ PeersChecked' /\ DotSocketsReleased'
<1>1. /\ conn \in [Conns -> ConnType] /\ client' = client /\ client \in Conns \cup {NoConn}
      /\ NoConn \notin Conns /\ look[l].via \in Conns \cup {NoConn}
  BY ResolverAssumption DEF ResolverInv, TypeOK, ConnType, Finish
<1>2. Gone \in ConnType /\ Gone.state = "gone"
  BY DEF ConnType, Gone
<1>3. conn' = conn \/ (~Shared /\ conn' = [conn EXCEPT ![look[l].via] = Gone])
  BY DEF Finish
<1>4. conn' \in [Conns -> ConnType]
  <2> HIDE DEF ConnType
  <2> QED
    BY <1>1, <1>2, <1>3
<1>5. \A k \in Conns : conn'[k] = conn[k] \/ (k = look[l].via /\ conn'[k].state = "gone")
  BY <1>1, <1>2, <1>3
<1>6. OnePersistentClient' /\ PeersChecked'
  BY <1>1, <1>5 DEF ResolverInv, OnePersistentClient, PeersChecked, Shared, UsesDoh
<1>7. DotSocketsReleased'
  <2> SUFFICES ASSUME UsesDot, NEW k \in Conns, conn'[k].state # "gone"
               PROVE  \E m \in Lookups : look'[m].stage = "asking" /\ look'[m].via = k
    BY DEF DotSocketsReleased, UsesDot, Users, Asking
  <2>1. conn' = [conn EXCEPT ![look[l].via] = Gone]
    BY DEF Finish, Shared, UsesDot, UsesDoh
  <2>2. k # look[l].via /\ conn[k].state # "gone"
    BY <1>1, <1>2, <2>1
  <2>3. PICK m \in Lookups : look[m].stage = "asking" /\ look[m].via = k
    BY <2>2 DEF ResolverInv, DotSocketsReleased, Users, Asking
  <2>4. m # l
    BY <2>2, <2>3
  <2> QED
    BY <2>3, <2>4
<1> QED
  BY <1>1, <1>4, <1>6, <1>7

\* A lookup fails, and rejects its call.
LEMMA FailStep ==
  ASSUME ResolverInv, NEW l \in Lookups, Asking(l), config' = config,
         Finish(l) \/ (~UsesDot /\ UNCHANGED <<conn, client>>), Fail(l)
  PROVE  ResolverInv'
<1>1. look' = [look EXCEPT ![l] = Failed] /\ Settle(l[1]) /\ cache' = cache
  BY DEF Fail
<1>2. look \in [Lookups -> LookType]
  BY DEF ResolverInv, TypeOK, LookType
<1>3. /\ Failed \in [stage : {"found", "failed"}, via : Conns \cup {NoConn},
                     retry : 0 .. MaxRetries, address : Addresses \cup {Null}]
      /\ Failed.via = NoConn /\ Failed.address = Null
  BY ResolverAssumption DEF Failed, Idle
<1>4. /\ CallsFollowLookups'
      /\ call' \in [Calls -> [state : {"idle", "running", "resolved", "rejected"}, host : Hosts]]
      /\ look' \in [Lookups -> LookType]
  BY <1>1, <1>3, Settled DEF ResolverInv, LookType
<1>5. \A m \in Lookups : look'[m] = IF m = l THEN Failed ELSE look[m]
  BY <1>1, <1>2
<1>6. /\ conn' \in [Conns -> ConnType] /\ client' \in Conns \cup {NoConn}
      /\ OnePersistentClient' /\ PeersChecked' /\ DotSocketsReleased'
  BY <1>5, Left
<1>7. TypeOK'
  BY <1>1, <1>4, <1>6 DEF ResolverInv, TypeOK, LookType, ConnType
<1>8. PlainUsesNone' /\ AddressesOverridden'
  BY <1>1, <1>3, <1>5 DEF ResolverInv, PlainUsesNone, AddressesOverridden
<1> QED
  BY <1>4, <1>6, <1>7, <1>8 DEF ResolverInv

\* A lookup finds an address, or that there is none.
LEMMA AnsweredStep ==
  ASSUME ResolverInv, NEW l \in Lookups, Asking(l), config' = config,
         Finish(l) \/ (~UsesDot /\ UNCHANGED <<conn, client>>),
         NEW a \in Addresses \cup {Null}, Answered(l, a)
  PROVE  ResolverInv'
<1>0. Overridden(a) \in Addresses \cup {Null}
  BY ResolverAssumption DEF Overridden
<1> PICK b \in Addresses \cup {Null} : b = Overridden(a)
  BY <1>0
<1>1. /\ look' = [look EXCEPT ![l] = Found(b)] /\ Settle(l[1])
      /\ cache' = [cache EXCEPT ![<<call[l[1]].host, l[2]>>] = b]
  BY DEF Answered
<1>2. b \in {Override[x] : x \in Addresses} \cup {Null}
  BY ResolverAssumption DEF Overridden
<1>3. /\ look \in [Lookups -> LookType]
      /\ cache \in [Hosts \X Families -> Addresses \cup {Null, Missing}]
  BY DEF ResolverInv, TypeOK, LookType
<1>4. /\ Found(b) \in [stage : {"found", "failed"}, via : Conns \cup {NoConn},
                       retry : 0 .. MaxRetries, address : Addresses \cup {Null}]
      /\ Found(b).via = NoConn /\ Found(b).address = b
  <2>1. 0 \in 0 .. MaxRetries
    BY ResolverAssumption
  <2>2. Found(b) \in [stage : {"found", "failed"}, via : Conns \cup {NoConn},
                      retry : 0 .. MaxRetries, address : Addresses \cup {Null}]
    BY <2>1 DEF Found, Idle
  <2>3. Found(b).via = NoConn /\ Found(b).address = b
    BY DEF Found, Idle
  <2> QED
    BY <2>2, <2>3
<1>5. /\ CallsFollowLookups'
      /\ call' \in [Calls -> [state : {"idle", "running", "resolved", "rejected"}, host : Hosts]]
      /\ look' \in [Lookups -> LookType]
  BY <1>1, <1>4, Settled DEF ResolverInv, LookType
<1>6. \A m \in Lookups : look'[m] = IF m = l THEN Found(b) ELSE look[m]
  BY <1>1, <1>3
<1>7. /\ conn' \in [Conns -> ConnType] /\ client' \in Conns \cup {NoConn}
      /\ OnePersistentClient' /\ PeersChecked' /\ DotSocketsReleased'
  BY <1>6, Left
<1>8. /\ cache' \in [Hosts \X Families -> Addresses \cup {Null, Missing}]
      /\ \A e \in Hosts \X Families : cache'[e] = cache[e] \/ cache'[e] = b
  BY <1>1, <1>2, <1>3
<1>9. TypeOK'
  BY <1>5, <1>7, <1>8 DEF ResolverInv, TypeOK, LookType, ConnType
<1>10. PlainUsesNone'
  BY <1>4, <1>6 DEF ResolverInv, PlainUsesNone
<1>11. AddressesOverridden'
  BY <1>2, <1>4, <1>6, <1>8 DEF ResolverInv, AddressesOverridden
<1> QED
  BY <1>5, <1>7, <1>9, <1>10, <1>11 DEF ResolverInv

\* A lookup gets nowhere: it will ask again, or never hear anything any more.
LEMMA PausedStep ==
  ASSUME ResolverInv, NEW l \in Lookups, Asking(l), UNCHANGED <<config, call, cache>>,
         Finish(l) \/ (~UsesDot /\ UNCHANGED <<conn, client>>),
         NEW r \in LookType, r.stage \notin {"found", "failed"}, r.via = NoConn,
         r.address \in {Null, look[l].address},
         look' = [look EXCEPT ![l] = r]
  PROVE  ResolverInv'
<1>1. look \in [Lookups -> LookType]
  BY DEF ResolverInv, TypeOK, LookType
<1>2. look' \in [Lookups -> LookType] /\ \A m \in Lookups : look'[m] = IF m = l THEN r ELSE look[m]
  <2> HIDE DEF LookType
  <2> QED
    BY <1>1
<1>3. CallsFollowLookups'
  <2>1. {l} \in SUBSET {m \in Lookups : InFlight(m)}
    BY DEF Asking, InFlight
  <2>2. \A m \in {l} : look'[m].stage \notin {"found", "failed"}
    BY <1>2
  <2>3. \A m \in Lookups \ {l} : look'[m] = look[m]
    BY <1>2
  <2> QED
    BY <1>2, <2>1, <2>2, <2>3, Pending DEF ResolverInv, LookType
<1>4. /\ conn' \in [Conns -> ConnType] /\ client' \in Conns \cup {NoConn}
      /\ OnePersistentClient' /\ PeersChecked' /\ DotSocketsReleased'
  BY <1>2, Left
<1>5. TypeOK'
  BY <1>2, <1>4 DEF ResolverInv, TypeOK, LookType, ConnType
<1>6. PlainUsesNone' /\ AddressesOverridden'
  BY <1>2 DEF ResolverInv, PlainUsesNone, AddressesOverridden
<1> QED
  BY <1>3, <1>4, <1>5, <1>6 DEF ResolverInv

\* A question is asked again.
LEMMA RetryStep ==
  ASSUME ResolverInv, NEW l \in Lookups, Retry(l)
  PROVE  ResolverInv'
<1>1. PICK route \in Routes({l}) :
        /\ Open(route)
        /\ look' = [look EXCEPT ![l].stage = "asking", ![l].via = route[l]]
  BY DEF Retry
<1>2. /\ UNCHANGED <<config, call, cache>> /\ look[l].stage = "backoff" /\ {l} \in SUBSET Lookups
      /\ look \in [Lookups -> LookType] /\ TypeOK
  BY DEF Retry, ResolverInv, TypeOK, LookType
<1>3. /\ route \in [{l} -> Conns \cup {NoConn}]
      /\ ~Connects => \A m \in {l} : route[m] = NoConn
  BY <1>1, <1>2, RouteType
<1> DEFINE r == [look[l] EXCEPT !.stage = "asking", !.via = route[l]]
<1>4. /\ r \in LookType /\ r.stage = "asking" /\ r.via = route[l] /\ r.address = look[l].address
  <2>1. look[l] \in LookType /\ route[l] \in Conns \cup {NoConn}
    BY <1>2, <1>3
  <2> QED
    BY <2>1 DEF LookType, Stages
<1>5. look' = [look EXCEPT ![l] = r]
  BY <1>1, <1>2
<1> HIDE DEF r
<1>6. look' \in [Lookups -> LookType] /\ \A m \in Lookups : look'[m] = IF m = l THEN r ELSE look[m]
  <2> HIDE DEF LookType
  <2> QED
    BY <1>2, <1>4, <1>5
<1>7. CallsFollowLookups'
  <2>1. {l} \in SUBSET {m \in Lookups : InFlight(m)}
    BY <1>2 DEF InFlight
  <2>2. \A m \in {l} : look'[m].stage \notin {"found", "failed"}
    BY <1>4, <1>6
  <2>3. \A m \in Lookups \ {l} : look'[m] = look[m]
    BY <1>6
  <2> QED
    BY <1>2, <1>6, <2>1, <2>2, <2>3, Pending DEF ResolverInv, LookType
<1>8. /\ conn' \in [Conns -> ConnType]
      /\ client' \in Conns \cup {NoConn}
      /\ OnePersistentClient' /\ PeersChecked'
      /\ \A k \in Conns : conn'[k].state # "gone" /\ conn[k].state = "gone" =>
                         \E m \in {l} : route[m] = k
  BY <1>1, <1>2, Opened DEF ResolverInv, ConnType
<1>9. TypeOK'
  BY <1>2, <1>6, <1>8 DEF TypeOK, LookType, ConnType
<1>10. PlainUsesNone'
  BY <1>2, <1>3, <1>4, <1>6 DEF ResolverInv, PlainUsesNone, Connects, UsesDoh, UsesDot
<1>11. AddressesOverridden'
  BY <1>2, <1>4, <1>6 DEF ResolverInv, AddressesOverridden
<1>12. DotSocketsReleased'
  <2> SUFFICES ASSUME UsesDot, NEW k \in Conns, conn'[k].state # "gone"
               PROVE  \E m \in Lookups : look'[m].stage = "asking" /\ look'[m].via = k
    BY <1>2 DEF DotSocketsReleased, UsesDot, Users, Asking
  <2>1. CASE conn[k].state # "gone"
    <3>1. PICK m \in Lookups : look[m].stage = "asking" /\ look[m].via = k
      BY <2>1 DEF ResolverInv, DotSocketsReleased, Users, Asking
    <3> QED
      BY <1>2, <1>6, <3>1
  <2>2. CASE conn[k].state = "gone"
    <3>1. route[l] = k
      BY <1>8, <2>2
    <3> QED
      BY <1>4, <1>6, <3>1
  <2> QED
    BY <2>1, <2>2
<1> QED
  BY <1>7, <1>8, <1>9, <1>10, <1>11, <1>12 DEF ResolverInv

-----------------------------------------------------------------------------
(***************************************************************************)
(* Connections.                                                            *)
(***************************************************************************)
\* A connection may get another state, if it does not come back and its peer is checked.
LEMMA ConnStep ==
  ASSUME ResolverInv, UNCHANGED <<config, call, look, cache, client>>,
         NEW k \in Conns, NEW s \in ConnType, conn' = [conn EXCEPT ![k] = s],
         conn[k].state # "gone",
         s.state \in {"connecting", "secure"} => conn[k].state \in {"connecting", "secure"},
         config.pinned /\ s.state \in {"secure", "closing"} => s.peer = "pinned"
  PROVE  ResolverInv'
<1>1. conn \in [Conns -> ConnType]
  BY DEF ResolverInv, TypeOK, ConnType
<1>2. conn' \in [Conns -> ConnType] /\ \A j \in Conns : conn'[j] = IF j = k THEN s ELSE conn[j]
  <2> HIDE DEF ConnType
  <2> QED
    BY <1>1
<1>3. TypeOK'
  BY <1>2 DEF ResolverInv, TypeOK, ConnType
<1>4. PeersChecked' /\ OnePersistentClient'
  BY <1>2 DEF ResolverInv, PeersChecked, OnePersistentClient, Shared, UsesDoh
<1>5. DotSocketsReleased'
  BY <1>2 DEF ResolverInv, DotSocketsReleased, UsesDot, Users, Asking
<1>6. PlainUsesNone' /\ AddressesOverridden' /\ CallsFollowLookups'
  BY DEF ResolverInv, PlainUsesNone, AddressesOverridden, CallsFollowLookups
<1> QED
  BY <1>3, <1>4, <1>5, <1>6 DEF ResolverInv

\* The server ends a connection: the questions on it are never answered.
LEMMA DropStep ==
  ASSUME ResolverInv, NEW k \in Conns, Drop(k)
  PROVE  ResolverInv'
<1>1. /\ look' = [l \in Lookups |-> IF l \in Users(k) THEN Mute ELSE look[l]]
      /\ conn' = [conn EXCEPT ![k] = Gone] /\ UNCHANGED <<config, call, cache, client>>
  BY DEF Drop
<1>2. look \in [Lookups -> LookType] /\ conn \in [Conns -> ConnType]
  BY DEF ResolverInv, TypeOK, LookType, ConnType
<1>3. /\ Mute \in LookType /\ Mute.via = NoConn /\ Mute.address = Null /\ Mute.stage = "mute"
      /\ Gone \in ConnType /\ Gone.state = "gone"
  BY ResolverAssumption DEF Mute, Idle, LookType, Stages, Gone, ConnType
<1>4. /\ look' \in [Lookups -> LookType]
      /\ \A l \in Lookups : look'[l] = IF l \in Users(k) THEN Mute ELSE look[l]
  <2> HIDE DEF LookType
  <2> QED
    BY <1>1, <1>2, <1>3
<1>5. conn' \in [Conns -> ConnType] /\ \A j \in Conns : conn'[j] = IF j = k THEN Gone ELSE conn[j]
  <2> HIDE DEF ConnType
  <2> QED
    BY <1>1, <1>2, <1>3
<1>6. CallsFollowLookups'
  <2>1. Users(k) \in SUBSET {m \in Lookups : InFlight(m)}
    BY DEF Users, Asking, InFlight
  <2>2. \A m \in Users(k) : look'[m].stage \notin {"found", "failed"}
    BY <1>3, <1>4 DEF Users
  <2>3. \A m \in Lookups \ Users(k) : look'[m] = look[m]
    BY <1>4
  <2> QED
    BY <1>1, <1>4, <2>1, <2>2, <2>3, Pending DEF ResolverInv, LookType
<1>7. TypeOK'
  BY <1>1, <1>4, <1>5 DEF ResolverInv, TypeOK, LookType, ConnType
<1>8. PeersChecked' /\ OnePersistentClient'
  BY <1>1, <1>3, <1>5 DEF ResolverInv, PeersChecked, OnePersistentClient, Shared, UsesDoh
<1>9. PlainUsesNone' /\ AddressesOverridden'
  BY <1>1, <1>3, <1>4 DEF ResolverInv, PlainUsesNone, AddressesOverridden
<1>10. DotSocketsReleased'
  <2> SUFFICES ASSUME UsesDot, NEW j \in Conns, conn'[j].state # "gone"
               PROVE  \E l \in Lookups : look'[l].stage = "asking" /\ look'[l].via = j
    BY <1>1 DEF DotSocketsReleased, UsesDot, Users, Asking
  <2>1. j # k /\ conn[j].state # "gone"
    BY <1>3, <1>5
  <2>2. PICK l \in Lookups : look[l].stage = "asking" /\ look[l].via = j
    BY <2>1 DEF ResolverInv, DotSocketsReleased, Users, Asking
  <2>3. l \notin Users(k)
    BY <2>1, <2>2 DEF Users
  <2> QED
    BY <1>4, <2>2, <2>3
<1> QED
  BY <1>6, <1>7, <1>8, <1>9, <1>10 DEF ResolverInv

\* The cache forgets an entry.
LEMMA ForgetStep ==
  ASSUME ResolverInv, NEW h \in Hosts, NEW f \in Families, Forget(h, f)
  PROVE  ResolverInv'
<1>1. /\ cache' = [cache EXCEPT ![<<h, f>>] = Missing]
      /\ UNCHANGED <<config, call, look, conn, client>>
  BY DEF Forget
<1>2. cache' \in [Hosts \X Families -> Addresses \cup {Null, Missing}]
  BY <1>1 DEF ResolverInv, TypeOK
<1>3. \A e \in Hosts \X Families : cache'[e] = cache[e] \/ cache'[e] = Missing
  BY <1>1 DEF ResolverInv, TypeOK
<1>4. TypeOK'
  BY <1>1, <1>2 DEF ResolverInv, TypeOK
<1>5. AddressesOverridden'
  BY <1>1, <1>3 DEF ResolverInv, AddressesOverridden
<1>6. PeersChecked' /\ PlainUsesNone' /\ CallsFollowLookups'
  BY <1>1 DEF ResolverInv, PeersChecked, PlainUsesNone, CallsFollowLookups
<1>7. OnePersistentClient' /\ DotSocketsReleased'
  BY <1>1 DEF ResolverInv, OnePersistentClient, DotSocketsReleased, Shared, UsesDoh, UsesDot,
              Users, Asking
<1> QED
  BY <1>4, <1>5, <1>6, <1>7 DEF ResolverInv

-----------------------------------------------------------------------------
(***************************************************************************)
(* The theorems.                                                           *)
(***************************************************************************)
\* What happens to a lookup: an answer, a failure, a retry.
LEMMA EventStep ==
  ASSUME ResolverInv, NEW l \in Lookups, Event(l)
  PROVE  ResolverInv'
<1>1. ASSUME PlainAnswer(l) PROVE ResolverInv'
  BY <1>1, AnsweredStep DEF PlainAnswer, UsesDot
<1>2. ASSUME Answer(l) PROVE ResolverInv'
  BY <1>2, AnsweredStep DEF Answer, Heard, Finish
<1>3. ASSUME BadAnswer(l) PROVE ResolverInv'
  BY <1>3, FailStep DEF BadAnswer, Heard, Finish
<1>4. ASSUME EmptyAnswer(l) PROVE ResolverInv'
  <2>1. /\ Mute \in LookType /\ Mute.stage \notin {"found", "failed"}
        /\ Mute.via = NoConn /\ Mute.address = Null
    BY ResolverAssumption DEF Mute, Idle, LookType, Stages
  <2> QED
    BY <1>4, <2>1, PausedStep DEF EmptyAnswer, Heard, Finish
<1>5. ASSUME DohError(l) PROVE ResolverInv'
  BY <1>5, FailStep DEF DohError, UsesDoh, UsesDot
<1>6. ASSUME Refused(l) PROVE ResolverInv'
  <2>1. /\ Asking(l) /\ ~UsesDot /\ config' = config /\ UNCHANGED <<conn, client>>
    BY <1>6 DEF Refused, Heard, UsesDoh, UsesDot
  <2>2. ASSUME Fail(l) PROVE ResolverInv'
    BY <2>1, <2>2, FailStep
  <2>3. ASSUME look[l].retry < MaxRetries, UNCHANGED <<call, cache>>,
               look' = [look EXCEPT ![l].stage = "backoff", ![l].via = NoConn, ![l].retry = @ + 1]
        PROVE  ResolverInv'
    <3> DEFINE r == [look[l] EXCEPT !.stage = "backoff", !.via = NoConn, !.retry = @ + 1]
    <3>1. look[l] \in LookType
      BY DEF ResolverInv, TypeOK, LookType
    <3>2. look[l].retry + 1 \in 0 .. MaxRetries
      BY <2>3, <3>1, ResolverAssumption DEF LookType
    <3>3. /\ r \in LookType /\ r.stage \notin {"found", "failed"}
          /\ r.via = NoConn /\ r.address = look[l].address
      BY <3>1, <3>2 DEF LookType, Stages
    <3>4. look' = [look EXCEPT ![l] = r]
      BY <2>3
    <3> HIDE DEF r
    <3> QED
      BY <2>1, <2>3, <3>3, <3>4, PausedStep
  <2> QED
    BY <1>6, <2>2, <2>3 DEF Refused
<1>7. ASSUME DotError(l) PROVE ResolverInv'
  BY <1>7, FailStep DEF DotError, Finish
<1>8. ASSUME Retry(l) PROVE ResolverInv'
  BY <1>8, RetryStep
<1> QED
  BY <1>1, <1>2, <1>3, <1>4, <1>5, <1>6, <1>7, <1>8 DEF Event

\* What happens to a connection.
LEMMA ConnectionStep ==
  ASSUME ResolverInv, NEW k \in Conns,
         Secure(k) \/ Break(k) \/ GoAway(k) \/ Closed(k) \/ Drop(k)
  PROVE  ResolverInv'
<1>0. conn[k] \in ConnType /\ Gone \in ConnType /\ Gone.state = "gone"
  BY DEF ResolverInv, TypeOK, ConnType, Gone
<1>1. ASSUME Secure(k) PROVE ResolverInv'
  <2>1. PICK p \in Peers :
          conn' = [conn EXCEPT ![k] = IF config.pinned /\ p # "pinned" THEN Gone
                                      ELSE [state |-> "secure", peer |-> p]]
    BY <1>1 DEF Secure
  <2>2. CASE config.pinned /\ p # "pinned"
    BY <1>0, <1>1, <2>1, <2>2, ConnStep DEF Secure
  <2>3. CASE ~(config.pinned /\ p # "pinned")
    <3> DEFINE s == [state |-> "secure", peer |-> p]
    <3>1. s \in ConnType /\ s.state = "secure" /\ s.peer = p
      BY DEF ConnType
    <3>2. conn' = [conn EXCEPT ![k] = s]
      BY <2>1, <2>3
    <3> HIDE DEF s
    <3> QED
      BY <1>1, <2>3, <3>1, <3>2, ConnStep DEF Secure
  <2> QED
    BY <2>2, <2>3
<1>2. ASSUME Break(k) PROVE ResolverInv'
  BY <1>0, <1>2, ConnStep DEF Break
<1>3. ASSUME GoAway(k) PROVE ResolverInv'
  <2> DEFINE s == [conn[k] EXCEPT !.state = "closing"]
  <2>1. s \in ConnType /\ s.state = "closing" /\ s.peer = conn[k].peer
    BY <1>0 DEF ConnType
  <2>2. conn' = [conn EXCEPT ![k] = s] /\ conn[k].state = "secure"
    BY <1>3 DEF GoAway
  <2>3. config.pinned => s.peer = "pinned"
    BY <2>1, <2>2 DEF ResolverInv, PeersChecked
  <2> HIDE DEF s
  <2> QED
    BY <1>3, <2>1, <2>2, <2>3, ConnStep DEF GoAway
<1>4. ASSUME Closed(k) PROVE ResolverInv'
  BY <1>0, <1>4, ConnStep DEF Closed
<1>5. ASSUME Drop(k) PROVE ResolverInv'
  BY <1>5, DropStep
<1> QED
  BY <1>1, <1>2, <1>3, <1>4, <1>5

\* Every step of the resolver keeps the invariant.
LEMMA ResolverStep == ResolverInv /\ [Next]_vars => ResolverInv'
<1> SUFFICES ASSUME ResolverInv, [Next]_vars PROVE ResolverInv'
  OBVIOUS
<1>1. ASSUME NEW c \in Calls, NEW h \in Hosts, Resolve(c, h) PROVE ResolverInv'
  BY <1>1, ResolveStep
<1>2. ASSUME NEW h \in Hosts, NEW f \in Families, Forget(h, f) PROVE ResolverInv'
  BY <1>2, ForgetStep
<1>3. ASSUME NEW l \in Lookups, Event(l) PROVE ResolverInv'
  BY <1>3, EventStep
<1>4. ASSUME NEW k \in Conns, Secure(k) \/ Break(k) \/ GoAway(k) \/ Closed(k) \/ Drop(k)
      PROVE  ResolverInv'
  BY <1>4, ConnectionStep
<1>5. CASE UNCHANGED vars
  <2>1. UNCHANGED <<config, call, look, cache, conn, client>>
    BY <1>5 DEF vars
  <2>2. TypeOK' /\ PeersChecked' /\ PlainUsesNone'
    BY <2>1 DEF ResolverInv, TypeOK, PeersChecked, PlainUsesNone
  <2>3. CallsFollowLookups' /\ AddressesOverridden'
    BY <2>1 DEF ResolverInv, CallsFollowLookups, AddressesOverridden
  <2>4. OnePersistentClient' /\ DotSocketsReleased'
    BY <2>1 DEF ResolverInv, OnePersistentClient, DotSocketsReleased, Shared, UsesDoh, UsesDot,
                Users, Asking
  <2> QED
    BY <2>2, <2>3, <2>4 DEF ResolverInv
<1> QED
  BY <1>1, <1>2, <1>3, <1>4, <1>5 DEF Next

\* The inductive invariant holds in every behaviour.
THEOREM ResolverInvariant == Spec => []ResolverInv
<1>1. Init => ResolverInv
  BY ResolverInit
<1>2. ResolverInv /\ [Next]_vars => ResolverInv'
  BY ResolverStep
<1> QED
  BY <1>1, <1>2, PTL DEF Spec

\* The state of the resolver has its type in every behaviour: in particular no lookup
\* is asked again more often than MaxRetries says.
THEOREM TypeCorrect == Spec => []TypeOK
BY ResolverInvariant, PTL DEF ResolverInv

\* However the answers of concurrent calls interleave with failures, retries and dying
\* connections, a call is settled exactly as its two lookups say.
THEOREM CallsSettleAsTheirLookups == Spec => []CallsFollowLookups
BY ResolverInvariant, PTL DEF ResolverInv

\* At most one DoH session is open for new questions, and it is the one that is kept.
THEOREM OneSession == Spec => []OnePersistentClient
BY ResolverInvariant, PTL DEF ResolverInv

\* No address leaves the resolver, or its cache, to which the overrides do not apply.
THEOREM OverridesApplied == Spec => []AddressesOverridden
BY ResolverInvariant, PTL DEF ResolverInv

\* No DoT socket outlives its lookup.
THEOREM SocketsAreReleased == Spec => []DotSocketsReleased
BY ResolverInvariant, PTL DEF ResolverInv

\* With a pin, no answer is accepted from a server with another key, whoever opened
\* the connection it comes over.
THEOREM AnswersArePinned == Spec => PinnedAnswers
<1> DEFINE Step == \A l \in Lookups :
       (config.pinned /\ Asking(l) /\ look[l].via \in Conns /\ look'[l].stage = "found")
         => conn[look[l].via].peer = "pinned"
<1>1. ResolverInv /\ [Next]_vars => [Step]_vars
  <2> SUFFICES ASSUME ResolverInv, Next, NEW l \in Lookups, config.pinned, Asking(l),
                      look[l].via \in Conns, look'[l].stage = "found"
               PROVE  conn[look[l].via].peer = "pinned"
    BY DEF vars
  <2>1. look \in [Lookups -> LookType] /\ look[l].stage = "asking"
    BY DEF ResolverInv, TypeOK, LookType, Asking
  <2>2. ASSUME Heard(l) PROVE conn[look[l].via].peer = "pinned"
    BY <2>2 DEF Heard, ResolverInv, PeersChecked
  <2>3. ASSUME NEW m \in Lookups, Event(m), m # l PROVE look'[l] = look[l]
    BY <2>1, <2>3 DEF Event, PlainAnswer, Answer, BadAnswer, EmptyAnswer, DohError, Refused,
                      DotError, Retry, Answered, Fail
  <2>4. ASSUME Event(l) PROVE Heard(l)
    <3>1. ~PlainAnswer(l)
      BY ResolverAssumption DEF PlainAnswer, ResolverInv, PlainUsesNone
    <3>2. ~Fail(l)
      BY <2>1 DEF Fail, Failed, Idle
    <3>3. ~Retry(l)
      BY <2>1 DEF Retry
    <3> QED
      BY <2>4, <3>1, <3>2, <3>3 DEF Event, Answer, BadAnswer, EmptyAnswer, DohError, Refused,
                                    DotError
  <2>5. ASSUME NEW c \in Calls, NEW h \in Hosts, Resolve(c, h) PROVE look'[l] = look[l]
    <3>1. l[1] # c
      BY <2>1, <2>5 DEF Resolve, InFlight, Lookups
    <3> QED
      BY <2>1, <2>5, <3>1 DEF Resolve
  <2>6. ASSUME NEW k \in Conns, Secure(k) \/ Break(k) \/ GoAway(k) \/ Closed(k) \/ Drop(k)
        PROVE  look'[l] = look[l] \/ look'[l] = Mute
    BY <2>6 DEF Secure, Break, GoAway, Closed, Drop
  <2>7. Mute.stage = "mute"
    BY DEF Mute, Idle
  <2>8. ASSUME NEW h \in Hosts, NEW f \in Families, Forget(h, f) PROVE look'[l] = look[l]
    BY <2>8 DEF Forget
  <2>9. look'[l] # look[l] /\ look'[l] # Mute
    BY <2>1, <2>7
  <2> QED
    BY <2>2, <2>3, <2>4, <2>5, <2>6, <2>8, <2>9 DEF Next
<1> QED
  BY <1>1, ResolverInvariant, PTL DEF PinnedAnswers, Spec

\* The connection of a question is a new one, or one that is neither closing nor gone.
LEMMA RouteUsable ==
  ASSUME TypeOK, NEW ls \in SUBSET Lookups, NEW route \in Routes(ls), Open(route),
         NEW l \in ls, route[l] \in Conns
  PROVE  conn'[route[l]].state \in {"connecting", "secure"}
<1>1. route \in [ls -> Conns \cup {NoConn}]
  BY RouteType
<1>2. route[l] \in Range(route)
  BY <1>1 DEF Range
<1>3. conn'[route[l]] = IF conn[route[l]] = Gone THEN Dialled ELSE conn[route[l]]
  BY <1>2 DEF Open
<1>4. conn[route[l]] = Gone \/ conn[route[l]].state \in {"connecting", "secure"}
  <2>1. CASE ~Connects
    <3>1. route[l] = NoConn
      BY <2>1, RouteType
    <3> QED
      BY <3>1, ResolverAssumption
  <2>2. CASE Connects /\ ~Shared
    <3>1. route \in [ls -> Free]
      BY <2>2 DEF Routes, Injection
    <3> QED
      BY <3>1 DEF Free
  <2>3. CASE Connects /\ Shared /\ Reusable
    <3>1. route[l] = client
      BY <2>3 DEF Routes
    <3> QED
      BY <2>3, <3>1 DEF Reusable
  <2>4. CASE Connects /\ Shared /\ ~Reusable
    <3>1. route[l] \in Free
      BY <2>4 DEF Routes
    <3> QED
      BY <3>1 DEF Free
  <2> QED
    BY <2>1, <2>2, <2>3, <2>4
<1>5. CASE conn[route[l]] = Gone
  BY <1>3, <1>5 DEF Dialled
<1>6. CASE conn[route[l]] # Gone
  BY <1>3, <1>4, <1>6
<1> QED
  BY <1>5, <1>6

\* Neither a first question nor a repeated one is asked over a session that is closing
\* or gone, however long the session was kept.
THEOREM QuestionsGoToTheLiving == Spec => NoQuestionToTheGone
<1> DEFINE Step == \A l \in Lookups :
       (~Asking(l) /\ Asking(l)' /\ look'[l].via \in Conns)
         => conn'[look'[l].via].state \in {"connecting", "secure"}
<1>1. ResolverInv /\ [Next]_vars => [Step]_vars
  <2> SUFFICES ASSUME ResolverInv, Next, NEW l \in Lookups, look[l].stage # "asking",
                      look'[l].stage = "asking", look'[l].via \in Conns
               PROVE  conn'[look'[l].via].state \in {"connecting", "secure"}
    BY DEF vars, Asking
  <2>1. look \in [Lookups -> LookType] /\ TypeOK /\ look'[l] # look[l]
    BY DEF ResolverInv, TypeOK, LookType
  <2>2. ASSUME NEW c \in Calls, NEW h \in Hosts, Resolve(c, h)
        PROVE  conn'[look'[l].via].state \in {"connecting", "secure"}
    <3> DEFINE misses == {m \in {c} \X Families : cache[<<h, m[2]>>] = Missing}
    <3>1. PICK route \in Routes(misses) :
            /\ Open(route)
            /\ look' = [m \in Lookups |->
                  IF m[1] # c THEN look[m]
                  ELSE IF m \notin misses THEN Found(cache[<<h, m[2]>>])
                  ELSE IF config.mode \in Modes THEN Asked(route[m]) ELSE Failed]
      BY <2>2 DEF Resolve
    <3>2. misses \in SUBSET Lookups
      BY DEF Lookups
    <3> HIDE DEF misses
    <3>3. l \in misses /\ look'[l].via = route[l]
      BY <2>1, <3>1 DEF Found, Failed, Asked, Idle
    <3> QED
      BY <2>1, <3>1, <3>2, <3>3, RouteUsable
  <2>3. ASSUME Retry(l) PROVE conn'[look'[l].via].state \in {"connecting", "secure"}
    <3>1. PICK route \in Routes({l}) :
            /\ Open(route)
            /\ look' = [look EXCEPT ![l].stage = "asking", ![l].via = route[l]]
      BY <2>3 DEF Retry
    <3>2. look'[l].via = route[l]
      BY <2>1, <3>1 DEF LookType
    <3> QED
      BY <2>1, <3>1, <3>2, RouteUsable
  <2>4. ASSUME NEW m \in Lookups, Event(m) PROVE m = l /\ Retry(l)
    <3>1. m = l
      BY <2>1, <2>4 DEF Event, PlainAnswer, Answer, BadAnswer, EmptyAnswer, DohError, Refused,
                        DotError, Retry, Answered, Fail
    <3>2. ~Asking(l)
      BY DEF Asking
    <3> QED
      BY <2>4, <3>1, <3>2 DEF Event, PlainAnswer, Answer, BadAnswer, EmptyAnswer, DohError,
                              Refused, DotError, Heard
  <2>5. ASSUME NEW k \in Conns, Secure(k) \/ Break(k) \/ GoAway(k) \/ Closed(k) \/ Drop(k)
        PROVE  look'[l] = look[l] \/ look'[l] = Mute
    BY <2>5 DEF Secure, Break, GoAway, Closed, Drop
  <2>6. look'[l] # Mute
    BY DEF Mute, Idle
  <2>7. ASSUME NEW h \in Hosts, NEW f \in Families, Forget(h, f) PROVE look'[l] = look[l]
    BY <2>7 DEF Forget
  <2> QED
    BY <2>1, <2>2, <2>3, <2>4, <2>5, <2>6, <2>7 DEF Next
<1> QED
  BY <1>1, ResolverInvariant, PTL DEF NoQuestionToTheGone, Spec
=============================================================================
