--------------------------- MODULE DemergiProofs ---------------------------
(***************************************************************************)
(* Proofs about Demergi, for any connections, hosts and options: proxy and *)
(* resolver, put together, each behave as their own modules say, so that   *)
(* what is proved of Proxy and of Resolver holds of the whole; and a       *)
(* lookup that calls back finds the socket it is for.                      *)
(***************************************************************************)
EXTENDS Demergi, TLAPS

-----------------------------------------------------------------------------
(***************************************************************************)
(* The parts.                                                              *)
(***************************************************************************)
\* A step of the whole is a step of the proxy, or none.
LEMMA ProxySteps == [Next]_vars => [P!Next]_(P!vars)
<1> SUFFICES ASSUME [Next]_vars PROVE [P!Next]_(P!vars)
  OBVIOUS
<1>1. CASE UNCHANGED vars
  BY <1>1 DEF vars, proxyVars, P!vars, P!dataVars
<1>2. ASSUME NEW c \in Conns, Dial(c) PROVE P!Next
  BY <1>2 DEF Dial, P!Next, P!SocketEvent
<1>3. CASE ProxyStep(ProxyEvent)
  BY <1>3 DEF ProxyStep, ProxyEvent, P!Next
<1>5. ASSUME NEW c \in Conns, AttemptEnds(c) \/ AttemptStalls(c) PROVE P!Next
  BY <1>5 DEF AttemptEnds, AttemptStalls, P!Next, P!AttemptEvent
<1>4. CASE ResolverStep(ResolverEvent)
  BY <1>4 DEF ResolverStep, proxyVars, P!vars, P!dataVars
<1> QED
  BY <1>1, <1>2, <1>3, <1>4, <1>5 DEF Next

\* The proxy of the whole behaves as Proxy says, whatever the resolver does.
THEOREM ProxyIsAPart == Spec => P!Spec
<1>1. Init => P!Init
  BY DEF Init
<1> QED
  BY <1>1, ProxySteps, PTL DEF Spec, P!Spec

\* A step of the whole is a step of the resolver, or none.
LEMMA ResolverSteps == [Next]_vars => [R!Next]_(R!vars)
<1> SUFFICES ASSUME [Next]_vars PROVE [R!Next]_(R!vars)
  OBVIOUS
<1>1. CASE UNCHANGED vars
  BY <1>1 DEF vars, resolverVars, R!vars
<1>2. ASSUME NEW c \in Conns, Dial(c) PROVE [R!Next]_(R!vars)
  BY <1>2 DEF Dial, resolverVars, R!vars, R!Next
<1>3. CASE \/ ProxyStep(ProxyEvent)
           \/ \E c \in Conns : AttemptEnds(c) \/ AttemptStalls(c)
  BY <1>3 DEF ProxyStep, AttemptEnds, AttemptStalls, resolverVars, R!vars
<1>4. CASE ResolverStep(ResolverEvent)
  BY <1>4 DEF ResolverStep, ResolverEvent, R!Next
<1> QED
  BY <1>1, <1>2, <1>3, <1>4 DEF Next

\* The resolver of the whole behaves as Resolver says, whatever the proxy does.
THEOREM ResolverIsAPart == Spec => R!Spec
<1>1. Init => R!Init
  BY DEF Init
<1> QED
  BY <1>1, ResolverSteps, PTL DEF Spec, R!Spec

-----------------------------------------------------------------------------
(***************************************************************************)
(* A lookup under way and its socket.                                      *)
(***************************************************************************)
CallStates == {"idle", "running", "resolved", "rejected"}

Shape ==
  /\ client \in [Conns -> P!ClientStates]
  /\ upstream \in [Conns -> P!UpstreamStates]
  /\ phase \in [Conns -> P!Phases]
  /\ call \in [Conns -> [state : CallStates, host : Hosts]]
  /\ look = [l \in R!Lookups |-> look[l]]

\* The upstream socket is made when the client is accepted: no accepted client is
\* accepted again, so no socket that a lookup is for is ever replaced.
Accepted == \A c \in Conns : upstream[c] # P!None => client[c] \notin {P!None, "handshake"}

\* Nobody has called connect() for a client that has sent nothing, and so the first data,
\* which calls it, cannot find its socket connecting.
Undialled == \A c \in Conns : phase[c] = "first" => upstream[c] \notin P!Connecting

LookupInv == Shape /\ Accepted /\ Undialled /\ LookupFindsSocket

LEMMA LookupInit == Init => LookupInv
<1> SUFFICES ASSUME Init PROVE LookupInv
  OBVIOUS
<1>1. call \in [Conns -> [state : {"idle"}, host : Hosts]]
  BY DEF Init, R!Init
<1>2. \A c \in Conns : call[c].state = "idle"
  BY <1>1
<1>3. client = [c \in Conns |-> "none"] /\ upstream = [c \in Conns |-> "none"]
  BY DEF Init, P!Init, P!None
<1>4. phase = [c \in Conns |-> "none"] /\ look = [l \in R!Lookups |-> R!Idle]
  BY DEF Init, P!Init, P!None, R!Init
<1>5. Shape
  BY <1>1, <1>3, <1>4 DEF Shape, CallStates, P!ClientStates, P!UpstreamStates, P!Phases, P!None
<1> QED
  BY <1>2, <1>3, <1>4, <1>5 DEF LookupInv, Accepted, Undialled, LookupFindsSocket, P!None

\* The types of the sockets after a step, and what ties the two of a connection together.
SocketTypes ==
  /\ client' \in [Conns -> P!ClientStates]
  /\ upstream' \in [Conns -> P!UpstreamStates]
  /\ phase' \in [Conns -> P!Phases]
  /\ Accepted' /\ Undialled'

\* What the handlers of the proxy do to the sockets: nothing to one that is connecting.
SocketsKept ==
  /\ SocketTypes
  /\ \A c \in Conns : upstream[c] \in P!Connecting => upstream'[c] = upstream[c]

\* The listener makes an upstream socket for a client that has none (lines 151 to 177).
LEMMA ArrivalKeeps ==
  ASSUME Shape, Accepted, Undialled, NEW c \in Conns,
         \/ P!TlsSecure(c)
         \/ \E i \in P!Addrs, r \in Requests : P!Accept(c, i, r) \/ P!TlsHello(c, i, r)
  PROVE  SocketsKept
<1> USE DEF Shape, P!ClientStates, P!UpstreamStates, P!Phases, P!None
<1>1. client[c] \in {"none", "handshake"} /\ upstream[c] = "none"
  BY DEF Accepted, P!TlsSecure, P!Accept, P!TlsHello, P!Arrive
<1>2. \/ /\ client' = [client EXCEPT ![c] = "open"] /\ upstream' = [upstream EXCEPT ![c] = "idle"]
         /\ phase' = [phase EXCEPT ![c] = "first"]
      \/ /\ client' = [client EXCEPT ![c] = "handshake"] /\ UNCHANGED <<upstream, phase>>
  BY DEF P!TlsSecure, P!Accept, P!TlsHello, P!Arrive, P!Listener
<1> QED
  BY <1>1, <1>2 DEF SocketsKept, SocketTypes, Accepted, Undialled, P!Connecting

\* The first data of a client: connect() is called, or throws (lines 181 to 366).
LEMMA FirstDataKeeps ==
  ASSUME Shape, Accepted, Undialled, NEW c \in Conns, P!FirstData(c)
  PROVE  SocketsKept
<1> USE DEF Shape, P!ClientStates, P!UpstreamStates, P!Phases, P!None
<1>1. /\ client[c] = "open" /\ phase[c] = "first"
      /\ \E f \in {"refused", "hello", "piped"} : phase' = [phase EXCEPT ![c] = f]
      /\ client' \in {client, [client EXCEPT ![c] = "destroyed"]}
      /\ upstream' \in {upstream, [upstream EXCEPT ![c] = "stalled"],
                        [upstream EXCEPT ![c] = "connecting"]}
  BY DEF P!FirstData, P!Refuse, P!ConnectThrows, P!OpenTunnel, P!ForwardRequest,
         P!DestroyClient, P!ClientAfterDestroy
<1> QED
  BY <1>1 DEF SocketsKept, SocketTypes, Accepted, Undialled, P!Connecting

\* The other events of a connection destroy sockets, but none that is connecting.
LEMMA EventKeeps ==
  ASSUME Shape, Accepted, Undialled,
         NEW c \in Conns, P!SocketEvent(c), ~P!TlsSecure(c), ~P!FirstData(c)
  PROVE  SocketsKept
<1> USE DEF Shape, P!ClientStates, P!UpstreamStates, P!None, SocketsKept, SocketTypes, Accepted,
            Undialled, P!Phases, P!Connecting
<1>1. CASE P!HelloData(c) \/ P!RelayUp(c) \/ P!RelayDown(c) \/ P!UpstreamSends(c)
  BY <1>1 DEF P!HelloData, P!RelayUp, P!RelayDown, P!UpstreamSends
<1>2. CASE P!TlsClientError(c) \/ P!ClientGone(c)
  BY <1>2 DEF P!TlsClientError, P!ClientGone
<1>3. CASE P!UpstreamGone(c)
  BY <1>3 DEF P!UpstreamGone
<1>4. CASE P!ClientTimeout(c) \/ P!ClientClose(c)
  BY <1>4 DEF P!ClientTimeout, P!ClientClose, P!DestroyUpstream, P!UpstreamAfterDestroy
<1>5. CASE P!UpstreamTimeout(c) \/ P!UpstreamClose(c)
  BY <1>5 DEF P!UpstreamTimeout, P!UpstreamClose, P!DestroyClient, P!ClientAfterDestroy
<1> QED
  BY <1>1, <1>2, <1>3, <1>4, <1>5, Zenon DEF P!SocketEvent

\* So does stop(), and the other steps of the servers touch no socket.
LEMMA ServerKeeps ==
  ASSUME Shape, Accepted, Undialled, P!ServerEvent
  PROVE  SocketsKept
<1> USE DEF Shape, P!ClientStates, P!UpstreamStates, P!None, SocketsKept, SocketTypes, Accepted,
            Undialled, P!Phases, P!Connecting
<1>1. CASE P!StopBegin
  BY <1>1 DEF P!StopBegin, P!ClientAfterDestroy, P!UpstreamAfterDestroy
<1>2. ASSUME ~P!StopBegin PROVE UNCHANGED <<client, upstream, phase>>
  BY <1>2, Zenon DEF P!ServerEvent, P!StartServer, P!CreateThrows, P!ListenOk, P!ListenFail,
                     P!StopResume, P!ServerClose
<1> QED
  BY <1>1, <1>2

\* The end of an attempt is for its own socket.
LEMMA AttemptKeeps ==
  ASSUME Shape, Accepted, Undialled, NEW c \in Conns, P!AttemptEvent(c)
  PROVE  /\ SocketTypes
         /\ upstream'[c] = "stalled" \/ ~P!LookupStalls(c)
         /\ \A d \in Conns \ {c} : upstream'[d] = upstream[d]
<1> USE DEF Shape, P!ClientStates, P!UpstreamStates, P!Phases, P!None
<1>1. /\ upstream[c] = "connecting" /\ UNCHANGED <<client, phase>>
      /\ upstream' \in {[upstream EXCEPT ![c] = "destroyed"], [upstream EXCEPT ![c] = "open"],
                        [upstream EXCEPT ![c] = "stalled"]}
      /\ P!LookupStalls(c) => upstream' = [upstream EXCEPT ![c] = "stalled"]
  BY DEF P!AttemptEvent, P!ConnectOk, P!ConnectFail, P!LookupStalls
<1> QED
  BY <1>1 DEF SocketTypes, Accepted, Undialled, P!Connecting

LEMMA ProxyKeeps ==
  ASSUME Shape, Accepted, Undialled, ProxyEvent
  PROVE  SocketsKept
<1>1. CASE P!Tick
  <2>1. PICK c \in Conns : P!UpstreamClose(c)
    BY <1>1 DEF P!Tick
  <2> QED
    BY <2>1 DEF P!UpstreamClose, P!DestroyClient, P!ClientAfterDestroy, Shape, P!ClientStates,
                P!UpstreamStates, P!Phases, P!None, SocketsKept, SocketTypes, Accepted,
                Undialled, P!Connecting
<1>2. CASE P!ServerEvent
  BY <1>2, ServerKeeps
<1>3. CASE P!Arrival
  BY <1>3, ArrivalKeeps DEF P!Arrival
<1>4. ASSUME NEW c \in Conns, P!SocketEvent(c) PROVE SocketsKept
  BY <1>4, ArrivalKeeps, FirstDataKeeps, EventKeeps
<1> QED
  BY <1>1, <1>2, <1>3, <1>4 DEF ProxyEvent

\* An event of a lookup is the business of its own call, and of a lookup under way.
LEMMA EventIsLocal ==
  ASSUME Shape, NEW l \in R!Lookups, R!Event(l)
  PROVE  /\ look[l].stage \in {"asking", "backoff"}
         /\ UNCHANGED call \/ R!Settle(l[1])
         /\ look' = [m \in R!Lookups |-> look'[m]]
         /\ \A m \in R!Lookups \ {l} : look'[m] = look[m]
<1>1. look[l].stage \in {"asking", "backoff"}
  BY DEF R!Event, R!PlainAnswer, R!Answer, R!BadAnswer, R!EmptyAnswer, R!DohError,
         R!Refused, R!DotError, R!Retry, R!Heard, R!Asking
<1>2. UNCHANGED call \/ R!Settle(l[1])
  BY DEF R!Event, R!PlainAnswer, R!Answer, R!BadAnswer, R!EmptyAnswer, R!DohError,
         R!Refused, R!DotError, R!Retry, R!Answered, R!Fail
<1>3. \E v : look' = [look EXCEPT ![l] = v]
  BY DEF R!Event, R!PlainAnswer, R!Answer, R!BadAnswer, R!EmptyAnswer, R!DohError,
         R!Refused, R!DotError, R!Retry, R!Answered, R!Fail
<1>4. PICK v : look' = [look EXCEPT ![l] = v]
  BY <1>3
<1>5. /\ look' = [m \in R!Lookups |-> IF m = l THEN v ELSE look[m]]
      /\ \A m \in R!Lookups \ {l} : look'[m] = look[m]
  BY <1>4 DEF Shape
<1> QED
  BY <1>1, <1>2, <1>5

\* The resolver's own events bring no call to life: only resolve() does.
LEMMA EventsStartNoCall ==
  ASSUME Shape, ResolverEvent
  PROVE  /\ call' \in [Conns -> [state : CallStates, host : Hosts]]
         /\ look' = [l \in R!Lookups |-> look'[l]]
         /\ \A c \in Conns : call'[c].state = "running" => call[c].state = "running"
<1> DEFINE Kept == /\ call' \in [Conns -> [state : CallStates, host : Hosts]]
                   /\ \A c \in Conns : call'[c].state = "running" => call[c].state = "running"
<1>1. ASSUME UNCHANGED call PROVE Kept
  BY <1>1 DEF Shape
<1>2. ASSUME NEW c \in Conns, R!Settle(c) PROVE Kept
  <2>1. call' = [call EXCEPT ![c].state = IF @ = "running" THEN R!Verdict(c, look') ELSE @]
    BY <1>2 DEF R!Settle
  <2>2. R!Verdict(c, look') \in CallStates
    BY DEF R!Verdict, CallStates
  <2> HIDE DEF CallStates
  <2> QED
    BY <2>1, <2>2 DEF Shape
<1>3. ASSUME NEW l \in R!Lookups, R!Event(l)
      PROVE  Kept /\ look' = [m \in R!Lookups |-> look'[m]]
  <2>1. l[1] \in Conns
    BY <1>3 DEF R!Lookups
  <2> QED
    BY <1>1, <1>2, <1>3, <2>1, EventIsLocal
<1>4. ASSUME ~\E l \in R!Lookups : R!Event(l)
      PROVE  UNCHANGED call /\ look' = [m \in R!Lookups |-> look'[m]]
  BY <1>4 DEF ResolverEvent, R!Forget, R!Secure, R!Break, R!GoAway, R!Closed, R!Drop, Shape
<1>5. CASE \E l \in R!Lookups : R!Event(l)
  BY <1>3, <1>5
<1>6. CASE ~\E l \in R!Lookups : R!Event(l)
  BY <1>1, <1>4, <1>6
<1> QED
  BY <1>5, <1>6

\* A call none of whose lookups is under way is never heard of again.
LEMMA HungForGood ==
  ASSUME Shape, ResolverEvent, NEW c \in Conns, Hung(c)
  PROVE  Hung(c)'
<1>1. \A f \in R!Families : <<c, f>> \in R!Lookups /\ look[<<c, f>>].stage \in {"found", "mute"}
  BY DEF Hung, R!Lookups
<1>2. ASSUME NEW l \in R!Lookups, R!Event(l) PROVE Hung(c)'
  <2>1. /\ look[l].stage \in {"asking", "backoff"}
        /\ UNCHANGED call \/ R!Settle(l[1])
        /\ \A m \in R!Lookups \ {l} : look'[m] = look[m]
    BY <1>2, EventIsLocal
  <2>2. \A f \in R!Families : look'[<<c, f>>] = look[<<c, f>>]
    <3> SUFFICES ASSUME NEW f \in R!Families PROVE look'[<<c, f>>] = look[<<c, f>>]
      OBVIOUS
    <3>1. <<c, f>> # l
      BY <1>1, <2>1
    <3> QED
      BY <1>1, <2>1, <3>1
  <2>3. l[1] # c
    <3> SUFFICES ASSUME l[1] = c PROVE FALSE
      OBVIOUS
    <3>1. l = <<c, l[2]>> /\ l[2] \in R!Families
      BY DEF R!Lookups
    <3> QED
      BY <1>1, <2>1, <3>1
  <2>4. call'[c] = call[c]
    BY <2>1, <2>3 DEF R!Settle, Shape
  <2> QED
    BY <2>2, <2>4 DEF Hung
<1>3. ASSUME ~\E l \in R!Lookups : R!Event(l) PROVE Hung(c)'
  <2>1. UNCHANGED call /\ \A f \in R!Families : look'[<<c, f>>] = look[<<c, f>>]
    BY <1>1, <1>3 DEF ResolverEvent, R!Forget, R!Secure, R!Break, R!GoAway, R!Closed, R!Drop,
                      R!Users, R!Asking
  <2> QED
    BY <2>1 DEF Hung
<1> QED
  BY <1>2, <1>3

LEMMA LookupStep ==
  ASSUME LookupInv, [Next]_vars
  PROVE  LookupInv'
<1>0. Shape /\ Accepted /\ Undialled /\ LookupFindsSocket
  BY DEF LookupInv
<1>1. CASE UNCHANGED vars
  BY <1>1 DEF vars, proxyVars, resolverVars, LookupInv, Shape, Accepted, Undialled,
              LookupFindsSocket, Hung
<1>2. ASSUME NEW c \in Conns, Dial(c) PROVE LookupInv'
  <2>1. /\ SocketsKept /\ upstream[c] = "idle" /\ upstream'[c] = "connecting"
        /\ UNCHANGED resolverVars \/ \E h \in Hosts : R!Resolve(c, h)
    BY <1>0, <1>2, FirstDataKeeps DEF Dial
  <2>2. /\ call' \in [Conns -> [state : CallStates, host : Hosts]]
        /\ look' = [l \in R!Lookups |-> look'[l]]
        /\ \A d \in Conns \ {c} : call'[d] = call[d]
        /\ \A d \in Conns \ {c}, f \in R!Families : look'[<<d, f>>] = look[<<d, f>>]
    <3>1. CASE UNCHANGED resolverVars
      BY <1>0, <3>1 DEF resolverVars, Shape
    <3>2. ASSUME NEW h \in Hosts, R!Resolve(c, h)
          PROVE  /\ call' \in [Conns -> [state : CallStates, host : Hosts]]
                 /\ look' = [l \in R!Lookups |-> look'[l]]
                 /\ \A d \in Conns \ {c} : call'[d] = call[d]
                 /\ \A d \in Conns \ {c}, f \in R!Families : look'[<<d, f>>] = look[<<d, f>>]
      <4>1. call' = [call EXCEPT ![c] = [host |-> h, state |-> R!Verdict(c, look')]]
        BY <3>2 DEF R!Resolve
      <4>2. R!Verdict(c, look') \in CallStates
        BY DEF R!Verdict, CallStates
      <4>3. /\ look' = [l \in R!Lookups |-> look'[l]]
            /\ \A l \in R!Lookups : l[1] # c => look'[l] = look[l]
        BY <3>2 DEF R!Resolve
      <4>4. \A d \in Conns, f \in R!Families : <<d, f>> \in R!Lookups
        BY DEF R!Lookups
      <4> HIDE DEF CallStates
      <4> QED
        BY <1>0, <4>1, <4>2, <4>3, <4>4 DEF Shape
    <3> QED
      BY <2>1, <3>1, <3>2
  <2>3. ASSUME NEW d \in Conns \ {c}, call'[d].state = "running"
        PROVE  upstream'[d] = "connecting" \/ (upstream'[d] = "stalled" /\ Hung(d)')
    <3>1. upstream'[d] = upstream[d]
      BY <1>0, <2>1, <2>2, <2>3 DEF SocketsKept, LookupFindsSocket, P!Connecting
    <3> QED
      BY <1>0, <2>2, <2>3, <3>1 DEF LookupFindsSocket, Hung
  <2> QED
    BY <1>0, <2>1, <2>2, <2>3 DEF LookupInv, SocketsKept, SocketTypes, Shape, LookupFindsSocket
<1>3. CASE ProxyStep(ProxyEvent)
  <2>1. SocketsKept /\ UNCHANGED <<call, look>>
    BY <1>0, <1>3, ProxyKeeps DEF ProxyStep, resolverVars
  <2>2. \A c \in Conns : call[c].state = "running" => upstream'[c] = upstream[c]
    BY <1>0, <2>1 DEF SocketsKept, LookupFindsSocket, P!Connecting
  <2> QED
    BY <1>0, <2>1, <2>2
       DEF LookupInv, SocketsKept, SocketTypes, Shape, LookupFindsSocket, Hung
<1>4. CASE ResolverStep(ResolverEvent)
  <2>1. UNCHANGED <<client, upstream, phase>>
    BY <1>4 DEF ResolverStep, proxyVars
  <2>2. /\ call' \in [Conns -> [state : CallStates, host : Hosts]]
        /\ look' = [l \in R!Lookups |-> look'[l]]
        /\ \A c \in Conns : call'[c].state = "running" => call[c].state = "running"
        /\ \A c \in Conns : Hung(c) => Hung(c)'
    BY <1>0, <1>4, EventsStartNoCall, HungForGood DEF ResolverStep
  <2> QED
    BY <1>0, <2>1, <2>2 DEF LookupInv, Shape, Accepted, Undialled, LookupFindsSocket
<1>5. ASSUME NEW c \in Conns, AttemptEnds(c) \/ AttemptStalls(c) PROVE LookupInv'
  <2>1. /\ SocketTypes /\ UNCHANGED <<call, look>>
        /\ \A d \in Conns \ {c} : upstream'[d] = upstream[d]
    BY <1>0, <1>5, AttemptKeeps DEF AttemptEnds, AttemptStalls, P!AttemptEvent, resolverVars
  <2>2. call[c].state = "running" => upstream'[c] = "stalled" /\ Hung(c)
    <3>1. CASE AttemptEnds(c)
      BY <3>1 DEF AttemptEnds, Resolved
    <3>2. CASE AttemptStalls(c)
      BY <1>0, <3>2, AttemptKeeps DEF AttemptStalls, P!AttemptEvent
    <3> QED
      BY <1>5, <3>1, <3>2
  <2> QED
    BY <1>0, <2>1, <2>2 DEF LookupInv, SocketTypes, Shape, LookupFindsSocket, Hung
<1> QED
  BY <1>1, <1>2, <1>3, <1>4, <1>5 DEF Next

\* As long as a lookup may call back, the socket it is for is as connect() left it,
\* whatever its client, its timers and stop() have done to the connection meanwhile.
THEOREM LookupsFindTheirSockets == Spec => []LookupFindsSocket
<1>1. LookupInv => LookupFindsSocket
  BY DEF LookupInv
<1> QED
  BY <1>1, LookupInit, LookupStep, PTL DEF Spec
=============================================================================
