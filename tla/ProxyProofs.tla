---------------------------- MODULE ProxyProofs ----------------------------
(***************************************************************************)
(* Proofs about Proxy, for any number of connections and of addresses and  *)
(* any set of requests: type correctness, then the invariants of the       *)
(* socket pairs, which are inductive only together, then what stop()       *)
(* leaves behind, then the bytes of a client on their way to the upstream: *)
(* they arrive once, in order and without a gap, and, for an obfuscated    *)
(* host, in the form the evasion gives them.                               *)
(***************************************************************************)
EXTENDS Proxy, SequenceTheorems, TLAPS

-----------------------------------------------------------------------------
(***************************************************************************)
(* The streams of units.                                                   *)
(***************************************************************************)
\* What a client sends is a sequence of units.
LEMMA StreamType ==
  ASSUME NEW r
  PROVE  Stream(r) \in Seq(Units)
<1>1. RequestHead \in Seq(Units)
  BY ProxyAssumption, SeqMonotonic DEF Units
<1>2. <<"hello", "app">> \in Seq(Units) /\ <<"body">> \in Seq(Units)
  BY DEF Units, PayloadUnits
<1>3. Payload(r) \in Seq(Units)
  BY <1>2, Zenon DEF Payload
<1> QED
  BY <1>1, <1>3, ConcatProperties DEF Stream

\* Giving a form to a sequence of units makes a sequence of written units.
LEMMA FormType ==
  ASSUME NEW s \in Seq(Units), NEW f \in {"raw", "rewritten", "fragmented"}
  PROVE  Form(s, f) \in Seq(Written)
<1>1. Len(s) \in Nat /\ \A i \in 1 .. Len(s) : [unit |-> s[i], form |-> f] \in Written
  BY LenProperties, ElementOfSeq DEF Written
<1> QED
  BY <1>1 DEF Form

\* A part of a sequence, as the handlers cut it, is a sequence.
LEMMA PartType ==
  ASSUME NEW S, NEW s \in Seq(S), NEW m \in Int, NEW n \in Int, 1 <= m, n <= Len(s)
  PROVE  SubSeq(s, m, n) \in Seq(S)
<1>1. \A i \in m .. n : s[i] \in S
  BY ElementOfSeq, LenProperties
<1> QED
  BY <1>1, SubSeqProperties

\* A "data" event delivers no more than what is left of the stream.
LEMMA SentBound ==
  ASSUME DataTypeOK, NEW c \in Conns, NEW n \in 1 .. Sent(c)
  PROVE  n \in Nat /\ 1 <= n /\ n <= Len(rest[c]) /\ rest[c] \in Seq(Units)
<1>1. rest[c] \in Seq(Units) /\ Len(rest[c]) \in Nat
  BY LenProperties DEF DataTypeOK
<1>2. Len(Payload(request[c])) \in Nat
  <2>1. Len(<<"hello", "app">>) \in Nat /\ Len(<<"body">>) \in Nat
    OBVIOUS
  <2> QED
    BY <2>1, Zenon DEF Payload
<1> QED
  BY <1>1, <1>2 DEF Sent

-----------------------------------------------------------------------------
(***************************************************************************)
(* Type correctness.                                                       *)
(***************************************************************************)
LEMMA TypeInit == Init => TypeOK
<1>1. ASSUME Init PROVE ControlTypeOK
  BY <1>1, ProxyAssumption
     DEF Init, ControlTypeOK, Addrs, Sockets, ServerStates, ClientStates, UpstreamStates,
         Phases
<1>2. ASSUME Init PROVE DataTypeOK
  BY <1>2, ProxyAssumption DEF Init, DataTypeOK
<1> QED
  BY <1>1, <1>2 DEF TypeOK

\* The control variables keep their types: the servers' part, the handlers of
\* connection c, and the steps of the environment.
LEMMA ControlTypeStep ==
  ASSUME TypeOK, Next
  PROVE  ControlTypeOK'
<1> USE ProxyAssumption DEF TypeOK, ControlTypeOK, Addrs, serverVars
<1>1. CASE StartServer \/ CreateThrows \/ ListenOk \/ ListenFail
  <2>1. CASE StartServer
    BY <2>1 DEF StartServer, ServerStates
  <2>2. CASE CreateThrows
    BY <2>2 DEF CreateThrows
  <2>3. CASE ListenOk
    BY <2>3 DEF ListenOk, ServerStates
  <2>4. CASE ListenFail
    BY <2>4 DEF ListenFail, ServerStates
  <2> QED
    BY <1>1, <2>1, <2>2, <2>3, <2>4
<1>2. ASSUME CloseNextServer
      PROVE  stopAt' \in 0 .. NumAddrs + 1 /\ server' \in [Addrs -> ServerStates]
  BY <1>2 DEF CloseNextServer, ServerStates
<1>3. CASE StopBegin
  BY <1>2, <1>3
     DEF StopBegin, ClientAfterDestroy, UpstreamAfterDestroy, ClientStates, UpstreamStates
<1>4. CASE StopResume
  BY <1>2, <1>4 DEF StopResume
<1>5. ASSUME NEW i \in Addrs, ServerClose(i) PROVE ControlTypeOK'
  BY <1>5 DEF ServerClose, ServerStates
<1>6. ASSUME NEW c \in Conns, NEW i \in Addrs, NEW r \in Requests,
             Accept(c, i, r) \/ TlsHello(c, i, r)
      PROVE  ControlTypeOK'
  <2>1. CASE Accept(c, i, r)
    BY <2>1 DEF Accept, Arrive, Listener, ClientStates, UpstreamStates, Phases, Sockets,
                ClientOf, UpstreamOf
  <2>2. CASE TlsHello(c, i, r)
    BY <2>2 DEF TlsHello, Arrive, ClientStates
  <2> QED
    BY <1>6, <2>1, <2>2
<1>7. ASSUME NEW c \in Conns, SocketEvent(c) \/ AttemptEvent(c) PROVE ControlTypeOK'
  <2>1. CASE TlsSecure(c)
    BY <2>1 DEF TlsSecure, Listener, ClientStates, UpstreamStates, Phases, Sockets,
                ClientOf, UpstreamOf
  <2>2. CASE FirstData(c)
    BY <2>2 DEF FirstData, Refuse, ConnectThrows, OpenTunnel, ForwardRequest,
                DestroyClient, ClientAfterDestroy, ClientStates, UpstreamStates, Phases
  <2>3. CASE HelloData(c) \/ RelayUp(c) \/ RelayDown(c) \/ UpstreamSends(c)
    BY <2>3 DEF HelloData, RelayUp, RelayDown, UpstreamSends, Phases
  <2>4. CASE TlsClientError(c) \/ ConnectOk(c) \/ ConnectFail(c) \/ LookupStalls(c)
               \/ ClientGone(c) \/ UpstreamGone(c)
    BY <2>4 DEF TlsClientError, ConnectOk, ConnectFail, LookupStalls, ClientGone, UpstreamGone,
                ClientStates, UpstreamStates
  <2>5. CASE ClientTimeout(c) \/ ClientClose(c)
    BY <2>5 DEF ClientTimeout, ClientClose, DestroyUpstream, UpstreamAfterDestroy,
                ClientStates, UpstreamStates
  <2>6. CASE UpstreamTimeout(c)
    BY <2>6 DEF UpstreamTimeout, DestroyClient, ClientAfterDestroy, ClientStates
  <2>7. CASE UpstreamClose(c)
    BY <2>7 DEF UpstreamClose, DestroyClient, ClientAfterDestroy, ClientStates,
                UpstreamStates
  <2> QED
    BY <1>7, <2>1, <2>2, <2>3, <2>4, <2>5, <2>6, <2>7 DEF SocketEvent, AttemptEvent
<1>8. CASE Tick
  BY <1>8 DEF Tick, UpstreamClose, DestroyClient, ClientAfterDestroy, ClientStates,
              UpstreamStates
<1> QED
  BY <1>1, <1>3, <1>4, <1>5, <1>6, <1>7, <1>8, Zenon DEF Next, ServerEvent, Arrival

\* So do the data variables: units are cut off streams and appended to them.
LEMMA DataTypeStep ==
  ASSUME TypeOK, Next
  PROVE  DataTypeOK'
<1> USE DEF TypeOK, DataTypeOK
<1>1. CASE UNCHANGED dataVars
  BY <1>1 DEF dataVars
<1>2. ASSUME NEW c \in Conns, NEW i \in Addrs, NEW r \in Requests,
             Accept(c, i, r) \/ TlsHello(c, i, r)
      PROVE  DataTypeOK'
  <2>1. Arrive(c, i, r)
    BY <1>2 DEF Accept, TlsHello
  <2>2. Stream(r) \in Seq(Units)
    BY StreamType
  <2> QED
    BY <2>1, <2>2 DEF Arrive
<1>3. ASSUME NEW c \in Conns, NEW n \in 1 .. Sent(c)
      PROVE  /\ SubSeq(rest[c], n + 1, Len(rest[c])) \in Seq(Units)
             /\ SubSeq(rest[c], 1, n) \in Seq(Units)
  BY SentBound, PartType
<1>4. ASSUME NEW c \in Conns, NEW forms \in Seq(Written), WriteUpstream(c, forms)
      PROVE  toUp' \in [Conns -> Seq(Written)]
  BY <1>4, ConcatProperties DEF WriteUpstream
<1>5. ASSUME NEW c \in Conns, FirstData(c) PROVE DataTypeOK'
  <2>1. PICK n \in 1 .. Sent(c) :
          /\ \/ Refuse(c, n)
             \/ ConnectThrows(c, n)
             \/ OpenTunnel(c, n)
             \/ ForwardRequest(c, n)
          /\ rest' = [rest EXCEPT ![c] = SubSeq(@, n + 1, Len(@))]
          /\ UNCHANGED <<request, unread, sentUp>>
    BY <1>5 DEF FirstData
  <2>2. rest' \in [Conns -> Seq(Units)]
    BY <1>3, <2>1
  <2>3. CASE Refuse(c, n) \/ ConnectThrows(c, n)
    BY <2>1, <2>2, <2>3 DEF Refuse, ConnectThrows
  <2>4. CASE OpenTunnel(c, n)
    BY <2>1, <2>2, <2>4 DEF OpenTunnel
  <2>5. CASE ForwardRequest(c, n)
    <3> DEFINE chunk == SubSeq(rest[c], 1, n)
               lines == IF request[c].obfuscate
                        THEN IF n < Len(RequestHead) THEN n ELSE Len(RequestHead)
                        ELSE 0
    <3>1. /\ n \in Nat /\ chunk \in Seq(Units) /\ Len(chunk) = n
          /\ lines \in Nat /\ lines <= n
      <4>1. n \in Nat /\ 1 <= n /\ n <= Len(rest[c]) /\ rest[c] \in Seq(Units)
        BY SentBound
      <4>2. Len(RequestHead) \in Nat
        BY ProxyAssumption, LenProperties
      <4>3. \A i \in 1 .. n : rest[c][i] \in Units
        BY <4>1, ElementOfSeq, LenProperties
      <4> QED
        BY <4>1, <4>2, <4>3, SubSeqProperties
    <3> HIDE DEF chunk, lines
    <3>2. /\ SubSeq(chunk, 1, lines) \in Seq(Units)
          /\ SubSeq(chunk, lines + 1, n) \in Seq(Units)
      BY <3>1, PartType
    <3>3. Form(SubSeq(chunk, 1, lines), "rewritten")
            \o Form(SubSeq(chunk, lines + 1, n), "raw") \in Seq(Written)
      BY <3>2, FormType, ConcatProperties
    <3>4. toUp' \in [Conns -> Seq(Written)] /\ UNCHANGED toClient
      BY <2>5, <3>3 DEF ForwardRequest, chunk, lines
    <3> QED
      BY <2>1, <2>2, <3>4
  <2> QED
    BY <2>1, <2>3, <2>4, <2>5
<1>6. ASSUME NEW c \in Conns, HelloData(c) PROVE DataTypeOK'
  <2>1. PICK n \in 1 .. Sent(c), f \in {"fragmented", "raw"} :
          /\ WriteUpstream(c, Form(SubSeq(rest[c], 1, n), f))
          /\ rest' = [rest EXCEPT ![c] = SubSeq(@, n + 1, Len(@))]
          /\ UNCHANGED <<request, unread, sentUp, toClient>>
    BY <1>6 DEF HelloData
  <2> QED
    BY <1>3, <1>4, <2>1, FormType
<1>7. ASSUME NEW c \in Conns, RelayUp(c) PROVE DataTypeOK'
  <2>1. PICK n \in 1 .. Sent(c) :
          /\ WriteUpstream(c, Form(SubSeq(rest[c], 1, n), "raw"))
          /\ rest' = [rest EXCEPT ![c] = SubSeq(@, n + 1, Len(@))]
          /\ UNCHANGED <<request, unread, sentUp, toClient>>
    BY <1>7 DEF RelayUp
  <2> QED
    BY <1>3, <1>4, <2>1, FormType
<1>8. ASSUME NEW c \in Conns, RelayDown(c) \/ UpstreamSends(c) PROVE DataTypeOK'
  <2>1. CASE RelayDown(c)
    <3>1. Append(toClient[c], "data") \in Seq({"200", "data"})
      BY AppendProperties
    <3> QED
      BY <2>1, <3>1, ProxyAssumption DEF RelayDown
  <2>2. CASE UpstreamSends(c)
    BY <2>2, ProxyAssumption DEF UpstreamSends
  <2> QED
    BY <1>8, <2>1, <2>2
<1>9. ASSUME NEW c \in Conns, SocketEvent(c) \/ AttemptEvent(c),
             ~FirstData(c), ~HelloData(c), ~RelayUp(c), ~RelayDown(c), ~UpstreamSends(c)
      PROVE  UNCHANGED dataVars
  BY <1>9, Zenon
     DEF SocketEvent, AttemptEvent, TlsSecure, TlsClientError, ConnectOk, ConnectFail, LookupStalls,
         ClientGone, UpstreamGone, ClientTimeout, UpstreamTimeout, ClientClose,
         UpstreamClose
<1>10. ASSUME ServerEvent \/ Tick PROVE UNCHANGED dataVars
  BY <1>10, Zenon
     DEF ServerEvent, StartServer, CreateThrows, ListenOk, ListenFail, StopBegin,
         StopResume, ServerClose, Tick, UpstreamClose
<1> QED
  BY <1>1, <1>2, <1>5, <1>6, <1>7, <1>8, <1>9, <1>10, Zenon DEF Next, Arrival

\* TypeOK is an invariant, whatever the constants: every handler leaves the state
\* of the proxy, of its sockets and of the streams well formed.
THEOREM TypeCorrect == Spec => []TypeOK
<1>1. ASSUME TypeOK, UNCHANGED vars PROVE TypeOK'
  BY <1>1 DEF vars, serverVars, dataVars, TypeOK, ControlTypeOK, DataTypeOK
<1>2. TypeOK /\ [Next]_vars => TypeOK'
  BY <1>1, ControlTypeStep, DataTypeStep DEF TypeOK
<1> QED
  BY <1>2, TypeInit, PTL DEF Spec

-----------------------------------------------------------------------------
(***************************************************************************)
(* The socket pairs.  PairTeardown, TrackingSound and StopReachesAll are   *)
(* inductive together: what stop() reaches depends on what a timeout       *)
(* forgot, and that on how far the teardown of the pair went.              *)
(***************************************************************************)
\* How the two sockets of a connection and its "data" listener go together.  The
\* last conjunct is more than bookkeeping: while the request is awaited nobody
\* has called connect() on the upstream socket.
Coupling ==
  \A c \in Conns :
    /\ client[c] \in {None, "handshake"} => upstream[c] = None
    /\ client[c] = "open" => upstream[c] # None
    /\ upstream[c] = None =>
         phase[c] = None /\ ClientOf(c) \notin sockets /\ UpstreamOf(c) \notin sockets
    /\ phase[c] = "first" => upstream[c] \in {"idle", "discarded", "closed"}

PairInv == Coupling /\ PairTeardown /\ TrackingSound /\ StopReachesAll

pairVars == <<stopAt, client, upstream, sockets, doomed, phase, late>>

\* The proxy starts in the invariant.
LEMMA PairInit == Init => PairInv
BY DEF Init, PairInv, Coupling, PairTeardown, TrackingSound, StopReachesAll, EndingUpstream,
       UpstreamAlive, Connecting, ClientOf, UpstreamOf, None

\* Steps that leave the sockets alone.
LEMMA PairStutter ==
  ASSUME PairInv, UNCHANGED pairVars
  PROVE  PairInv'
BY DEF pairVars, PairInv, Coupling, PairTeardown, TrackingSound, StopReachesAll, Ending,
       EndingUpstream

\* The listener is called: the connection starts with two tracked, live sockets.
LEMMA PairListener ==
  ASSUME TypeOK, PairInv, NEW c \in Conns, client[c] \in {None, "handshake"}, Listener(c),
         UNCHANGED stopAt
  PROVE  PairInv'
<1> USE DEF TypeOK, ControlTypeOK, PairInv, Listener, None
<1>1. Coupling'
  BY DEF Coupling, ClientOf, UpstreamOf
<1>2. PairTeardown'
  BY DEF Coupling, PairTeardown, EndingUpstream, Connecting
<1>3. TrackingSound'
  BY DEF Coupling, TrackingSound, EndingUpstream, UpstreamAlive, Connecting, ClientOf,
         UpstreamOf
<1>4. StopReachesAll'
  BY DEF Coupling, StopReachesAll, Ending, EndingUpstream, Connecting
<1> QED
  BY <1>1, <1>2, <1>3, <1>4

\* A request is awaited only by an open client whose upstream socket is idle: a
\* discarded one closes before any other event, and takes the client along.
LEMMA FirstDataIdle ==
  ASSUME PairInv, NEW c \in Conns, ~TickPending, phase[c] = "first", client[c] = "open"
  PROVE  upstream[c] = "idle"
BY DEF PairInv, Coupling, PairTeardown, TickPending

\* The first data of a client keeps the invariant, whatever the request (lines 181-366).
LEMMA PairFirstData ==
  ASSUME TypeOK, PairInv, NEW c \in Conns, ~TickPending, FirstData(c)
  PROVE  PairInv'
<1> USE DEF TypeOK, ControlTypeOK, PairInv, None
<1>1. upstream[c] = "idle" /\ client[c] = "open" /\ phase[c] = "first"
  BY FirstDataIdle DEF FirstData
<1>2. /\ \/ client' = [client EXCEPT ![c] = "destroyed"] /\ UNCHANGED upstream
         \/ client' = [client EXCEPT ![c] = "destroyed"]
              /\ upstream' = [upstream EXCEPT ![c] = "stalled"]
         \/ upstream' = [upstream EXCEPT ![c] = "connecting"] /\ UNCHANGED client
      /\ phase' \in [Conns -> Phases] /\ phase'[c] # "first"
      /\ \A d \in Conns \ {c} : phase'[d] = phase[d]
      /\ UNCHANGED <<stopAt, sockets, doomed, late>>
  BY <1>1 DEF FirstData, Refuse, ConnectThrows, OpenTunnel, ForwardRequest, DestroyClient,
              ClientAfterDestroy, Phases
<1>3. Coupling'
  BY <1>1, <1>2 DEF Coupling
<1>4. PairTeardown'
  BY <1>1, <1>2 DEF PairTeardown, EndingUpstream, Connecting
<1>5. TrackingSound'
  BY <1>1, <1>2 DEF TrackingSound, EndingUpstream, UpstreamAlive, Connecting
<1>6. StopReachesAll'
  BY <1>1, <1>2 DEF StopReachesAll, Ending, EndingUpstream, Connecting
<1> QED
  BY <1>3, <1>4, <1>5, <1>6

\* The end of an attempt to connect, or of an established socket.
LEMMA PairEnvironment ==
  ASSUME TypeOK, PairInv, NEW c \in Conns,
         \/ TlsClientError(c) \/ ConnectOk(c) \/ ConnectFail(c) \/ LookupStalls(c)
         \/ ClientGone(c) \/ UpstreamGone(c)
  PROVE  PairInv'
<1> USE DEF TypeOK, ControlTypeOK, PairInv, TlsClientError, ConnectOk, ConnectFail,
            LookupStalls, ClientGone, UpstreamGone, None
<1>1. Coupling'
  BY DEF Coupling, ClientOf, UpstreamOf
<1>2. PairTeardown'
  BY DEF Coupling, PairTeardown, EndingUpstream, Connecting
<1>3. TrackingSound'
  BY DEF Coupling, TrackingSound, EndingUpstream, UpstreamAlive, Connecting, ClientOf,
         UpstreamOf
<1>4. StopReachesAll'
  BY DEF Coupling, StopReachesAll, Ending, EndingUpstream, Connecting
<1> QED
  BY <1>1, <1>2, <1>3, <1>4

\* "timeout" and "close" on the client socket: the upstream socket is ending after.
LEMMA PairClientHandler ==
  ASSUME TypeOK, PairInv, NEW c \in Conns, ClientTimeout(c) \/ ClientClose(c)
  PROVE  PairInv'
<1> USE DEF TypeOK, ControlTypeOK, PairInv
<1>1. UNCHANGED <<stopAt, phase, late>> /\ client[c] \notin {None, "handshake"}
  BY DEF ClientTimeout, ClientClose, None
<1>2. /\ client[c] = "open" => client'[c] = "open"
      /\ client[c] # "open" => client'[c] = "closed"
      /\ \A d \in Conns : d # c => client'[d] = client[d]
  BY DEF ClientTimeout, ClientClose
<1>3. /\ upstream'[c] = UpstreamAfterDestroy(upstream[c])
      /\ \A d \in Conns : d # c => upstream'[d] = upstream[d]
      /\ doomed' = IF upstream[c] \in Connecting THEN doomed \cup {c} ELSE doomed
  BY DEF ClientTimeout, ClientClose, DestroyUpstream
<1>4. \A d \in Conns : /\ ClientOf(d) \in sockets' <=> ClientOf(d) \in sockets /\ d # c
                       /\ UpstreamOf(d) \in sockets' <=> UpstreamOf(d) \in sockets
  BY DEF ClientTimeout, ClientClose, ClientOf, UpstreamOf
<1>5. /\ upstream[c] \in {"closed", "destroyed", "discarded"} => upstream'[c] = upstream[c]
      /\ upstream[c] \in {"idle", "open"} => upstream'[c] \in {"discarded", "destroyed"}
      /\ upstream[c] \in Connecting => upstream'[c] = upstream[c] /\ c \in doomed'
      /\ upstream[c] = None => upstream'[c] = None
      /\ upstream[c] = "idle" => upstream'[c] = "discarded"
      /\ upstream[c] \in {"closed", "destroyed", "discarded", "idle", "open", None} \cup Connecting
  BY <1>3 DEF UpstreamAfterDestroy, Connecting, UpstreamStates, None
<1>6. Coupling'
  BY <1>1, <1>2, <1>3, <1>4, <1>5 DEF Coupling, Connecting, None
<1>7. /\ upstream[c] # None => EndingUpstream(c)'
      /\ \A d \in Conns : d # c => (EndingUpstream(d)' <=> EndingUpstream(d))
  BY <1>3, <1>5 DEF EndingUpstream, Connecting
<1>8. PairTeardown'
  BY <1>1, <1>2, <1>3, <1>5, <1>7 DEF Coupling, PairTeardown, Connecting, None
<1>9. TrackingSound'
  <2>1. client[c] = "open" => upstream[c] # None
    BY DEF Coupling
  <2> QED
    BY <1>2, <1>3, <1>4, <1>5, <1>7, <2>1 DEF TrackingSound, UpstreamAlive, Connecting
<1>10. StopReachesAll'
  BY <1>1, <1>2, <1>3, <1>5, <1>7 DEF StopReachesAll, Ending, Connecting
<1> QED
  BY <1>6, <1>8, <1>9, <1>10

\* "timeout" and "close" on the upstream socket: the client socket is destroyed after.
LEMMA PairUpstreamHandler ==
  ASSUME TypeOK, PairInv, NEW c \in Conns, UpstreamTimeout(c) \/ UpstreamClose(c)
  PROVE  PairInv'
<1> USE DEF TypeOK, ControlTypeOK, PairInv
<1>1. /\ UNCHANGED <<stopAt, doomed, phase, late>>
      /\ \A d \in Conns : d # c => client'[d] = client[d] /\ upstream'[d] = upstream[d]
      /\ client'[c] = ClientAfterDestroy(client[c])
  BY DEF UpstreamTimeout, UpstreamClose, DestroyClient
<1>2. \/ upstream[c] \in UpstreamAlive /\ upstream'[c] = upstream[c]
      \/ upstream[c] \in {"destroyed", "discarded"} /\ upstream'[c] = "closed"
  BY DEF UpstreamTimeout, UpstreamClose
<1>3. \A d \in Conns : /\ ClientOf(d) \in sockets' <=> ClientOf(d) \in sockets
                       /\ UpstreamOf(d) \in sockets' <=> UpstreamOf(d) \in sockets /\ d # c
  BY DEF UpstreamTimeout, UpstreamClose, ClientOf, UpstreamOf
<1>4. /\ upstream[c] # None /\ client[c] \in {"open", "destroyed", "closed"}
      /\ client'[c] = IF client[c] = "open" THEN "destroyed" ELSE client[c]
  BY <1>1, <1>2 DEF Coupling, ClientAfterDestroy, ClientStates, UpstreamAlive, Connecting, None
<1>5. Coupling'
  BY <1>1, <1>2, <1>3, <1>4 DEF Coupling, UpstreamAlive, Connecting, None
<1>6. /\ EndingUpstream(c) => EndingUpstream(c)'
      /\ \A d \in Conns : d # c => (EndingUpstream(d)' <=> EndingUpstream(d))
  BY <1>1, <1>2 DEF EndingUpstream, UpstreamAlive, Connecting
<1>7. PairTeardown'
  BY <1>1, <1>4, <1>6 DEF PairTeardown
<1>8. TrackingSound'
  BY <1>1, <1>2, <1>3, <1>4, <1>6 DEF TrackingSound
<1>9. StopReachesAll'
  BY <1>1, <1>4, <1>6 DEF StopReachesAll, Ending
<1> QED
  BY <1>5, <1>7, <1>8, <1>9

\* stop() destroys what is tracked; what is not is ending already.
LEMMA PairStop ==
  ASSUME TypeOK, PairInv, StopBegin
  PROVE  PairInv'
<1> USE DEF TypeOK, ControlTypeOK, PairInv, StopBegin, ClientAfterDestroy,
            UpstreamAfterDestroy, None
<1>1. Coupling'
  BY DEF Coupling, ClientOf, UpstreamOf
<1>2. PairTeardown'
  BY DEF Coupling, PairTeardown, EndingUpstream, Connecting
<1>3. TrackingSound'
  BY DEF Coupling, TrackingSound, EndingUpstream, UpstreamAlive, Connecting, ClientOf,
         UpstreamOf
<1>4. StopReachesAll'
  BY DEF Coupling, TrackingSound, StopReachesAll, Ending, EndingUpstream, Connecting,
         ClientStates
<1> QED
  BY <1>1, <1>2, <1>3, <1>4

\* The servers' other steps: stop() has been called after they were started.
LEMMA PairServers ==
  ASSUME TypeOK, PairInv,
         \/ StartServer \/ CreateThrows \/ ListenOk \/ ListenFail \/ StopResume
         \/ \E i \in Addrs : ServerClose(i)
  PROVE  PairInv'
<1>1. CASE StopResume
  <2>1. stopAt > 0 /\ UNCHANGED <<client, upstream, sockets, doomed, phase, late>>
    BY <1>1, ProxyAssumption DEF StopResume, Addrs
  <2> QED
    BY <2>1 DEF PairInv, Coupling, PairTeardown, TrackingSound, StopReachesAll, Ending,
                EndingUpstream
<1>2. ASSUME ~StopResume PROVE UNCHANGED pairVars
  BY <1>2 DEF pairVars, StartServer, CreateThrows, ListenOk, ListenFail, ServerClose
<1> QED
  BY <1>1, <1>2, PairStutter

\* Every step keeps the invariant.
LEMMA PairStep ==
  ASSUME TypeOK, PairInv, [Next]_vars
  PROVE  PairInv'
<1>1. CASE UNCHANGED vars
  BY <1>1, PairStutter DEF vars, pairVars
<1>2. CASE Tick
  BY <1>2, PairUpstreamHandler DEF Tick
<1>3. CASE ServerEvent
  BY <1>3, PairStop, PairServers DEF ServerEvent
<1>4. ASSUME NEW c \in Conns, NEW i \in Addrs, NEW r \in Requests,
             Accept(c, i, r) \/ TlsHello(c, i, r)
      PROVE  PairInv'
  <2>1. CASE Accept(c, i, r)
    BY <2>1, PairListener DEF Accept, Arrive
  <2>2. CASE TlsHello(c, i, r)
    BY <2>2
       DEF TlsHello, Arrive, TypeOK, ControlTypeOK, PairInv, Coupling, PairTeardown,
           TrackingSound, StopReachesAll, Ending, EndingUpstream, None
  <2> QED
    BY <1>4, <2>1, <2>2
<1>5. ASSUME ~TickPending, NEW c \in Conns, SocketEvent(c) \/ AttemptEvent(c) PROVE PairInv'
  <2>1. CASE TlsSecure(c)
    BY <2>1, PairListener DEF TlsSecure
  <2>2. CASE FirstData(c)
    BY <1>5, <2>2, PairFirstData
  <2>3. CASE HelloData(c)
    BY <2>3 DEF HelloData, TypeOK, ControlTypeOK, PairInv, Coupling, PairTeardown,
                TrackingSound, StopReachesAll, Ending, EndingUpstream, None
  <2>4. CASE RelayUp(c) \/ RelayDown(c) \/ UpstreamSends(c)
    BY <2>4, PairStutter DEF RelayUp, RelayDown, UpstreamSends, pairVars
  <2>5. CASE ClientTimeout(c) \/ ClientClose(c)
    BY <2>5, PairClientHandler
  <2>6. CASE UpstreamTimeout(c) \/ UpstreamClose(c)
    BY <2>6, PairUpstreamHandler
  <2> QED
    BY <1>5, <2>1, <2>2, <2>3, <2>4, <2>5, <2>6, PairEnvironment, Zenon
       DEF SocketEvent, AttemptEvent
<1> QED
  BY <1>1, <1>2, <1>3, <1>4, <1>5, Zenon DEF Next, Arrival

\* The inductive invariant holds in every behaviour.
LEMMA PairInvariant == Spec => []PairInv
BY PairInit, PairStep, TypeCorrect, PTL DEF Spec

\* Once one socket of a pair has closed, the other one is destroyed or will be.
THEOREM PairsEndTogether == Spec => []PairTeardown
<1>1. PairInv => PairTeardown
  BY DEF PairInv
<1> QED
  BY <1>1, PairInvariant, PTL

\* this.sockets misses no live socket but those whose pair is ending.
THEOREM TrackingIsSound == Spec => []TrackingSound
<1>1. PairInv => TrackingSound
  BY DEF PairInv
<1> QED
  BY <1>1, PairInvariant, PTL

\* stop() ends every connection accepted before it, those forgotten included.
THEOREM StopReachesEverything == Spec => []StopReachesAll
<1>1. PairInv => StopReachesAll
  BY DEF PairInv
<1> QED
  BY <1>1, PairInvariant, PTL

\* connect() is only called on an upstream socket nothing was done to yet.
THEOREM SocketsAreNotRevived == Spec => NoRevival
<1> DEFINE Fresh == \A c \in Conns :
             upstream'[c] \in Connecting /\ upstream[c] \notin Connecting
               => upstream[c] = "idle"
<1>1. ASSUME TypeOK, PairInv, [Next]_vars PROVE Fresh
  <2>1. CASE UNCHANGED vars
    BY <2>1 DEF vars
  <2>2. ASSUME NEW c \in Conns, FirstData(c), ~TickPending PROVE Fresh
    <3>1. upstream[c] = "idle"
      BY <1>1, <2>2, FirstDataIdle DEF FirstData
    <3>2. \A d \in Conns \ {c} : upstream'[d] = upstream[d]
      BY <1>1, <2>2 DEF FirstData, Refuse, ConnectThrows, OpenTunnel, ForwardRequest, TypeOK,
                        ControlTypeOK
    <3> QED
      BY <3>1, <3>2
  <2>3. ASSUME NEW c \in Conns, ~FirstData(c), SocketEvent(c) \/ AttemptEvent(c) PROVE Fresh
    <3> USE DEF TypeOK, ControlTypeOK, Connecting
    <3>1. CASE TlsSecure(c) \/ TlsClientError(c)
      BY <1>1, <3>1 DEF TlsSecure, TlsClientError, Listener
    <3>2. CASE HelloData(c) \/ RelayUp(c) \/ RelayDown(c) \/ UpstreamSends(c)
      BY <3>2 DEF HelloData, RelayUp, RelayDown, UpstreamSends
    <3>3. CASE ConnectOk(c) \/ ConnectFail(c) \/ LookupStalls(c) \/ ClientGone(c)
                 \/ UpstreamGone(c)
      BY <1>1, <3>3 DEF ConnectOk, ConnectFail, LookupStalls, ClientGone, UpstreamGone
    <3>4. CASE ClientTimeout(c) \/ ClientClose(c)
      BY <1>1, <3>4 DEF ClientTimeout, ClientClose, DestroyUpstream, UpstreamAfterDestroy
    <3>5. CASE UpstreamTimeout(c) \/ UpstreamClose(c)
      BY <1>1, <3>5 DEF UpstreamTimeout, UpstreamClose
    <3> QED
      BY <2>3, <3>1, <3>2, <3>3, <3>4, <3>5, Zenon DEF SocketEvent, AttemptEvent
  <2>4. CASE Tick
    BY <1>1, <2>4 DEF Tick, UpstreamClose, Connecting, TypeOK, ControlTypeOK
  <2>5. CASE Arrival
    BY <1>1, <2>5 DEF Arrival, Accept, TlsHello, Arrive, Listener, Connecting, TypeOK,
                      ControlTypeOK
  <2>6. CASE ServerEvent
    <3>1. CASE StopBegin
      BY <1>1, <3>1 DEF StopBegin, UpstreamAfterDestroy, Connecting, TypeOK, ControlTypeOK
    <3>2. ASSUME ~StopBegin PROVE UNCHANGED upstream
      BY <2>6, <3>2 DEF ServerEvent, StartServer, CreateThrows, ListenOk, ListenFail,
                        StopResume, ServerClose
    <3> QED
      BY <3>1, <3>2
  <2> QED
    BY <1>1, <2>1, <2>2, <2>3, <2>4, <2>5, <2>6 DEF Next
<1> QED
  BY <1>1, TypeCorrect, PairInvariant, PTL DEF Spec, NoRevival

-----------------------------------------------------------------------------
(***************************************************************************)
(* stop() and the servers.  When it returns everything is down: start()    *)
(* and stop() go through the addresses in the same order, one behind the   *)
(* other, and a server that is down has no client left.                    *)
(***************************************************************************)
\* start() has dealt with the addresses before the one it awaits, and only them.
Started ==
  /\ starting.status = "next" => \A i \in Addrs : i >= starting.at => server[i] = None
  /\ starting.status = "wait" => \A i \in Addrs : i > starting.at => server[i] = None
  /\ \A i \in Addrs : server[i] = "binding" <=> starting.status = "wait" /\ i = starting.at

\* stop() has brought down the servers before the one it awaits, and none behind it.  It
\* goes by this.servers, which holds every server that listens or is about to.
Stopping ==
  /\ stopAt > 0 => starting.status \in {"started", "failed"}
  /\ \A i \in Addrs :
       /\ server[i] \in {"binding", "listening"} => i \in servers
       /\ i < stopAt => server[i] \in {None, "failed", "closed"}
       /\ i = stopAt => server[i] \in {"closing", "closed"}
       /\ i > stopAt => server[i] \notin {"closing", "closed"}

\* A client that is connected, or in its handshake, has a server that is not down.
Served ==
  \A c \in Conns : client[c] \in {"handshake", "open"} =>
    from[c] \in Addrs /\ server[from[c]] \in {"listening", "closing"}

StopInv == Started /\ Stopping /\ Served

\* Nothing listens yet and nobody has come.
LEMMA StopInit == Init => StopInv
BY ProxyAssumption DEF Init, StopInv, Started, Stopping, Served, Addrs, None

\* Steps of sockets: they leave the servers alone, and no client is new.
LEMMA StopSockets ==
  ASSUME StopInv, UNCHANGED <<serverVars, stopAt, from>>,
         \A c \in Conns : client'[c] \in {"handshake", "open"}
                            => client[c] \in {"handshake", "open"}
  PROVE  StopInv'
<1> USE DEF StopInv, serverVars
<1>1. Started' /\ Stopping'
  BY DEF Started, Stopping
<1>2. Served'
  BY DEF Served
<1> QED
  BY <1>1, <1>2

\* An event of a client that has come, or of its upstream socket, is such a step.
LEMMA NoNewClient ==
  ASSUME TypeOK, NEW c \in Conns, SocketEvent(c) \/ AttemptEvent(c)
  PROVE  /\ UNCHANGED <<serverVars, stopAt, from>>
         /\ \A d \in Conns : client'[d] \in {"handshake", "open"}
                               => client[d] \in {"handshake", "open"}
<1> USE DEF TypeOK, ControlTypeOK, serverVars
<1>1. CASE TlsSecure(c) \/ TlsClientError(c) \/ ClientGone(c)
  BY <1>1 DEF TlsSecure, TlsClientError, ClientGone, Listener
<1>2. CASE FirstData(c)
  BY <1>2 DEF FirstData, Refuse, ConnectThrows, OpenTunnel, ForwardRequest, DestroyClient,
              ClientAfterDestroy
<1>3. CASE HelloData(c) \/ RelayUp(c) \/ RelayDown(c) \/ UpstreamSends(c)
  BY <1>3 DEF HelloData, RelayUp, RelayDown, UpstreamSends
<1>4. CASE ConnectOk(c) \/ ConnectFail(c) \/ LookupStalls(c) \/ UpstreamGone(c)
  BY <1>4 DEF ConnectOk, ConnectFail, LookupStalls, UpstreamGone
<1>5. CASE ClientTimeout(c) \/ ClientClose(c)
  BY <1>5 DEF ClientTimeout, ClientClose
<1>6. CASE UpstreamTimeout(c) \/ UpstreamClose(c)
  BY <1>6 DEF UpstreamTimeout, UpstreamClose, DestroyClient, ClientAfterDestroy
<1> QED
  BY <1>1, <1>2, <1>3, <1>4, <1>5, <1>6, Zenon DEF SocketEvent, AttemptEvent

\* start() goes on to the next address, or ends.
LEMMA StopStarting ==
  ASSUME TypeOK, StopInv, StartServer \/ CreateThrows \/ ListenOk \/ ListenFail
  PROVE  StopInv'
<1> USE ProxyAssumption DEF TypeOK, ControlTypeOK, StopInv, Addrs, ServerStates, None
<1>1. UNCHANGED <<stopAt, client, from>>
  BY DEF StartServer, CreateThrows, ListenOk, ListenFail
<1>2. stopAt = 0 /\ starting.status \in {"next", "wait"}
  BY DEF StartServer, CreateThrows, ListenOk, ListenFail, Stopping
<1>3. CASE StartServer
  BY <1>1, <1>2, <1>3 DEF StartServer, Started, Stopping, Served
<1>4. CASE CreateThrows
  BY <1>1, <1>2, <1>4 DEF CreateThrows, Started, Stopping, Served
<1>5. CASE ListenOk
  <2>1. server[starting.at] = "binding" /\ starting.at \in servers
    BY <1>5 DEF ListenOk, Started, Stopping
  <2> QED
    BY <1>1, <1>2, <1>5, <2>1 DEF ListenOk, Started, Stopping, Served
<1>6. CASE ListenFail
  BY <1>1, <1>2, <1>6 DEF ListenFail, Started, Stopping, Served
<1> QED
  BY <1>3, <1>4, <1>5, <1>6

\* stop() goes on to the next server that listens, or ends.
LEMMA StopNextServer ==
  ASSUME TypeOK, StopInv, CloseNextServer, starting.status \in {"started", "failed"},
         stopAt = 0 \/ (stopAt \in Addrs /\ server[stopAt] = "closed"),
         UNCHANGED <<servers, starting, from>>,
         \A c \in Conns : client'[c] \in {"handshake", "open"}
                            => client[c] \in {"handshake", "open"}
  PROVE  StopInv'
<1> USE ProxyAssumption DEF TypeOK, ControlTypeOK, StopInv, Addrs, ServerStates
<1> DEFINE left == {i \in servers : i > stopAt /\ server[i] = "listening"}
<1>1. \A i \in Addrs : i <= stopAt => server[i] \in {None, "failed", "closed"}
  BY DEF Stopping
<1>2. \A i \in Addrs : i > stopAt /\ i \notin left => server[i] \in {None, "failed"}
  BY DEF Started, Stopping
<1>3. CASE left = {}
  <2>1. stopAt' = NumAddrs + 1 /\ UNCHANGED server
    BY <1>3 DEF CloseNextServer
  <2>2. Started' /\ Served'
    BY <2>1 DEF Started, Served
  <2>3. \A i \in Addrs : server[i] \in {None, "failed", "closed"}
    BY <1>1, <1>2, <1>3
  <2>4. Stopping'
    BY <2>1, <2>3 DEF Stopping, None
  <2> QED
    BY <2>2, <2>4
<1>4. CASE left # {}
  <2>1. PICK i \in left : /\ \A j \in left : i <= j
                          /\ stopAt' = i /\ server' = [server EXCEPT ![i] = "closing"]
    BY <1>4 DEF CloseNextServer
  <2>2. i \in Addrs /\ i > stopAt /\ server[i] = "listening"
    BY <2>1
  <2>3. \A j \in Addrs : j < i => server[j] \in {None, "failed", "closed"}
    <3> SUFFICES ASSUME NEW j \in Addrs, j < i
                 PROVE  server[j] \in {None, "failed", "closed"}
      OBVIOUS
    <3>1. j \notin left
      BY <2>1, <2>2
    <3> QED
      BY <1>1, <1>2, <3>1
  <2>4. Started' /\ Stopping'
    BY <2>1, <2>2, <2>3 DEF Started, Stopping, None
  <2>5. Served'
    BY <2>1, <2>2 DEF Served
  <2> QED
    BY <2>4, <2>5
<1> QED
  BY <1>3, <1>4

\* A server closes: its clients are gone.
LEMMA StopServerClosed ==
  ASSUME TypeOK, StopInv, NEW i \in Addrs, ServerClose(i)
  PROVE  StopInv'
BY ProxyAssumption
   DEF TypeOK, ControlTypeOK, StopInv, Started, Stopping, Served, ServerClose, Addrs,
       ServerStates, None

\* A client comes to a server that listens.
LEMMA StopArrival ==
  ASSUME TypeOK, StopInv, Arrival
  PROVE  StopInv'
<1> USE DEF TypeOK, ControlTypeOK, StopInv
<1>1. PICK c \in Conns, i \in Addrs :
        /\ server[i] = "listening" /\ client[c] = None
        /\ from' = [from EXCEPT ![c] = i]
        /\ \A d \in Conns \ {c} : client'[d] = client[d]
        /\ UNCHANGED <<serverVars, stopAt>>
  BY DEF Arrival, Accept, TlsHello, Arrive, Listener
<1>2. Started' /\ Stopping'
  BY <1>1 DEF Started, Stopping, serverVars
<1>3. Served'
  BY <1>1 DEF Served, serverVars
<1> QED
  BY <1>2, <1>3

\* Every step keeps the invariant.
LEMMA StopStep ==
  ASSUME TypeOK, StopInv, [Next]_vars
  PROVE  StopInv'
<1>1. CASE UNCHANGED vars
  BY <1>1, StopSockets DEF vars, serverVars
<1>2. CASE Tick
  BY <1>2, NoNewClient, StopSockets DEF Tick, SocketEvent, AttemptEvent
<1>3. CASE StartServer \/ CreateThrows \/ ListenOk \/ ListenFail
  BY <1>3, StopStarting
<1>4. CASE StopBegin
  <2>1. \A c \in Conns : client'[c] \in {"handshake", "open"}
                           => client[c] \in {"handshake", "open"}
    BY <1>4 DEF StopBegin, ClientAfterDestroy
  <2> QED
    BY <1>4, <2>1, StopNextServer DEF StopBegin
<1>5. CASE StopResume
  <2>1. starting.status \in {"started", "failed"}
    BY <1>5, ProxyAssumption DEF StopResume, StopInv, Stopping, Addrs
  <2> QED
    BY <1>5, <2>1, StopNextServer DEF StopResume
<1>6. ASSUME NEW i \in Addrs, ServerClose(i) PROVE StopInv'
  BY <1>6, StopServerClosed
<1>7. CASE Arrival
  BY <1>7, StopArrival
<1>8. ASSUME NEW c \in Conns, SocketEvent(c) \/ AttemptEvent(c) PROVE StopInv'
  BY <1>8, NoNewClient, StopSockets
<1> QED
  BY <1>1, <1>2, <1>3, <1>4, <1>5, <1>6, <1>7, <1>8, Zenon DEF Next, ServerEvent

\* When stop() returns no server listens and no accepted client is connected, also where
\* start() failed half-way and whoever came while stop() was waiting.
THEOREM StoppedMeansDown == Spec => []StopIsComplete
<1>1. TypeOK /\ StopInv => StopIsComplete
  <2> SUFFICES ASSUME TypeOK, StopInv, stopAt = NumAddrs + 1
               PROVE  /\ \A i \in Addrs : server[i] \notin {"listening", "closing"}
                      /\ \A c \in Conns : client[c] \in {None, "destroyed", "closed"}
    BY DEF StopIsComplete
  <2>1. \A i \in Addrs : server[i] \in {None, "failed", "closed"}
    BY ProxyAssumption DEF StopInv, Stopping, Addrs
  <2> QED
    BY <2>1 DEF StopInv, Served, TypeOK, ControlTypeOK, ClientStates, None
<1> QED
  BY <1>1, StopInit, StopStep, TypeCorrect, PTL DEF Spec

-----------------------------------------------------------------------------
(***************************************************************************)
(* The bytes of a client.  At every moment what is left of its stream is   *)
(* the end of it, and what a live upstream was given is the part before.   *)
(***************************************************************************)
\* The units of what was written, whatever their form.
UnitsOf(written) == [i \in 1 .. Len(written) |-> written[i].unit]

LEMMA UnitsType ==
  ASSUME NEW w \in Seq(Written)
  PROVE  UnitsOf(w) \in Seq(Units) /\ Len(UnitsOf(w)) = Len(w)
<1>1. Len(w) \in Nat /\ \A i \in 1 .. Len(w) : w[i] \in Written
  BY LenProperties, ElementOfSeq
<1>2. \A i \in 1 .. Len(w) : w[i].unit \in Units
  BY <1>1 DEF Written
<1> QED
  BY <1>1, <1>2 DEF UnitsOf

\* The form that the units get does not change them, ...
LEMMA UnitsOfForm ==
  ASSUME NEW s \in Seq(Units), NEW f \in {"raw", "rewritten", "fragmented"}
  PROVE  UnitsOf(Form(s, f)) = s
<1>1. Form(s, f) \in Seq(Written) /\ Len(Form(s, f)) = Len(s)
  BY FormType, LenProperties DEF Form
<1>2. \A i \in 1 .. Len(s) : UnitsOf(Form(s, f))[i] = s[i]
  BY <1>1 DEF UnitsOf, Form
<1> QED
  BY <1>1, <1>2, UnitsType, SeqEqual

\* ... and writes one after the other are written in that order.
LEMMA UnitsOfConcat ==
  ASSUME NEW v \in Seq(Written), NEW w \in Seq(Written)
  PROVE  UnitsOf(v \o w) = UnitsOf(v) \o UnitsOf(w)
<1> DEFINE a == UnitsOf(v)
           b == UnitsOf(w)
           ab == UnitsOf(v \o w)
           m == Len(v)
           n == Len(w)
<1>1. /\ m \in Nat /\ n \in Nat
      /\ v \o w \in Seq(Written) /\ Len(v \o w) = m + n
      /\ \A i \in 1 .. m + n : (v \o w)[i] = IF i <= m THEN v[i] ELSE w[i - m]
  BY ConcatProperties, LenProperties
<1>2. /\ a \in Seq(Units) /\ Len(a) = m
      /\ b \in Seq(Units) /\ Len(b) = n
      /\ ab \in Seq(Units) /\ Len(ab) = m + n
  BY <1>1, UnitsType
<1>3. /\ \A i \in 1 .. m : a[i] = v[i].unit
      /\ \A i \in 1 .. n : b[i] = w[i].unit
      /\ \A i \in 1 .. m + n : ab[i] = (v \o w)[i].unit
  BY <1>1 DEF UnitsOf
<1> HIDE DEF a, b, ab, m, n
<1>4. /\ a \o b \in Seq(Units) /\ Len(a \o b) = m + n
      /\ \A i \in 1 .. m + n : (a \o b)[i] = IF i <= m THEN a[i] ELSE b[i - m]
  BY <1>2, ConcatProperties
<1>5. \A i \in 1 .. m + n : ab[i] = (a \o b)[i]
  <2>1. \A i \in 1 .. m : i \in 1 .. m + n /\ i <= m
    BY <1>1
  <2>2. \A i \in 1 .. m : ab[i] = (a \o b)[i]
    BY <1>1, <1>3, <1>4, <2>1
  <2>3. ASSUME NEW i \in m + 1 .. m + n PROVE ab[i] = (a \o b)[i]
    <3>1. i \in 1 .. m + n /\ ~(i <= m) /\ i - m \in 1 .. n
      BY <1>1
    <3> QED
      BY <1>1, <1>3, <1>4, <3>1
  <2>4. \A i \in 1 .. m + n : i \in 1 .. m \/ i \in m + 1 .. m + n
    BY <1>1
  <2> QED
    BY <2>2, <2>3, <2>4
<1>6. ab = a \o b
  BY <1>2, <1>4, <1>5, SeqEqual
<1> QED
  BY <1>6 DEF a, b, ab

\* A part of a sequence, the empty one included.
LEMMA Part ==
  ASSUME NEW S, NEW s, NEW m \in Int, NEW e \in Int, m <= e + 1,
         \A i \in m .. e : s[i] \in S
  PROVE  /\ SubSeq(s, m, e) \in Seq(S) /\ Len(SubSeq(s, m, e)) = e - m + 1
         /\ \A i \in 1 .. e - m + 1 : SubSeq(s, m, e)[i] = s[m + i - 1]
<1>1. /\ SubSeq(s, m, e) \in Seq(S)
      /\ Len(SubSeq(s, m, e)) = IF m <= e THEN e - m + 1 ELSE 0
      /\ \A i \in 1 .. e - m + 1 : SubSeq(s, m, e)[i] = s[m + i - 1]
  BY SubSeqProperties
<1>2. (IF m <= e THEN e - m + 1 ELSE 0) = e - m + 1
  OBVIOUS
<1> QED
  BY <1>1, <1>2

LEMMA Drop ==
  ASSUME NEW S, NEW s \in Seq(S), NEW n \in 0 .. Len(s)
  PROVE  /\ SubSeq(s, n + 1, Len(s)) \in Seq(S)
         /\ Len(SubSeq(s, n + 1, Len(s))) = Len(s) - n
         /\ \A i \in 1 .. Len(s) - n : SubSeq(s, n + 1, Len(s))[i] = s[n + i]
<1> DEFINE m == n + 1
           e == Len(s)
<1>1. Len(s) \in Nat /\ \A i \in 1 .. Len(s) : s[i] \in S
  BY LenProperties, ElementOfSeq
<1>2. m \in Int /\ e \in Int /\ m <= e + 1 /\ \A i \in m .. e : s[i] \in S
  BY <1>1
<1>3. e - m + 1 = Len(s) - n /\ \A i \in 1 .. Len(s) - n : m + i - 1 = n + i
  BY <1>1
<1> HIDE DEF m, e
<1>4. /\ SubSeq(s, m, e) \in Seq(S) /\ Len(SubSeq(s, m, e)) = e - m + 1
      /\ \A i \in 1 .. e - m + 1 : SubSeq(s, m, e)[i] = s[m + i - 1]
  BY <1>2, Part
<1> QED
  BY <1>3, <1>4 DEF m, e

\* What a handler takes off the rest of a stream is the stream's next part.
LEMMA TakeOff ==
  ASSUME NEW all \in Seq(Units), NEW d \in 0 .. Len(all), NEW n \in 1 .. Len(all) - d,
         NEW left, left = SubSeq(all, d + 1, Len(all))
  PROVE  /\ SubSeq(left, 1, n) = SubSeq(all, d + 1, d + n)
         /\ SubSeq(left, n + 1, Len(left)) = SubSeq(all, d + n + 1, Len(all))
         /\ Len(SubSeq(left, n + 1, Len(left))) = Len(all) - (d + n)
<1>1. Len(all) \in Nat /\ \A i \in 1 .. Len(all) : all[i] \in Units
  BY LenProperties, ElementOfSeq
<1>2. /\ left \in Seq(Units) /\ Len(left) = Len(all) - d
      /\ \A i \in 1 .. Len(all) - d : left[i] = all[d + i]
  BY <1>1, SubSeqProperties
<1>3. /\ SubSeq(all, d + 1, d + n) \in Seq(Units) /\ Len(SubSeq(all, d + 1, d + n)) = n
      /\ \A i \in 1 .. n : SubSeq(all, d + 1, d + n)[i] = all[d + i]
  BY <1>1, SubSeqProperties
<1>4. /\ SubSeq(all, d + n + 1, Len(all)) \in Seq(Units)
      /\ Len(SubSeq(all, d + n + 1, Len(all))) = Len(all) - (d + n)
      /\ \A i \in 1 .. Len(all) - (d + n) : SubSeq(all, d + n + 1, Len(all))[i] = all[d + n + i]
  BY <1>1, SubSeqProperties
<1>5. \A i \in 1 .. Len(all) - d : left[i] \in Units
  BY <1>2, ElementOfSeq
<1>6. /\ SubSeq(left, 1, n) \in Seq(Units) /\ Len(SubSeq(left, 1, n)) = n
      /\ \A i \in 1 .. n : SubSeq(left, 1, n)[i] = left[i]
  BY <1>1, <1>2, <1>5, SubSeqProperties
<1>7. /\ SubSeq(left, n + 1, Len(left)) \in Seq(Units)
      /\ Len(SubSeq(left, n + 1, Len(left))) = Len(all) - (d + n)
      /\ \A i \in 1 .. Len(all) - (d + n) : SubSeq(left, n + 1, Len(left))[i] = left[n + i]
  <2>1. n \in 0 .. Len(left) /\ Len(left) - n = Len(all) - (d + n)
    BY <1>1, <1>2
  <2>2. left \in Seq(Units)
    BY <1>2
  <2> QED
    BY <2>1, <2>2, Drop
<1>8. SubSeq(left, 1, n) = SubSeq(all, d + 1, d + n)
  BY <1>1, <1>2, <1>3, <1>6, SeqEqual
<1>9. SubSeq(left, n + 1, Len(left)) = SubSeq(all, d + n + 1, Len(all))
  BY <1>1, <1>2, <1>4, <1>7, SeqEqual
<1> QED
  BY <1>7, <1>8, <1>9

-----------------------------------------------------------------------------
Done(c) == Len(Stream(request[c])) - Len(rest[c])

\* What is left is the end of the stream.
Suffix(c) ==
  /\ Len(rest[c]) <= Len(Stream(request[c]))
  /\ rest[c] = SubSeq(Stream(request[c]), Done(c) + 1, Len(Stream(request[c])))

\* What was written is the part before it, up to a piece of the head of a tunnel.
InOrder(c) ==
  \E skipped \in 0 .. Len(RequestHead) :
    /\ skipped <= Done(c)
    /\ UnitsOf(toUp[c]) = SubSeq(Stream(request[c]), skipped + 1, Done(c))
    /\ request[c].kind = "http" => skipped = 0

StreamOK(c) ==
  /\ phase[c] = None => upstream[c] = None
  /\ client[c] \in {None, "handshake"} => phase[c] = None
  /\ client[c] # None => Suffix(c)
  /\ phase[c] \in {None, "first"} =>
       /\ toUp[c] = << >> /\ toClient[c] = << >>
       /\ client[c] # None => rest[c] = Stream(request[c])
  /\ phase[c] \in {"hello", "piped"} /\ upstream[c] \in UpstreamAlive => InOrder(c)

StreamInv == \A c \in Conns : StreamOK(c)

\* Nobody has come yet.
LEMMA StreamInit == Init => StreamInv
BY DEF Init, StreamInv, StreamOK, None

\* Steps that leave the streams alone and bring no socket to life.
LEMMA StreamStutter ==
  ASSUME NEW c \in Conns, StreamOK(c),
         UNCHANGED <<phase[c], request[c], rest[c], toUp[c]>>,
         client'[c] = None <=> client[c] = None,
         client'[c] = "handshake" => client[c] = "handshake",
         upstream[c] = None => upstream'[c] = None,
         upstream'[c] \in UpstreamAlive => upstream[c] \in UpstreamAlive,
         toClient'[c] = toClient[c] \/ phase[c] = "piped"
  PROVE  StreamOK(c)'
<1>1. (Suffix(c)' <=> Suffix(c)) /\ (InOrder(c)' <=> InOrder(c))
  BY DEF Suffix, InOrder, Done
<1> QED
  BY <1>1 DEF StreamOK, None

\* Another connection's data event leaves this one's stream alone.
LEMMA OthersUntouched ==
  ASSUME TypeOK, NEW c \in Conns, NEW d \in Conns \ {c},
         \/ FirstData(c) \/ HelloData(c) \/ RelayUp(c)
         \/ \E i \in Addrs, r \in Requests : Accept(c, i, r) \/ TlsHello(c, i, r)
         \/ TlsSecure(c)
  PROVE  UNCHANGED <<phase[d], request[d], rest[d], toUp[d], client[d], upstream[d], toClient[d]>>
<1> USE DEF TypeOK, ControlTypeOK, DataTypeOK
<1>1. CASE FirstData(c)
  BY <1>1 DEF FirstData, Refuse, ConnectThrows, OpenTunnel, ForwardRequest, DestroyClient
<1>2. CASE HelloData(c) \/ RelayUp(c)
  BY <1>2 DEF HelloData, RelayUp, WriteUpstream
<1>3. CASE TlsSecure(c)
  BY <1>3 DEF TlsSecure, Listener, dataVars
<1>4. ASSUME NEW i \in Addrs, NEW r \in Requests, Accept(c, i, r) \/ TlsHello(c, i, r)
      PROVE  UNCHANGED <<phase[d], request[d], rest[d], toUp[d], client[d], upstream[d],
                         toClient[d]>>
  BY <1>4 DEF Accept, TlsHello, Arrive, Listener
<1> QED
  BY <1>1, <1>2, <1>3, <1>4

\* The whole stream is left to a client that has just come.
LEMMA WholeStream ==
  ASSUME NEW r
  PROVE  /\ Len(Stream(r)) \in Nat
         /\ SubSeq(Stream(r), Len(Stream(r)) - Len(Stream(r)) + 1, Len(Stream(r))) = Stream(r)
<1>1. Stream(r) \in Seq(Units)
  BY StreamType
<1>2. Len(Stream(r)) \in Nat /\ Len(Stream(r)) - Len(Stream(r)) + 1 = 1
  BY <1>1, LenProperties
<1> QED
  BY <1>1, <1>2, SubSeqFull

\* A client comes, to a plain server or to a secure one.
LEMMA StreamArrival ==
  ASSUME TypeOK, StreamInv, NEW c \in Conns, NEW i \in Addrs, NEW r \in Requests,
         Accept(c, i, r) \/ TlsHello(c, i, r)
  PROVE  StreamOK(c)'
<1> USE DEF TypeOK, ControlTypeOK, DataTypeOK
<1>1. client[c] = None /\ request'[c] = r /\ rest'[c] = Stream(r)
  BY DEF Accept, TlsHello, Arrive
<1>2. phase[c] = None /\ toUp'[c] = << >> /\ toClient'[c] = << >> /\ upstream[c] = None
  BY <1>1 DEF Accept, TlsHello, Arrive, StreamInv, StreamOK, None
<1>3. Suffix(c)'
  BY <1>1, WholeStream DEF Suffix, Done
<1>4. \/ client'[c] = "open" /\ phase'[c] = "first"
      \/ client'[c] = "handshake" /\ phase'[c] = None /\ upstream'[c] = None
  BY <1>2 DEF Accept, TlsHello, Listener
<1> QED
  BY <1>1, <1>2, <1>3, <1>4 DEF StreamOK, None

\* The handshake of a client is over.
LEMMA StreamSecure ==
  ASSUME TypeOK, StreamInv, NEW c \in Conns, TlsSecure(c)
  PROVE  StreamOK(c)'
<1> USE DEF TypeOK, ControlTypeOK
<1>1. client'[c] = "open" /\ phase'[c] = "first" /\ client[c] = "handshake"
  BY DEF TlsSecure, Listener
<1>2. UNCHANGED <<request, rest, toUp, toClient>>
  BY DEF TlsSecure, dataVars
<1>3. Suffix(c)' <=> Suffix(c)
  BY <1>2 DEF Suffix, Done
<1> QED
  BY <1>1, <1>2, <1>3 DEF StreamInv, StreamOK, None

\* A data event takes the next n units off a stream.
LEMMA NextUnits ==
  ASSUME TypeOK, NEW c \in Conns, Suffix(c), NEW n \in 1 .. Sent(c), UNCHANGED request,
         rest' = [rest EXCEPT ![c] = SubSeq(@, n + 1, Len(@))]
  PROVE  /\ Suffix(c)' /\ Done(c)' = Done(c) + n
         /\ Done(c) \in Nat /\ Done(c) + n <= Len(Stream(request[c]))
         /\ SubSeq(rest[c], 1, n) = SubSeq(Stream(request[c]), Done(c) + 1, Done(c) + n)
<1> DEFINE all == Stream(request[c])
           d == Done(c)
           r == Len(rest[c])
<1>1. all \in Seq(Units) /\ Len(all) \in Nat
  BY StreamType, LenProperties
<1>2. n \in Nat /\ 1 <= n /\ n <= Len(rest[c]) /\ Len(rest[c]) \in Nat
  BY SentBound, LenProperties DEF TypeOK
<1>3. r <= Len(all) /\ rest[c] = SubSeq(all, d + 1, Len(all)) /\ d = Len(all) - r
  BY DEF Suffix, Done
<1>4. rest'[c] = SubSeq(rest[c], n + 1, r) /\ all' = all
  BY DEF TypeOK, DataTypeOK
<1>5. d' = Len(all') - r' /\ r' = Len(rest'[c])
  BY DEF Done
<1>6. r \in Nat /\ n <= r
  BY <1>2
<1>7. Suffix(c)' <=> r' <= Len(all') /\ rest'[c] = SubSeq(all', d' + 1, Len(all'))
  BY DEF Suffix, Done
<1> HIDE DEF all, d
<1>8. d \in 0 .. Len(all) /\ n \in 1 .. Len(all) - d
  BY <1>1, <1>2, <1>3, <1>6
<1>9. /\ SubSeq(rest[c], 1, n) = SubSeq(all, d + 1, d + n)
      /\ SubSeq(rest[c], n + 1, Len(rest[c])) = SubSeq(all, d + n + 1, Len(all))
      /\ Len(SubSeq(rest[c], n + 1, Len(rest[c]))) = Len(all) - (d + n)
  BY <1>1, <1>3, <1>8, TakeOff
<1>10. rest'[c] = SubSeq(all, d + n + 1, Len(all)) /\ r' = Len(all) - (d + n)
  BY <1>4, <1>5, <1>9
<1> HIDE DEF r
<1>11. d' = d + n /\ r' <= Len(all) /\ d \in Nat /\ d + n <= Len(all)
  <2>1. d' = Len(all) - (Len(all) - (d + n))
    BY <1>4, <1>5, <1>10
  <2> QED
    BY <1>1, <1>2, <1>8, <1>10, <2>1
<1>12. Suffix(c)'
  BY <1>4, <1>7, <1>10, <1>11
<1> QED
  BY <1>9, <1>11, <1>12 DEF all, d

\* What is written of them continues what was written before.
LEMMA StreamWrite ==
  ASSUME TypeOK, StreamInv, NEW c \in Conns, phase[c] \in {"hello", "piped"}, client[c] = "open",
         NEW n \in 1 .. Sent(c), NEW f \in {"raw", "fragmented"},
         WriteUpstream(c, Form(SubSeq(rest[c], 1, n), f)),
         rest' = [rest EXCEPT ![c] = SubSeq(@, n + 1, Len(@))],
         phase'[c] = "piped", UNCHANGED <<client, upstream, request>>
  PROVE  StreamOK(c)'
<1> USE DEF TypeOK, DataTypeOK
<1> DEFINE all == Stream(request[c])
           next == SubSeq(rest[c], 1, n)
<1>1. Suffix(c)
  BY DEF StreamInv, StreamOK, None
<1>2. /\ Suffix(c)' /\ Done(c)' = Done(c) + n
      /\ Done(c) \in Nat /\ Done(c) + n <= Len(all)
      /\ next = SubSeq(all, Done(c) + 1, Done(c) + n)
  BY <1>1, NextUnits
<1>3. ASSUME upstream[c] \in UpstreamAlive PROVE InOrder(c)'
  <2>1. PICK skipped \in 0 .. Len(RequestHead) :
          /\ skipped <= Done(c)
          /\ UnitsOf(toUp[c]) = SubSeq(all, skipped + 1, Done(c))
          /\ request[c].kind = "http" => skipped = 0
    BY <1>3 DEF StreamInv, StreamOK, InOrder
  <2>2. next \in Seq(Units) /\ Form(next, f) \in Seq(Written) /\ UnitsOf(Form(next, f)) = next
    <3>1. next \in Seq(Units)
      BY SentBound, PartType
    <3> HIDE DEF next
    <3> QED
      BY <3>1, FormType, UnitsOfForm
  <2>3. toUp'[c] = toUp[c] \o Form(next, f)
    BY <1>3 DEF WriteUpstream
  <2>4. all \in Seq(Units) /\ Len(all) \in Nat
    BY StreamType, LenProperties
  <2>5. n \in Nat
    BY SentBound
  <2>6. Len(RequestHead) \in Nat
    BY ProxyAssumption, LenProperties
  <2> HIDE DEF all, next
  <2>7. UnitsOf(toUp'[c]) = SubSeq(all, skipped + 1, Done(c)) \o next
    BY <2>1, <2>2, <2>3, UnitsOfConcat
  <2>8. UnitsOf(toUp'[c]) = SubSeq(all, skipped + 1, Done(c) + n)
    <3> DEFINE d == Done(c)
    <3>0. next = SubSeq(all, d + 1, d + n) /\ d \in Nat /\ d + n <= Len(all)
      BY <1>2 DEF next, all
    <3>1. skipped <= d /\ skipped \in Nat
      <4>1. skipped <= d
        BY <2>1
      <4>2. skipped \in Nat
        BY <2>6
      <4> QED
        BY <4>1, <4>2
    <3>2. UnitsOf(toUp'[c]) = SubSeq(all, skipped + 1, d) \o SubSeq(all, d + 1, d + n)
      BY <2>7, <3>0
    <3> HIDE DEF d
    <3>3. skipped + 1 \in 1 .. Len(all) + 1 /\ d \in skipped .. Len(all) /\ d + n \in d .. Len(all)
      BY <2>4, <2>5, <3>0, <3>1
    <3>4. d \in (skipped + 1) - 1 .. Len(all)
      BY <3>0, <3>1, <3>3
    <3>5. SubSeq(all, skipped + 1, d) \o SubSeq(all, d + 1, d + n) = SubSeq(all, skipped + 1, d + n)
      BY <2>4, <3>3, <3>4, ConcatAdjacentSubSeq
    <3> QED
      BY <3>2, <3>5 DEF d
  <2>9. all = Stream(request[c])' /\ skipped <= Done(c) + n
    BY <1>2, <2>1, <2>5, <2>6 DEF all
  <2> QED
    BY <1>2, <2>1, <2>8, <2>9 DEF InOrder
<1> QED
  BY <1>2, <1>3 DEF StreamOK, None

\* The first data of a client: of a tunnel's head nothing is written, of a request all.
LEMMA StreamFirstData ==
  ASSUME TypeOK, StreamInv, NEW c \in Conns, FirstData(c)
  PROVE  StreamOK(c)'
<1> USE DEF TypeOK, ControlTypeOK, DataTypeOK
<1> DEFINE all == Stream(request[c])
<1>1. PICK n \in 1 .. Sent(c) :
        /\ \/ Refuse(c, n) \/ ConnectThrows(c, n) \/ OpenTunnel(c, n) \/ ForwardRequest(c, n)
        /\ rest' = [rest EXCEPT ![c] = SubSeq(@, n + 1, Len(@))]
        /\ UNCHANGED request
  BY DEF FirstData
<1>2. /\ client[c] = "open" /\ client'[c] \in {"open", "destroyed"}
      /\ phase[c] = "first" /\ phase'[c] \in {"refused", "hello", "piped"}
  BY <1>1 DEF FirstData, Refuse, ConnectThrows, OpenTunnel, ForwardRequest, DestroyClient,
              ClientAfterDestroy, Phases
<1>3. Suffix(c) /\ toUp[c] = << >> /\ toClient[c] = << >> /\ rest[c] = all
  BY <1>2 DEF StreamInv, StreamOK, None
<1>4. all \in Seq(Units) /\ Len(all) \in Nat /\ Done(c) = 0
  BY <1>3, StreamType, LenProperties DEF Done
<1>5. n \in Nat /\ n >= 1 /\ Len(RequestHead) \in Nat
  BY SentBound, ProxyAssumption, LenProperties
<1> HIDE DEF all
<1>6. /\ Suffix(c)' /\ Done(c)' = n /\ n <= Len(all)
      /\ SubSeq(all, 1, n) = SubSeq(rest[c], 1, n)
  <2>1. /\ Suffix(c)' /\ Done(c)' = Done(c) + n /\ Done(c) + n <= Len(all)
        /\ SubSeq(rest[c], 1, n) = SubSeq(all, Done(c) + 1, Done(c) + n)
    BY <1>1, <1>3, NextUnits DEF all
  <2> QED
    BY <1>4, <1>5, <2>1
<1>7. CASE Refuse(c, n) \/ ConnectThrows(c, n)
  <2>1. phase'[c] = "refused"
    BY <1>7 DEF Refuse, ConnectThrows
  <2> QED
    BY <1>2, <1>6, <2>1 DEF StreamOK, None
<1>8. CASE OpenTunnel(c, n)
  <2>1. toUp' = toUp /\ request[c].kind = "connect"
    BY <1>8 DEF OpenTunnel
  <2>2. n <= Len(RequestHead)
    <3>1. n <= Len(all) - Len(Payload(request[c]))
      BY <1>3, <2>1 DEF Sent
    <3>2. Payload(request[c]) \in Seq(Units) /\ RequestHead \in Seq(Units)
      <4>1. <<"hello", "app">> \in Seq(Units) /\ <<"body">> \in Seq(Units)
        BY DEF Units, PayloadUnits
      <4> QED
        BY <4>1, ProxyAssumption, SeqMonotonic, Zenon DEF Payload, Units
    <3>3. Len(all) = Len(RequestHead) + Len(Payload(request[c]))
      BY <3>2, ConcatProperties DEF all, Stream
    <3>4. Len(Payload(request[c])) \in Nat
      BY <3>2, LenProperties
    <3> QED
      BY <1>4, <1>5, <3>1, <3>3, <3>4
  <2>3. UnitsOf(<< >>) = << >> /\ SubSeq(all, n + 1, n) = << >>
    <3>1. SubSeq(all, n + 1, n) = << >>
      BY <1>5, SubSeqEmpty
    <3> QED
      BY <3>1 DEF UnitsOf
  <2>4. InOrder(c)'
    BY <1>1, <1>3, <1>5, <1>6, <2>1, <2>2, <2>3 DEF InOrder, all
  <2> QED
    BY <1>2, <1>6, <2>4 DEF StreamOK, None
<1>9. CASE ForwardRequest(c, n)
  <2> DEFINE chunk == SubSeq(rest[c], 1, n)
             lines == IF request[c].obfuscate
                      THEN IF n < Len(RequestHead) THEN n ELSE Len(RequestHead)
                      ELSE 0
  <2>1. chunk \in Seq(Units) /\ Len(chunk) = n /\ lines \in 0 .. n
    <3>1. \A i \in 1 .. n : rest[c][i] \in Units
      BY <1>3, <1>4, <1>5, <1>6, ElementOfSeq
    <3> QED
      BY <1>5, <3>1, SubSeqProperties
  <2>2. toUp'[c] = Form(SubSeq(chunk, 1, lines), "rewritten")
                     \o Form(SubSeq(chunk, lines + 1, n), "raw")
    BY <1>9 DEF ForwardRequest
  <2> HIDE DEF chunk, lines
  <2>3. SubSeq(chunk, 1, lines) \in Seq(Units) /\ SubSeq(chunk, lines + 1, n) \in Seq(Units)
    BY <1>5, <2>1, PartType
  <2>4. UnitsOf(toUp'[c]) = SubSeq(chunk, 1, lines) \o SubSeq(chunk, lines + 1, n)
    <3> DEFINE head == SubSeq(chunk, 1, lines)
               tail == SubSeq(chunk, lines + 1, n)
    <3>1. head \in Seq(Units) /\ tail \in Seq(Units)
      BY <2>3
    <3>2. toUp'[c] = Form(head, "rewritten") \o Form(tail, "raw")
      BY <2>2
    <3> HIDE DEF head, tail
    <3>3. /\ Form(head, "rewritten") \in Seq(Written) /\ UnitsOf(Form(head, "rewritten")) = head
          /\ Form(tail, "raw") \in Seq(Written) /\ UnitsOf(Form(tail, "raw")) = tail
      BY <3>1, FormType, UnitsOfForm
    <3>4. UnitsOf(toUp'[c]) = head \o tail
      BY <3>2, <3>3, UnitsOfConcat
    <3> QED
      BY <3>4 DEF head, tail
  <2>5. SubSeq(chunk, 1, lines) \o SubSeq(chunk, lines + 1, n) = SubSeq(chunk, 1, n)
    <3>1. /\ 1 \in 1 .. Len(chunk) + 1 /\ lines \in 1 - 1 .. Len(chunk)
          /\ n \in lines .. Len(chunk)
      BY <1>5, <2>1
    <3> QED
      BY <2>1, <3>1, ConcatAdjacentSubSeq
  <2>6. SubSeq(chunk, 1, n) = SubSeq(all, 1, n)
    BY <1>6, <2>1, SubSeqFull DEF chunk
  <2>7. UnitsOf(toUp'[c]) = SubSeq(Stream(request[c])', 0 + 1, Done(c)')
    <3>1. UnitsOf(toUp'[c]) = SubSeq(all, 1, n)
      BY <2>4, <2>5, <2>6
    <3>2. all = Stream(request[c])' /\ Done(c)' = n /\ 0 + 1 = 1
      BY <1>1, <1>6 DEF all
    <3> QED
      BY <3>1, <3>2
  <2>8. 0 \in 0 .. Len(RequestHead) /\ 0 <= Done(c)'
    BY <1>5, <1>6
  <2>9. InOrder(c)'
    BY <2>7, <2>8 DEF InOrder
  <2> QED
    BY <1>2, <1>6, <2>9 DEF StreamOK, None
<1> QED
  BY <1>1, <1>7, <1>8, <1>9

\* The other events of a connection bring no socket to life.
LEMMA StreamOthers ==
  ASSUME TypeOK, NEW c \in Conns, SocketEvent(c) \/ AttemptEvent(c),
         ~TlsSecure(c), ~FirstData(c), ~HelloData(c), ~RelayUp(c), NEW d \in Conns
  PROVE  /\ UNCHANGED <<phase[d], request[d], rest[d], toUp[d]>>
         /\ client'[d] = None <=> client[d] = None
         /\ client'[d] = "handshake" => client[d] = "handshake"
         /\ upstream[d] = None => upstream'[d] = None
         /\ upstream'[d] \in UpstreamAlive => upstream[d] \in UpstreamAlive
         /\ toClient'[d] = toClient[d] \/ phase[d] = "piped"
<1> USE DEF TypeOK, ControlTypeOK, DataTypeOK, dataVars, None
<1>1. CASE RelayDown(c) \/ UpstreamSends(c)
  BY <1>1 DEF RelayDown, UpstreamSends
<1>2. CASE TlsClientError(c) \/ ClientGone(c)
  BY <1>2 DEF TlsClientError, ClientGone
<1>3. CASE ConnectOk(c) \/ ConnectFail(c) \/ LookupStalls(c) \/ UpstreamGone(c)
  BY <1>3 DEF ConnectOk, ConnectFail, LookupStalls, UpstreamGone, UpstreamAlive, Connecting
<1>4. CASE ClientTimeout(c) \/ ClientClose(c)
  BY <1>4 DEF ClientTimeout, ClientClose, DestroyUpstream, UpstreamAfterDestroy,
              UpstreamAlive, Connecting
<1>5. CASE UpstreamTimeout(c) \/ UpstreamClose(c)
  BY <1>5 DEF UpstreamTimeout, UpstreamClose, DestroyClient, ClientAfterDestroy,
              UpstreamAlive, Connecting
<1> QED
  BY <1>1, <1>2, <1>3, <1>4, <1>5, Zenon DEF SocketEvent, AttemptEvent

\* Nor do the servers' steps.
LEMMA StreamServers ==
  ASSUME TypeOK, ServerEvent, NEW d \in Conns
  PROVE  /\ UNCHANGED <<phase[d], request[d], rest[d], toUp[d], toClient[d]>>
         /\ client'[d] = None <=> client[d] = None
         /\ client'[d] = "handshake" => client[d] = "handshake"
         /\ upstream[d] = None => upstream'[d] = None
         /\ upstream'[d] \in UpstreamAlive => upstream[d] \in UpstreamAlive
<1> USE DEF TypeOK, ControlTypeOK, dataVars, None
<1>1. CASE StopBegin
  BY <1>1 DEF StopBegin, ClientAfterDestroy, UpstreamAfterDestroy, UpstreamAlive, Connecting
<1>2. ASSUME ~StopBegin
      PROVE  UNCHANGED <<phase, request, rest, toUp, toClient, client, upstream>>
  BY <1>2, Zenon DEF ServerEvent, StartServer, CreateThrows, ListenOk, ListenFail, StopResume,
                     ServerClose
<1> QED
  BY <1>1, <1>2

\* Every step keeps the invariant.
LEMMA StreamStep ==
  ASSUME TypeOK, StreamInv, [Next]_vars
  PROVE  StreamInv'
<1> SUFFICES ASSUME NEW d \in Conns PROVE StreamOK(d)'
  BY DEF StreamInv
<1>1. StreamOK(d)
  BY DEF StreamInv
<1>2. CASE UNCHANGED vars
  BY <1>1, <1>2, StreamStutter DEF vars, dataVars
<1>3. CASE ServerEvent
  BY <1>1, <1>3, StreamServers, StreamStutter
<1>4. ASSUME NEW c \in Conns, NEW i \in Addrs, NEW r \in Requests,
             Accept(c, i, r) \/ TlsHello(c, i, r)
      PROVE  StreamOK(d)'
  BY <1>1, <1>4, StreamArrival, OthersUntouched, StreamStutter
<1>5. ASSUME NEW c \in Conns, SocketEvent(c) \/ AttemptEvent(c) PROVE StreamOK(d)'
  <2>1. CASE d # c /\ (TlsSecure(c) \/ FirstData(c) \/ HelloData(c) \/ RelayUp(c))
    BY <1>1, <2>1, OthersUntouched, StreamStutter
  <2>2. CASE TlsSecure(c)
    BY <2>1, <2>2, StreamSecure
  <2>3. CASE FirstData(c)
    BY <2>1, <2>3, StreamFirstData
  <2>4. ASSUME HelloData(c) \/ RelayUp(c), d = c PROVE StreamOK(c)'
    <3>1. PICK n \in 1 .. Sent(c), f \in {"raw", "fragmented"} :
            /\ WriteUpstream(c, Form(SubSeq(rest[c], 1, n), f))
            /\ rest' = [rest EXCEPT ![c] = SubSeq(@, n + 1, Len(@))]
      BY <2>4 DEF HelloData, RelayUp
    <3>2. /\ phase[c] \in {"hello", "piped"} /\ client[c] = "open" /\ phase'[c] = "piped"
          /\ UNCHANGED <<client, upstream, request>>
      BY <2>4 DEF HelloData, RelayUp, TypeOK, ControlTypeOK
    <3> QED
      BY <3>1, <3>2, StreamWrite
  <2>5. CASE ~TlsSecure(c) /\ ~FirstData(c) /\ ~HelloData(c) /\ ~RelayUp(c)
    BY <1>1, <1>5, <2>5, StreamOthers, StreamStutter
  <2> QED
    BY <2>1, <2>2, <2>3, <2>4, <2>5
<1>6. CASE Tick
  <2>1. PICK c \in Conns : UpstreamClose(c) /\ upstream[c] = "discarded"
    BY <1>6 DEF Tick
  <2>2. /\ UNCHANGED <<phase[d], request[d], rest[d], toUp[d], toClient[d]>>
        /\ client'[d] = None <=> client[d] = None
        /\ client'[d] = "handshake" => client[d] = "handshake"
        /\ upstream[d] = None => upstream'[d] = None
        /\ upstream'[d] \in UpstreamAlive => upstream[d] \in UpstreamAlive
    BY <2>1 DEF UpstreamClose, DestroyClient, ClientAfterDestroy, UpstreamAlive, Connecting,
                TypeOK, ControlTypeOK, dataVars, None
  <2> QED
    BY <1>1, <2>2, StreamStutter
<1> QED
  BY <1>2, <1>3, <1>4, <1>5, <1>6, Zenon DEF Next, Arrival

\* The bytes of a client reach a live upstream once, in order and without a gap, however
\* TCP cut them; of a tunnel's stream only (part of) the request head stays behind.
THEOREM PayloadStaysIntact == Spec => []PayloadIntact
<1>1. TypeOK /\ PairInv /\ StreamInv => PayloadIntact
  <2> SUFFICES ASSUME TypeOK, PairInv, StreamInv, NEW c \in Conns,
                      upstream[c] \in UpstreamAlive \ {"idle"}, phase[c] # "refused"
               PROVE  \E skipped \in 0 .. Len(RequestHead) :
                        /\ UnitsOf(toUp[c]) = SubSeq(Stream(request[c]), skipped + 1, Done(c))
                        /\ request[c].kind = "http" => skipped = 0
    BY DEF PayloadIntact, UnitsOf, Done
  <2>1. phase[c] \in {"hello", "piped"}
    <3>1. phase[c] # None
      BY DEF StreamInv, StreamOK, UpstreamAlive, Connecting, None
    <3>2. phase[c] # "first"
      BY DEF PairInv, Coupling, UpstreamAlive, Connecting
    <3> QED
      BY <3>1, <3>2 DEF TypeOK, ControlTypeOK, Phases
  <2> QED
    BY <2>1 DEF StreamInv, StreamOK, InOrder
<1> QED
  BY <1>1, StreamInit, StreamStep, TypeCorrect, PairInvariant, PTL DEF Spec

-----------------------------------------------------------------------------
(***************************************************************************)
(* The evasion, for a request head that comes in one piece: a head cut     *)
(* apart escapes it, as the run proxy_split_head shows.                    *)
(***************************************************************************)
\* What the evasion asks of the units written to an upstream.
Disguised(w) ==
  \A i \in 1 .. Len(w) : /\ w[i].unit = "hello" => w[i].form = "fragmented"
                         /\ w[i].unit \in HeadUnits => w[i].form = "rewritten"

\* The units that may pass as they are.
Plain == {"app", "body"}

EvasionOK(c) ==
  /\ phase[c] = "hello" => /\ rest[c][1] = "hello"
                           /\ \A i \in 2 .. Len(rest[c]) : rest[c][i] \in Plain
  /\ request[c].obfuscate /\ phase[c] = "piped" =>
       \A i \in 1 .. Len(rest[c]) : rest[c][i] \in Plain
  /\ request[c].obfuscate => Disguised(toUp[c])

EvasionInv == \A c \in Conns : EvasionOK(c)

\* What a write adds is disguised: a hello in fragments, head lines rewritten, the rest.
LEMMA DisguisedForm ==
  ASSUME NEW s \in Seq(Units), NEW f \in {"raw", "rewritten", "fragmented"},
         \A i \in 1 .. Len(s) : \/ s[i] \in Plain
                                \/ s[i] = "hello" /\ f = "fragmented"
                                \/ s[i] \in HeadUnits /\ f = "rewritten"
  PROVE  Disguised(Form(s, f))
<1>1. Len(Form(s, f)) = Len(s) /\ \A i \in 1 .. Len(s) : Form(s, f)[i] = [unit |-> s[i], form |-> f]
  BY LenProperties DEF Form
<1>2. HeadUnits \cap {"hello", "app", "body"} = {}
  BY ProxyAssumption DEF PayloadUnits
<1>3. \A i \in 1 .. Len(s) : Form(s, f)[i].unit = s[i] /\ Form(s, f)[i].form = f
  <2> SUFFICES ASSUME NEW i \in 1 .. Len(s)
               PROVE  Form(s, f)[i].unit = s[i] /\ Form(s, f)[i].form = f
    OBVIOUS
  <2>1. Form(s, f)[i] = [unit |-> s[i], form |-> f]
    BY <1>1
  <2> QED
    BY <2>1
<1> HIDE DEF HeadUnits
<1> QED
  BY <1>1, <1>2, <1>3 DEF Disguised, Plain

LEMMA DisguisedConcat ==
  ASSUME NEW v \in Seq(Written), NEW w \in Seq(Written), Disguised(v), Disguised(w)
  PROVE  Disguised(v \o w)
<1>1. /\ Len(v) \in Nat /\ Len(w) \in Nat /\ Len(v \o w) = Len(v) + Len(w)
      /\ \A i \in 1 .. Len(v) + Len(w) : (v \o w)[i] = IF i <= Len(v) THEN v[i] ELSE w[i - Len(v)]
  BY ConcatProperties, LenProperties
<1> SUFFICES ASSUME NEW i \in 1 .. Len(v) + Len(w)
             PROVE  /\ (v \o w)[i].unit = "hello" => (v \o w)[i].form = "fragmented"
                    /\ (v \o w)[i].unit \in HeadUnits => (v \o w)[i].form = "rewritten"
  BY <1>1 DEF Disguised
<1>2. CASE i <= Len(v)
  <2>1. (v \o w)[i] = v[i] /\ i \in 1 .. Len(v)
    BY <1>1, <1>2
  <2> QED
    BY <2>1 DEF Disguised
<1>3. CASE ~(i <= Len(v))
  <2> DEFINE j == i - Len(v)
  <2>1. (v \o w)[i] = w[j] /\ j \in 1 .. Len(w)
    BY <1>1, <1>3
  <2> HIDE DEF j
  <2> QED
    BY <2>1 DEF Disguised
<1> QED
  BY <1>2, <1>3

\* The stream of a client whose head is one piece.
LEMMA OnePiece ==
  ASSUME Len(RequestHead) = 1, NEW r
  PROVE  /\ Len(Stream(r)) = 1 + Len(Payload(r)) /\ Len(Payload(r)) \in {1, 2}
         /\ Stream(r)[1] \in HeadUnits
         /\ r.kind = "connect" => Stream(r)[2] = "hello" /\ Stream(r)[3] = "app"
         /\ r.kind # "connect" => Stream(r)[2] = "body"
<1>1. RequestHead \in Seq(Units) /\ RequestHead[1] \in HeadUnits
  BY ProxyAssumption, SeqMonotonic, ElementOfSeq DEF Units
<1>2. <<"hello", "app">> \in Seq(Units) /\ <<"body">> \in Seq(Units)
  BY DEF Units, PayloadUnits
<1> HIDE DEF HeadUnits, Units
<1>3. ASSUME NEW p \in Seq(Units)
      PROVE  /\ Len(RequestHead \o p) = 1 + Len(p)
             /\ \A i \in 1 .. 1 + Len(p) :
                  (RequestHead \o p)[i] = IF i <= 1 THEN RequestHead[i] ELSE p[i - 1]
  <2>1. /\ Len(RequestHead \o p) = Len(RequestHead) + Len(p)
        /\ \A i \in 1 .. Len(RequestHead) + Len(p) :
             (RequestHead \o p)[i] = IF i <= Len(RequestHead) THEN RequestHead[i]
                                    ELSE p[i - Len(RequestHead)]
    BY <1>1, ConcatProperties
  <2> QED
    BY <2>1
<1>4. CASE r.kind = "connect"
  <2>1. Payload(r) = <<"hello", "app">>
    BY <1>4 DEF Payload
  <2>2. /\ Len(Payload(r)) = 2 /\ Payload(r)[1] = "hello" /\ Payload(r)[2] = "app"
        /\ Payload(r) \in Seq(Units)
    BY <1>2, <2>1
  <2> QED
    <3>1. /\ Len(Stream(r)) = 3 /\ Stream(r)[1] = RequestHead[1]
          /\ Stream(r)[2] = Payload(r)[2 - 1] /\ Stream(r)[3] = Payload(r)[3 - 1]
      BY <1>3, <2>2 DEF Stream
    <3> QED
      BY <1>1, <1>4, <2>2, <3>1
<1>5. CASE r.kind # "connect"
  <2>1. Payload(r) = <<"body">>
    BY <1>5 DEF Payload
  <2>2. Len(Payload(r)) = 1 /\ Payload(r)[1] = "body" /\ Payload(r) \in Seq(Units)
    BY <1>2, <2>1
  <2> QED
    BY <1>1, <1>3, <1>5, <2>2 DEF Stream
<1> QED
  BY <1>4, <1>5

LEMMA EvasionInit == Init => EvasionInv
<1> SUFFICES ASSUME Init, NEW c \in Conns PROVE EvasionOK(c)
  BY DEF EvasionInv
<1>1. phase[c] = "none" /\ request[c] = NoRequest /\ ~NoRequest.obfuscate
  BY DEF Init, NoRequest, None
<1> QED
  BY <1>1 DEF EvasionOK

\* Steps that leave the streams alone.
LEMMA EvasionStutter ==
  ASSUME NEW c \in Conns, EvasionOK(c), UNCHANGED <<phase[c], request[c], rest[c], toUp[c]>>
  PROVE  EvasionOK(c)'
BY DEF EvasionOK, Disguised

\* A client has come: nothing is written yet.
LEMMA EvasionFresh ==
  ASSUME NEW c \in Conns, StreamOK(c)', phase'[c] \in {None, "first"}
  PROVE  EvasionOK(c)'
<1>1. toUp'[c] = << >> /\ phase'[c] \notin {"hello", "piped"}
  BY DEF StreamOK, None
<1> QED
  BY <1>1 DEF EvasionOK, Disguised

\* The chunk that a write takes off the rest, and what it leaves.
LEMMA ChunkAndLeft ==
  ASSUME TypeOK, NEW c \in Conns, NEW n \in 1 .. Sent(c),
         rest' = [rest EXCEPT ![c] = SubSeq(@, n + 1, Len(@))]
  PROVE  /\ n \in Nat /\ n >= 1 /\ n <= Len(rest[c]) /\ Len(rest[c]) \in Nat
         /\ SubSeq(rest[c], 1, n) \in Seq(Units) /\ Len(SubSeq(rest[c], 1, n)) = n
         /\ \A i \in 1 .. n : SubSeq(rest[c], 1, n)[i] = rest[c][i]
         /\ Len(rest'[c]) = Len(rest[c]) - n
         /\ \A i \in 1 .. Len(rest[c]) - n : rest'[c][i] = rest[c][n + i]
<1> DEFINE r == rest[c]
<1>1. n \in Nat /\ 1 <= n /\ n <= Len(r) /\ r \in Seq(Units) /\ Len(r) \in Nat
  BY SentBound, LenProperties DEF TypeOK
<1>2. rest'[c] = SubSeq(r, n + 1, Len(r))
  BY DEF TypeOK, DataTypeOK
<1> HIDE DEF r
<1>3. /\ Len(SubSeq(r, n + 1, Len(r))) = Len(r) - n
      /\ \A i \in 1 .. Len(r) - n : SubSeq(r, n + 1, Len(r))[i] = r[n + i]
  BY <1>1, Drop
<1>4. \A i \in 1 .. n : r[i] \in Units
  BY <1>1, ElementOfSeq
<1>5. /\ SubSeq(r, 1, n) \in Seq(Units) /\ Len(SubSeq(r, 1, n)) = n
      /\ \A i \in 1 .. n : SubSeq(r, 1, n)[i] = r[i]
  BY <1>1, <1>4, SubSeqProperties
<1> QED
  BY <1>1, <1>2, <1>3, <1>5 DEF r

\* The first data: it holds the head, which is withheld or rewritten (lines 181-366).
LEMMA EvasionFirstData ==
  ASSUME Len(RequestHead) = 1, TypeOK, StreamInv, EvasionInv, NEW c \in Conns, FirstData(c)
  PROVE  EvasionOK(c)'
<1> USE DEF TypeOK, ControlTypeOK, DataTypeOK
<1>1. PICK n \in 1 .. Sent(c) :
        /\ \/ Refuse(c, n) \/ ConnectThrows(c, n) \/ OpenTunnel(c, n) \/ ForwardRequest(c, n)
        /\ rest' = [rest EXCEPT ![c] = SubSeq(@, n + 1, Len(@))]
        /\ UNCHANGED request
  BY DEF FirstData
<1>2. phase[c] = "first" /\ client[c] = "open"
  BY DEF FirstData
<1>3. toUp[c] = << >> /\ toClient[c] = << >> /\ rest[c] = Stream(request[c])
  BY <1>2 DEF StreamInv, StreamOK, None
<1> DEFINE r == rest[c]
<1>4. /\ n \in Nat /\ n >= 1 /\ n <= Len(r) /\ Len(r) \in Nat
      /\ SubSeq(r, 1, n) \in Seq(Units) /\ Len(SubSeq(r, 1, n)) = n
      /\ \A i \in 1 .. n : SubSeq(r, 1, n)[i] = r[i]
      /\ Len(rest'[c]) = Len(r) - n
      /\ \A i \in 1 .. Len(r) - n : rest'[c][i] = r[n + i]
  BY <1>1, ChunkAndLeft
<1>5. /\ Len(r) = 1 + Len(Payload(request[c])) /\ Len(Payload(request[c])) \in {1, 2}
      /\ r[1] \in HeadUnits
      /\ request[c].kind = "connect" => r[2] = "hello" /\ r[3] = "app"
      /\ request[c].kind # "connect" => r[2] = "body"
  BY <1>3, OnePiece
<1>6. CASE Refuse(c, n) \/ ConnectThrows(c, n)
  <2>1. phase'[c] = "refused" /\ toUp'[c] = << >>
    BY <1>3, <1>6 DEF Refuse, ConnectThrows
  <2> QED
    BY <2>1 DEF EvasionOK, Disguised
<1>7. CASE OpenTunnel(c, n)
  <2>1. /\ request[c].kind = "connect" /\ toUp'[c] = << >>
        /\ phase'[c] = IF request[c].obfuscate THEN "hello" ELSE "piped"
    BY <1>3, <1>7 DEF OpenTunnel
  <2>2. n = 1 /\ Len(r) = 3
    <3>1. Payload(request[c]) = <<"hello", "app">>
      BY <2>1 DEF Payload
    <3>2. Len(Payload(request[c])) = 2
      BY <3>1
    <3>3. n <= Len(r) - Len(Payload(request[c]))
      BY <1>3, <2>1 DEF Sent
    <3> QED
      BY <1>4, <1>5, <3>2, <3>3
  <2>3. Len(rest'[c]) = 2 /\ rest'[c][1] = "hello" /\ rest'[c][2] = "app"
    <3>1. Len(rest'[c]) = 2 /\ rest'[c][1] = r[1 + 1] /\ rest'[c][2] = r[1 + 2]
      BY <1>4, <2>2
    <3> QED
      BY <1>5, <2>1, <3>1
  <2>4. \A i \in 2 .. 2 : i = 2
    OBVIOUS
  <2> QED
    BY <1>1, <2>1, <2>3, <2>4 DEF EvasionOK, Disguised, Plain
<1>8. CASE ForwardRequest(c, n)
  <2>1. request[c].kind = "http" /\ phase'[c] = "piped" /\ Len(r) = 2
    <3>1. request[c].kind = "http" /\ phase'[c] = "piped"
      BY <1>8 DEF ForwardRequest
    <3>2. Payload(request[c]) = <<"body">>
      BY <3>1 DEF Payload
    <3>3. Len(Payload(request[c])) = 1
      BY <3>2
    <3> QED
      BY <1>5, <3>1, <3>3
  <2>2. \A i \in 1 .. Len(rest'[c]) : rest'[c][i] \in Plain
    <3>1. \A i \in 1 .. Len(r) - n : n + i = 2
      BY <1>4, <2>1
    <3> QED
      BY <1>4, <1>5, <2>1, <3>1 DEF Plain
  <2>3. ASSUME request[c].obfuscate PROVE Disguised(toUp'[c])
    <3> DEFINE chunk == SubSeq(r, 1, n)
               head == SubSeq(chunk, 1, 1)
               tail == SubSeq(chunk, 2, n)
    <3>1. toUp'[c] = Form(head, "rewritten") \o Form(tail, "raw")
      <4>1. (IF n < Len(RequestHead) THEN n ELSE Len(RequestHead)) = 1 /\ 1 + 1 = 2
        BY <1>4
      <4> QED
        BY <1>8, <2>3, <4>1 DEF ForwardRequest
    <3>2. chunk \in Seq(Units) /\ Len(chunk) = n /\ \A i \in 1 .. n : chunk[i] = r[i]
      BY <1>4
    <3> HIDE DEF chunk, r
    <3>3. \A i \in 1 .. 1 : chunk[i] \in Units
      BY <1>4, <3>2, ElementOfSeq
    <3>4. head \in Seq(Units) /\ Len(head) = 1 /\ \A i \in 1 .. 1 : head[i] = chunk[i]
      <4>1. \A i \in 1 .. 1 - 1 + 1 : 1 + i - 1 = i
        OBVIOUS
      <4> QED
        BY <3>3, <4>1, SubSeqProperties
    <3>5. tail \in Seq(Units) /\ Len(tail) = n - 1 /\ \A i \in 1 .. n - 1 : tail[i] = chunk[1 + i]
      <4>1. 1 \in 0 .. Len(chunk) /\ 1 + 1 = 2 /\ Len(chunk) = n
        BY <1>4, <3>2
      <4> QED
        BY <3>2, <4>1, Drop
    <3> HIDE DEF head, tail
    <3>6. \A i \in 1 .. Len(head) : head[i] \in HeadUnits
      BY <1>4, <1>5, <3>2, <3>4
    <3>7. \A i \in 1 .. Len(tail) : tail[i] \in Plain
      <4>1. \A i \in 1 .. n - 1 : 1 + i = 2 /\ 1 + i \in 1 .. n
        BY <1>4, <2>1
      <4> QED
        <5> SUFFICES ASSUME NEW i \in 1 .. n - 1 PROVE tail[i] \in Plain
          BY <3>5
        <5>1. tail[i] = chunk[2] /\ chunk[2] = r[2]
          BY <3>2, <3>5, <4>1
        <5>2. r[2] = "body"
          BY <1>5, <2>1
        <5> QED
          BY <5>1, <5>2 DEF Plain
    <3>8. Disguised(Form(head, "rewritten")) /\ Disguised(Form(tail, "raw"))
      BY <3>4, <3>5, <3>6, <3>7, DisguisedForm
    <3> QED
      BY <3>1, <3>4, <3>5, <3>8, FormType, DisguisedConcat
  <2> QED
    BY <1>1, <2>1, <2>2, <2>3 DEF EvasionOK
<1> QED
  BY <1>1, <1>6, <1>7, <1>8

\* The hello of an obfuscated tunnel is what the second data listener gets, and no
\* later write holds one.
LEMMA EvasionWrite ==
  ASSUME TypeOK, EvasionInv, NEW c \in Conns, HelloData(c) \/ RelayUp(c)
  PROVE  EvasionOK(c)'
<1> USE DEF TypeOK, ControlTypeOK, DataTypeOK
<1> DEFINE r == rest[c]
<1>1. PICK n \in 1 .. Sent(c), f \in {"raw", "fragmented"} :
        /\ WriteUpstream(c, Form(SubSeq(r, 1, n), f))
        /\ rest' = [rest EXCEPT ![c] = SubSeq(@, n + 1, Len(@))]
        /\ phase[c] = "hello" => f = IF SubSeq(r, 1, n)[1] = "hello" THEN "fragmented" ELSE "raw"
  BY DEF HelloData, RelayUp
<1>2. phase[c] \in {"hello", "piped"} /\ phase'[c] = "piped" /\ UNCHANGED request
  BY DEF HelloData, RelayUp
<1>3. /\ n \in Nat /\ n >= 1 /\ n <= Len(r) /\ Len(r) \in Nat
      /\ SubSeq(r, 1, n) \in Seq(Units) /\ Len(SubSeq(r, 1, n)) = n
      /\ \A i \in 1 .. n : SubSeq(r, 1, n)[i] = r[i]
      /\ Len(rest'[c]) = Len(r) - n
      /\ \A i \in 1 .. Len(r) - n : rest'[c][i] = r[n + i]
  BY <1>1, ChunkAndLeft
<1> SUFFICES ASSUME request[c].obfuscate
             PROVE  Disguised(toUp'[c]) /\ \A i \in 1 .. Len(rest'[c]) : rest'[c][i] \in Plain
  BY <1>2 DEF EvasionOK
<1>4. Disguised(toUp[c])
  BY DEF EvasionInv, EvasionOK
<1>5. \/ phase[c] = "hello" /\ r[1] = "hello" /\ \A i \in 2 .. Len(r) : r[i] \in Plain
      \/ phase[c] = "piped" /\ \A i \in 1 .. Len(r) : r[i] \in Plain
  BY <1>2 DEF EvasionInv, EvasionOK
<1> DEFINE chunk == SubSeq(r, 1, n)
<1>6. toUp'[c] = toUp[c] \/ toUp'[c] = toUp[c] \o Form(chunk, f)
  BY <1>1 DEF WriteUpstream
<1>7. /\ toUp[c] \in Seq(Written) /\ f \in {"raw", "rewritten", "fragmented"}
      /\ phase[c] = "hello" /\ chunk[1] = "hello" => f = "fragmented"
  BY <1>1
<1>8. chunk \in Seq(Units) /\ Len(chunk) = n /\ \A i \in 1 .. n : chunk[i] = r[i]
  BY <1>3
<1> HIDE DEF chunk, r
<1>9. \A i \in 1 .. Len(chunk) : chunk[i] \in Plain \/ (chunk[i] = "hello" /\ f = "fragmented")
  <2>1. \A i \in 1 .. n : i \in 1 .. Len(r) /\ (i = 1 \/ i \in 2 .. Len(r))
    BY <1>3
  <2>2. phase[c] = "hello" => chunk[1] = "hello" /\ f = "fragmented"
    <3>1. 1 \in 1 .. n
      BY <1>3
    <3> QED
      BY <1>2, <1>5, <1>7, <1>8, <3>1
  <2> QED
    <3> SUFFICES ASSUME NEW i \in 1 .. n
                 PROVE  chunk[i] \in Plain \/ (chunk[i] = "hello" /\ f = "fragmented")
      BY <1>8
    <3>1. CASE phase[c] = "hello" /\ i = 1
      BY <2>2, <3>1
    <3>2. CASE phase[c] # "hello" \/ i # 1
      <4>1. i \in 1 .. Len(r) /\ (i # 1 => i \in 2 .. Len(r))
        BY <2>1
      <4>2. r[i] \in Plain
        BY <1>5, <3>2, <4>1
      <4>3. chunk[i] = r[i]
        BY <1>8
      <4> QED
        BY <4>2, <4>3
    <3> QED
      BY <3>1, <3>2
<1>10. Disguised(Form(chunk, f)) /\ Form(chunk, f) \in Seq(Written)
  BY <1>7, <1>8, <1>9, DisguisedForm, FormType
<1>11. Disguised(toUp'[c])
  <2>1. Disguised(toUp[c] \o Form(chunk, f))
    BY <1>4, <1>7, <1>10, DisguisedConcat
  <2> QED
    BY <1>4, <1>6, <2>1
<1>12. \A i \in 1 .. Len(rest'[c]) : rest'[c][i] \in Plain
  <2>1. \A i \in 1 .. Len(r) - n : n + i \in 2 .. Len(r) /\ n + i \in 1 .. Len(r)
    BY <1>3
  <2> QED
    BY <1>3, <1>5, <2>1
<1> QED
  BY <1>11, <1>12

\* Every step keeps the invariant.
LEMMA EvasionStep ==
  ASSUME Len(RequestHead) = 1, TypeOK, TypeOK', StreamInv, StreamInv', EvasionInv, [Next]_vars
  PROVE  EvasionInv'
<1> SUFFICES ASSUME NEW d \in Conns PROVE EvasionOK(d)'
  BY DEF EvasionInv
<1>1. EvasionOK(d) /\ StreamOK(d)'
  BY DEF EvasionInv, StreamInv
<1>2. CASE UNCHANGED vars
  BY <1>1, <1>2, EvasionStutter DEF vars, dataVars
<1>3. CASE ServerEvent
  BY <1>1, <1>3, StreamServers, EvasionStutter
<1>4. ASSUME NEW c \in Conns, NEW i \in Addrs, NEW r \in Requests,
             Accept(c, i, r) \/ TlsHello(c, i, r)
      PROVE  EvasionOK(d)'
  <2>1. CASE d # c
    BY <1>1, <1>4, <2>1, OthersUntouched, EvasionStutter
  <2>2. CASE d = c
    <3>1. phase'[c] \in {None, "first"}
      BY <1>4 DEF Accept, TlsHello, Arrive, Listener, StreamInv, StreamOK, TypeOK, ControlTypeOK,
                  None
    <3> QED
      BY <1>1, <2>2, <3>1, EvasionFresh
  <2> QED
    BY <2>1, <2>2
<1>5. ASSUME NEW c \in Conns, SocketEvent(c) \/ AttemptEvent(c) PROVE EvasionOK(d)'
  <2>1. CASE d # c /\ (TlsSecure(c) \/ FirstData(c) \/ HelloData(c) \/ RelayUp(c))
    BY <1>1, <2>1, OthersUntouched, EvasionStutter
  <2>2. ASSUME TlsSecure(c), d = c PROVE EvasionOK(d)'
    <3>1. phase'[c] = "first"
      BY <2>2 DEF TlsSecure, Listener, TypeOK, ControlTypeOK
    <3> QED
      BY <1>1, <2>2, <3>1, EvasionFresh
  <2>3. ASSUME FirstData(c), d = c PROVE EvasionOK(d)'
    BY <2>3, EvasionFirstData
  <2>4. ASSUME HelloData(c) \/ RelayUp(c), d = c PROVE EvasionOK(d)'
    BY <2>4, EvasionWrite
  <2>5. CASE ~TlsSecure(c) /\ ~FirstData(c) /\ ~HelloData(c) /\ ~RelayUp(c)
    BY <1>1, <1>5, <2>5, StreamOthers, EvasionStutter
  <2> QED
    BY <2>1, <2>2, <2>3, <2>4, <2>5
<1>6. CASE Tick
  <2>1. PICK c \in Conns : UpstreamClose(c) /\ upstream[c] = "discarded"
    BY <1>6 DEF Tick
  <2>2. UNCHANGED <<phase[d], request[d], rest[d], toUp[d]>>
    BY <2>1 DEF UpstreamClose, dataVars
  <2> QED
    BY <1>1, <2>2, EvasionStutter
<1> QED
  BY <1>2, <1>3, <1>4, <1>5, <1>6, Zenon DEF Next, Arrival

\* When a request head comes in one piece, nothing of an obfuscated host's request or hello
\* reaches the upstream as the client sent it.
THEOREM EvasionIsApplied ==
  ASSUME Len(RequestHead) = 1
  PROVE  Spec => []EvasionApplied
<1>1. EvasionInv => EvasionApplied
  BY DEF EvasionInv, EvasionOK, Disguised, EvasionApplied, HelloFragmented
<1>2. TypeOK /\ TypeOK' /\ StreamInv /\ EvasionInv /\ [Next]_vars => EvasionInv'
  BY StreamStep, EvasionStep
<1> QED
  BY <1>1, <1>2, EvasionInit, StreamInit, StreamStep, TypeCorrect, PTL DEF Spec
=============================================================================
