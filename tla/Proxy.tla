------------------------------- MODULE Proxy -------------------------------
(***************************************************************************)
(* DemergiProxy (src/src/proxy.js): the servers that start() opens, the    *)
(* connection listener that pairs every client socket with an upstream     *)
(* socket, the evasion step applied to the first bytes, and stop().        *)
(*                                                                         *)
(* The program is single threaded: one action is one event handler of the  *)
(* event loop, run to its end.  Sockets are abstracted to the states the   *)
(* handlers can tell apart (destroyed, connecting); bytes are abstracted   *)
(* to units: the pieces of the client's stream that TCP may cut apart.     *)
(***************************************************************************)
EXTENDS Integers, Sequences

CONSTANTS
  Conns,          \* client connections, each used at most once
  NumAddrs,       \* number of entries of addrs
  SecureAddrs,    \* the entries whose protocol is https:
  Requests,       \* the requests clients may make
  RequestHead,    \* the units of a request head; the first holds the request line
  InactivityOn,   \* inactivityTimeout > 0
  Stalls,         \* may a lookup stay without an answer for ever?
  MaxUp           \* bound: units an upstream sends per connection

Addrs == 1 .. NumAddrs

\* What a client sends after the head, in units: a tunnel's TLS hello and what
\* follows it, or the body of a plain HTTP request.
PayloadUnits == {"hello", "app", "body"}
HeadUnits == {RequestHead[i] : i \in DOMAIN RequestHead}
Units == HeadUnits \cup PayloadUnits

RequestKinds == [kind : {"bad", "connect", "http"}, obfuscate : BOOLEAN,
                 dialable : BOOLEAN]

ASSUME ProxyAssumption ==
  /\ NumAddrs \in Nat \ {0}
  /\ SecureAddrs \subseteq Addrs
  /\ Requests \subseteq RequestKinds
  /\ RequestHead \in Seq(HeadUnits) /\ RequestHead # << >>
  /\ HeadUnits \cap PayloadUnits = {}
  /\ InactivityOn \in BOOLEAN /\ Stalls \in BOOLEAN
  /\ MaxUp \in Nat

VARIABLES
  server,    \* state of the listening server of each address
  servers,   \* this.servers
  starting,  \* progress of start(): the address awaited, and how it stands
  stopAt,    \* progress of stop(): 0 not called, i awaits server i, NumAddrs+1 done
  client,    \* state of each connection's client socket
  upstream,  \* state of each connection's upstream socket
  sockets,   \* this.sockets
  doomed,    \* upstream sockets with a "connect" listener that destroys them
  phase,     \* which "data" listener the client socket has
  from,      \* the address a connection was accepted at
  late,      \* history: connections the listener took after stop() was called
  request,   \* what the client asks for
  rest,      \* units of the client's stream not yet delivered to the proxy
  toUp,      \* units written to the upstream socket, with the form they took
  unread,    \* units the upstream sent that the proxy has not read
  sentUp,    \* how many units the upstream sent in all (bounded by MaxUp)
  toClient   \* what was written to the client socket

serverVars == <<server, servers, starting>>
dataVars   == <<request, rest, toUp, unread, sentUp, toClient>>
vars == <<server, servers, starting, stopAt, client, upstream, sockets, doomed,
          phase, from, late, dataVars>>

ClientOf(c)   == <<c, "client">>
UpstreamOf(c) == <<c, "upstream">>
Sockets == Conns \X {"client", "upstream"}

None == "none"

NoRequest == [kind |-> None, obfuscate |-> FALSE, dialable |-> FALSE]

(***************************************************************************)
(* Socket states.  "stalled" is a socket whose connecting flag is set with *)
(* no attempt running any more; "discarded" is one destroyed before it had *)
(* a handle, whose close event comes on the next tick.                     *)
(***************************************************************************)
ClientStates   == {None, "handshake", "open", "destroyed", "closed"}
UpstreamStates == {None, "idle", "connecting", "stalled", "open",
                   "discarded", "destroyed", "closed"}
Connecting     == {"connecting", "stalled"}
UpstreamAlive  == {"idle", "open"} \cup Connecting
Phases         == {None, "first", "hello", "piped", "refused"}
ServerStates   == {None, "binding", "listening", "failed", "closing", "closed"}

\* A unit written to the upstream, and the form the proxy gave it.
Written == [unit : Units, form : {"raw", "rewritten", "fragmented"}]

Payload(r) == IF r.kind = "connect" THEN <<"hello", "app">> ELSE <<"body">>
Stream(r)  == RequestHead \o Payload(r)

ControlTypeOK ==
  /\ server \in [Addrs -> ServerStates]
  /\ servers \subseteq Addrs
  /\ starting \in [at : Addrs, status : {"next", "wait", "started", "failed"}]
  /\ stopAt \in 0 .. NumAddrs + 1
  /\ client \in [Conns -> ClientStates]
  /\ upstream \in [Conns -> UpstreamStates]
  /\ sockets \subseteq Sockets
  /\ doomed \subseteq Conns
  /\ phase \in [Conns -> Phases]
  /\ from \in [Conns -> Addrs \cup {0}]
  /\ late \subseteq Conns

DataTypeOK ==
  /\ request \in [Conns -> Requests \cup {NoRequest}]
  /\ rest \in [Conns -> Seq(Units)]
  /\ toUp \in [Conns -> Seq(Written)]
  /\ unread \in [Conns -> Nat]
  /\ sentUp \in [Conns -> 0 .. MaxUp]
  /\ toClient \in [Conns -> Seq({"200", "data"})]

\* Every variable keeps its type: the one type invariant of the module.
TypeOK == ControlTypeOK /\ DataTypeOK

Init ==
  /\ server = [i \in Addrs |-> None]
  /\ servers = {}
  /\ starting = [at |-> 1, status |-> "next"]
  /\ stopAt = 0
  /\ client = [c \in Conns |-> None]
  /\ upstream = [c \in Conns |-> None]
  /\ sockets = {}
  /\ doomed = {}
  /\ phase = [c \in Conns |-> None]
  /\ from = [c \in Conns |-> 0]
  /\ late = {}
  /\ request = [c \in Conns |-> NoRequest]
  /\ rest = [c \in Conns |-> << >>]
  /\ toUp = [c \in Conns |-> << >>]
  /\ unread = [c \in Conns |-> 0]
  /\ sentUp = [c \in Conns |-> 0]
  /\ toClient = [c \in Conns |-> << >>]

-----------------------------------------------------------------------------
(***************************************************************************)
(* #socketDestroy.  A socket already destroyed is left alone; one that is  *)
(* connecting is not destroyed but gets a "connect" listener that will.    *)
(***************************************************************************)
ClientAfterDestroy(s) == IF s = "open" THEN "destroyed" ELSE s

\* Mutant: a connecting socket is destroyed at once.
UpstreamAfterDestroyAtOnce(s) ==
  CASE s = "idle"                      -> "discarded"
    [] s \in {"open"} \cup Connecting  -> "destroyed"
    [] OTHER                           -> s

UpstreamAfterDestroy(s) ==
  CASE s = "idle" -> "discarded"
    [] s = "open" -> "destroyed"
    [] OTHER      -> s

DestroyClient(c) ==
  client' = [client EXCEPT ![c] = ClientAfterDestroy(@)]

\* Mutant: a connecting socket is left alone for good.
DestroyUpstreamForgetsListener(c) ==
  /\ upstream' = [upstream EXCEPT ![c] = UpstreamAfterDestroy(@)]
  /\ UNCHANGED doomed

DestroyUpstream(c) ==
  /\ upstream' = [upstream EXCEPT ![c] = UpstreamAfterDestroy(@)]
  /\ doomed' = IF upstream[c] \in Connecting THEN doomed \cup {c} ELSE doomed

(***************************************************************************)
(* start(): the addresses one after the other, each awaited.               *)
(***************************************************************************)
StartServer ==
  /\ starting.status = "next"
  /\ server' = [server EXCEPT ![starting.at] = "binding"]
  /\ servers' = servers \cup {starting.at}
  /\ starting' = [starting EXCEPT !.status = "wait"]
  /\ UNCHANGED <<stopAt, client, upstream, sockets, doomed, phase, from, late, dataVars>>

\* tls.createServer throws on a malformed key or certificate.
CreateThrows ==
  /\ starting.status = "next"
  /\ starting.at \in SecureAddrs
  /\ starting' = [starting EXCEPT !.status = "failed"]
  /\ UNCHANGED <<server, servers, stopAt, client, upstream, sockets, doomed, phase,
                 from, late, dataVars>>

\* Mutant: the loop does not end at the last address.
ListenOkNoEnd ==
  /\ starting.status = "wait"
  /\ server' = [server EXCEPT ![starting.at] = "listening"]
  /\ starting' = [at |-> starting.at + 1, status |-> "next"]
  /\ UNCHANGED <<servers, stopAt, client, upstream, sockets, doomed, phase, from, late,
                 dataVars>>

ListenOk ==
  /\ starting.status = "wait"
  /\ server' = [server EXCEPT ![starting.at] = "listening"]
  /\ starting' = IF starting.at = NumAddrs
                 THEN [starting EXCEPT !.status = "started"]
                 ELSE [at |-> starting.at + 1, status |-> "next"]
  /\ UNCHANGED <<servers, stopAt, client, upstream, sockets, doomed, phase, from, late,
                 dataVars>>

ListenFail ==
  /\ starting.status = "wait"
  /\ server' = [server EXCEPT ![starting.at] = "failed"]
  /\ starting' = [starting EXCEPT !.status = "failed"]
  /\ UNCHANGED <<servers, stopAt, client, upstream, sockets, doomed, phase, from, late,
                 dataVars>>

(***************************************************************************)
(* #connectionListener.  A plain server calls it when a client connects; a *)
(* TLS server once the handshake is over, and "tlsClientError" if it fails.*)
(***************************************************************************)
Listener(c) ==
  /\ client' = [client EXCEPT ![c] = "open"]
  /\ upstream' = [upstream EXCEPT ![c] = "idle"]
  /\ sockets' = sockets \cup {ClientOf(c), UpstreamOf(c)}
  /\ phase' = [phase EXCEPT ![c] = "first"]
  /\ late' = IF stopAt > 0 THEN late \cup {c} ELSE late
  /\ UNCHANGED doomed

\* A client connects; r is what it is going to ask for.
Arrive(c, i, r) ==
  /\ server[i] = "listening"
  /\ client[c] = None
  /\ from' = [from EXCEPT ![c] = i]
  /\ request' = [request EXCEPT ![c] = r]
  /\ rest' = [rest EXCEPT ![c] = Stream(r)]
  /\ UNCHANGED <<toUp, unread, sentUp, toClient>>

Accept(c, i, r) ==
  /\ i \notin SecureAddrs
  /\ Arrive(c, i, r)
  /\ Listener(c)
  /\ UNCHANGED <<serverVars, stopAt>>

TlsHello(c, i, r) ==
  /\ i \in SecureAddrs
  /\ Arrive(c, i, r)
  /\ client' = [client EXCEPT ![c] = "handshake"]
  /\ UNCHANGED <<serverVars, stopAt, upstream, sockets, doomed, phase, late>>

TlsSecure(c) ==
  /\ client[c] = "handshake"
  /\ Listener(c)
  /\ UNCHANGED <<serverVars, stopAt, from, dataVars>>

\* The socket is destroyed before any listener of ours was attached to it.
TlsClientError(c) ==
  /\ client[c] = "handshake"
  /\ client' = [client EXCEPT ![c] = "closed"]
  /\ UNCHANGED <<serverVars, stopAt, upstream, sockets, doomed, phase, from, late, dataVars>>

-----------------------------------------------------------------------------
(***************************************************************************)
(* What one "data" event may deliver: any prefix of what the client sent.  *)
(* A CONNECT client sends its payload only once it was told to go on.      *)
(***************************************************************************)
Sent(c) ==
  IF request[c].kind = "connect" /\ toClient[c] = << >>
  THEN Len(rest[c]) - Len(Payload(request[c]))
  ELSE Len(rest[c])

Form(units, f) == [i \in 1 .. Len(units) |-> [unit |-> units[i], form |-> f]]

\* A write reaches the upstream, now or once it connects, unless it is destroyed.
WriteUpstream(c, forms) ==
  toUp' = [toUp EXCEPT ![c] = IF upstream[c] \in UpstreamAlive THEN @ \o forms ELSE @]

(***************************************************************************)
(* The first "data" event of a client (lines 181-366).                     *)
(***************************************************************************)
Refuse(c, n) ==
  /\ request[c].kind = "bad"
  /\ DestroyClient(c)
  /\ phase' = [phase EXCEPT ![c] = "refused"]
  /\ UNCHANGED <<upstream, toUp, toClient>>

\* connect() throws on a port out of range, after it set the connecting flag.
ConnectThrows(c, n) ==
  /\ request[c].kind # "bad" /\ ~request[c].dialable
  /\ upstream' = [upstream EXCEPT ![c] = "stalled"]
  /\ DestroyClient(c)
  /\ phase' = [phase EXCEPT ![c] = "refused"]
  /\ UNCHANGED <<toUp, toClient>>

\* Mutant: the test of mustObfuscate is inverted.
OpenTunnelInverted(c, n) ==
  /\ request[c].kind = "connect" /\ request[c].dialable
  /\ upstream' = [upstream EXCEPT ![c] = "connecting"]
  /\ phase' = [phase EXCEPT ![c] = IF request[c].obfuscate THEN "piped" ELSE "hello"]
  /\ toClient' = [toClient EXCEPT ![c] = Append(@, "200")]
  /\ UNCHANGED <<client, toUp>>

\* The request head itself is not forwarded, nor what came along with it.
OpenTunnel(c, n) ==
  /\ request[c].kind = "connect" /\ request[c].dialable
  /\ upstream' = [upstream EXCEPT ![c] = "connecting"]
  /\ phase' = [phase EXCEPT ![c] = IF request[c].obfuscate THEN "hello" ELSE "piped"]
  /\ toClient' = [toClient EXCEPT ![c] = Append(@, "200")]
  /\ UNCHANGED <<client, toUp>>

\* Only the lines of the head that this chunk holds are rewritten.
ForwardRequest(c, n) ==
  /\ request[c].kind = "http" /\ request[c].dialable
  /\ upstream' = [upstream EXCEPT ![c] = "connecting"]
  /\ phase' = [phase EXCEPT ![c] = "piped"]
  /\ LET chunk == SubSeq(rest[c], 1, n)
         lines == IF request[c].obfuscate
                  THEN IF n < Len(RequestHead) THEN n ELSE Len(RequestHead)
                  ELSE 0
     IN  toUp' = [toUp EXCEPT ![c] = Form(SubSeq(chunk, 1, lines), "rewritten")
                                       \o Form(SubSeq(chunk, lines + 1, n), "raw")]
  /\ UNCHANGED <<client, toClient>>

FirstData(c) ==
  /\ phase[c] = "first" /\ client[c] = "open"
  /\ \E n \in 1 .. Sent(c) :
       /\ \/ Refuse(c, n)
          \/ ConnectThrows(c, n)
          \/ OpenTunnel(c, n)
          \/ ForwardRequest(c, n)
       /\ rest' = [rest EXCEPT ![c] = SubSeq(@, n + 1, Len(@))]
  /\ UNCHANGED <<serverVars, stopAt, sockets, doomed, from, late, request, unread, sentUp>>

\* Mutant: the loop over the fragments stops before the last one.
HelloDataLosesTail(c) ==
  /\ phase[c] = "hello" /\ client[c] = "open"
  /\ \E n \in 1 .. Sent(c) :
       /\ WriteUpstream(c, Form(SubSeq(rest[c], 1, n - 1), "fragmented"))
       /\ rest' = [rest EXCEPT ![c] = SubSeq(@, n + 1, Len(@))]
  /\ phase' = [phase EXCEPT ![c] = "piped"]
  /\ UNCHANGED <<serverVars, stopAt, client, upstream, sockets, doomed, from, late,
                 request, unread, sentUp, toClient>>

(***************************************************************************)
(* The second "data" event of an obfuscated tunnel: the pipes are set up   *)
(* and the chunk is fragmented when it starts with a handshake record.     *)
(***************************************************************************)
HelloData(c) ==
  /\ phase[c] = "hello" /\ client[c] = "open"
  /\ \E n \in 1 .. Sent(c) :
       LET chunk == SubSeq(rest[c], 1, n)
           isHandshake == chunk[1] = "hello"
       IN  /\ WriteUpstream(c, Form(chunk, IF isHandshake THEN "fragmented" ELSE "raw"))
           /\ rest' = [rest EXCEPT ![c] = SubSeq(@, n + 1, Len(@))]
  /\ phase' = [phase EXCEPT ![c] = "piped"]
  /\ UNCHANGED <<serverVars, stopAt, client, upstream, sockets, doomed, from, late,
                 request, unread, sentUp, toClient>>

\* upstreamSocket.pipe(clientSocket).pipe(upstreamSocket), client side.
RelayUp(c) ==
  /\ phase[c] = "piped" /\ client[c] = "open"
  /\ \E n \in 1 .. Sent(c) :
       /\ WriteUpstream(c, Form(SubSeq(rest[c], 1, n), "raw"))
       /\ rest' = [rest EXCEPT ![c] = SubSeq(@, n + 1, Len(@))]
  /\ UNCHANGED <<serverVars, stopAt, client, upstream, sockets, doomed, phase, from, late,
                 request, unread, sentUp, toClient>>

\* The same pipe, upstream side: nothing is read before it exists.
RelayDown(c) ==
  /\ phase[c] = "piped" /\ client[c] = "open"
  /\ upstream[c] = "open" /\ unread[c] > 0
  /\ unread' = [unread EXCEPT ![c] = @ - 1]
  /\ toClient' = [toClient EXCEPT ![c] = Append(@, "data")]
  /\ UNCHANGED <<serverVars, stopAt, client, upstream, sockets, doomed, phase, from, late,
                 request, rest, toUp, sentUp>>

-----------------------------------------------------------------------------
(***************************************************************************)
(* The environment of the proxy: the resolver and the network.             *)
(***************************************************************************)
UpstreamSends(c) ==
  /\ upstream[c] = "open" /\ sentUp[c] < MaxUp
  /\ unread' = [unread EXCEPT ![c] = @ + 1]
  /\ sentUp' = [sentUp EXCEPT ![c] = @ + 1]
  /\ UNCHANGED <<serverVars, stopAt, client, upstream, sockets, doomed, phase, from, late,
                 request, rest, toUp, toClient>>

\* "connect": the listener that #socketDestroy left, if any, runs at once.
ConnectOk(c) ==
  /\ upstream[c] = "connecting"
  /\ upstream' = [upstream EXCEPT ![c] = IF c \in doomed THEN "destroyed" ELSE "open"]
  /\ UNCHANGED <<serverVars, stopAt, client, sockets, doomed, phase, from, late, dataVars>>

\* No address, lookup error, connection refused: node destroys the socket.
ConnectFail(c) ==
  /\ upstream[c] = "connecting"
  /\ upstream' = [upstream EXCEPT ![c] = "destroyed"]
  /\ UNCHANGED <<serverVars, stopAt, client, sockets, doomed, phase, from, late, dataVars>>

LookupStalls(c) ==
  /\ Stalls
  /\ upstream[c] = "connecting"
  /\ upstream' = [upstream EXCEPT ![c] = "stalled"]
  /\ UNCHANGED <<serverVars, stopAt, client, sockets, doomed, phase, from, late, dataVars>>

\* The peer closes or resets an established socket, or it fails.
ClientGone(c) ==
  /\ client[c] = "open"
  /\ client' = [client EXCEPT ![c] = "destroyed"]
  /\ UNCHANGED <<serverVars, stopAt, upstream, sockets, doomed, phase, from, late, dataVars>>

UpstreamGone(c) ==
  /\ upstream[c] = "open"
  /\ upstream' = [upstream EXCEPT ![c] = "destroyed"]
  /\ UNCHANGED <<serverVars, stopAt, client, sockets, doomed, phase, from, late, dataVars>>

-----------------------------------------------------------------------------
(***************************************************************************)
(* "timeout" and "close" run the same handler: forget the socket, destroy  *)
(* the related one.  A timeout does not destroy the socket it is about.    *)
(***************************************************************************)
\* Mutant: the pair is forgotten, the related socket is not destroyed.
ClientTimeoutForgetsPair(c) ==
  /\ InactivityOn
  /\ client[c] = "open"
  /\ sockets' = sockets \ {ClientOf(c), UpstreamOf(c)}
  /\ UNCHANGED <<serverVars, stopAt, client, upstream, doomed, phase, from, late, dataVars>>

ClientTimeout(c) ==
  /\ InactivityOn
  /\ client[c] = "open"
  /\ sockets' = sockets \ {ClientOf(c)}
  /\ DestroyUpstream(c)
  /\ UNCHANGED <<serverVars, stopAt, client, phase, from, late, dataVars>>

\* Mutant: a timeout destroys the related socket but forgets nothing.
UpstreamTimeoutKeeps(c) ==
  /\ InactivityOn
  /\ upstream[c] \in UpstreamAlive
  /\ DestroyClient(c)
  /\ UNCHANGED <<serverVars, stopAt, upstream, sockets, doomed, phase, from, late, dataVars>>

UpstreamTimeout(c) ==
  /\ InactivityOn
  /\ upstream[c] \in UpstreamAlive
  /\ sockets' = sockets \ {UpstreamOf(c)}
  /\ DestroyClient(c)
  /\ UNCHANGED <<serverVars, stopAt, upstream, doomed, phase, from, late, dataVars>>

ClientClose(c) ==
  /\ client[c] = "destroyed"
  /\ client' = [client EXCEPT ![c] = "closed"]
  /\ sockets' = sockets \ {ClientOf(c)}
  /\ DestroyUpstream(c)
  /\ UNCHANGED <<serverVars, stopAt, phase, from, late, dataVars>>

\* Mutant: a closed upstream leaves its client alone.
UpstreamCloseAlone(c) ==
  /\ upstream[c] \in {"destroyed", "discarded"}
  /\ upstream' = [upstream EXCEPT ![c] = "closed"]
  /\ sockets' = sockets \ {UpstreamOf(c)}
  /\ UNCHANGED <<serverVars, stopAt, client, doomed, phase, from, late, dataVars>>

UpstreamClose(c) ==
  /\ upstream[c] \in {"destroyed", "discarded"}
  /\ upstream' = [upstream EXCEPT ![c] = "closed"]
  /\ sockets' = sockets \ {UpstreamOf(c)}
  /\ DestroyClient(c)
  /\ UNCHANGED <<serverVars, stopAt, doomed, phase, from, late, dataVars>>

(***************************************************************************)
(* stop(): destroy every tracked socket and, in the same turn, close the   *)
(* first server; then wait for each server in turn.                        *)
(***************************************************************************)
CloseNextServer ==
  LET left == {i \in servers : i > stopAt /\ server[i] = "listening"}
  IN  IF left = {}
      THEN /\ stopAt' = NumAddrs + 1
           /\ UNCHANGED server
      ELSE \E i \in left :
             /\ \A j \in left : i <= j
             /\ stopAt' = i
             /\ server' = [server EXCEPT ![i] = "closing"]

\* Mutant: stop() closes the servers without destroying the sockets.
StopBeginKeepsSockets ==
  /\ stopAt = 0
  /\ starting.status \in {"started", "failed"}
  /\ CloseNextServer
  /\ UNCHANGED <<servers, starting, client, upstream, doomed, sockets, phase, from, late,
                 dataVars>>

StopBegin ==
  /\ stopAt = 0
  /\ starting.status \in {"started", "failed"}
  /\ client' = [c \in Conns |-> IF ClientOf(c) \in sockets
                                THEN ClientAfterDestroy(client[c]) ELSE client[c]]
  /\ upstream' = [c \in Conns |-> IF UpstreamOf(c) \in sockets
                                  THEN UpstreamAfterDestroy(upstream[c]) ELSE upstream[c]]
  /\ doomed' = doomed \cup {c \in Conns : UpstreamOf(c) \in sockets
                                            /\ upstream[c] \in Connecting}
  /\ CloseNextServer
  /\ UNCHANGED <<servers, starting, sockets, phase, from, late, dataVars>>

\* Mutant: the close of a server is not awaited.
StopResumeEarly ==
  /\ stopAt \in Addrs
  /\ CloseNextServer
  /\ UNCHANGED <<servers, starting, client, upstream, sockets, doomed, phase, from, late,
                 dataVars>>

StopResume ==
  /\ stopAt \in Addrs
  /\ server[stopAt] = "closed"
  /\ CloseNextServer
  /\ UNCHANGED <<servers, starting, client, upstream, sockets, doomed, phase, from, late,
                 dataVars>>

\* A server is closed once every connection it accepted is destroyed.
ServerClose(i) ==
  /\ server[i] = "closing"
  /\ \A c \in Conns : from[c] = i => client[c] \in {"destroyed", "closed"}
  /\ server' = [server EXCEPT ![i] = "closed"]
  /\ servers' = servers \ {i}
  /\ UNCHANGED <<starting, stopAt, client, upstream, sockets, doomed, phase, from, late,
                 dataVars>>

-----------------------------------------------------------------------------
(***************************************************************************)
(* Ticks run before any other event, so a discarded socket closes first.   *)
(***************************************************************************)
TickPending == \E c \in Conns : upstream[c] = "discarded"

Tick == \E c \in Conns : upstream[c] = "discarded" /\ UpstreamClose(c)

ServerEvent ==
  \/ StartServer \/ CreateThrows \/ ListenOk \/ ListenFail
  \/ StopBegin \/ StopResume
  \/ \E i \in Addrs : ServerClose(i)

Arrival ==
  \E c \in Conns, i \in Addrs, r \in Requests : Accept(c, i, r) \/ TlsHello(c, i, r)

\* How an attempt to connect ends: the only steps that are the resolver's as well.
AttemptEvent(c) == ConnectOk(c) \/ ConnectFail(c) \/ LookupStalls(c)

SocketEvent(c) ==
  \/ TlsSecure(c) \/ TlsClientError(c)
  \/ FirstData(c) \/ HelloData(c) \/ RelayUp(c) \/ RelayDown(c)
  \/ UpstreamSends(c)
  \/ ClientGone(c) \/ UpstreamGone(c)
  \/ ClientTimeout(c) \/ UpstreamTimeout(c)
  \/ ClientClose(c) \/ UpstreamClose(c)

Next ==
  IF TickPending THEN Tick
  ELSE ServerEvent \/ Arrival \/ \E c \in Conns : SocketEvent(c) \/ AttemptEvent(c)

(***************************************************************************)
(* Fairness.  The event loop runs every pending event; a server does bind  *)
(* or fail; a handshake ends (node bounds it); an attempt to connect ends  *)
(* unless its lookup stalls.  Inactivity timers are fair only for sockets  *)
(* that are silent: a client that has not sent what the proxy waits for,   *)
(* an upstream that is not even connected.  Nobody has to connect, send,   *)
(* close or call stop().                                                   *)
(***************************************************************************)
SilentClient(c)   == phase[c] \in {"first", "hello"}
SilentUpstream(c) == upstream[c] = "stalled"

Live(A) == ~TickPending /\ A

Fairness ==
  /\ WF_vars(Tick)
  /\ WF_vars(Live(StartServer \/ ListenOk \/ ListenFail))
  /\ WF_vars(Live(StopResume))
  /\ \A i \in Addrs : WF_vars(Live(ServerClose(i)))
  /\ \A c \in Conns :
       /\ WF_vars(Live(TlsSecure(c) \/ TlsClientError(c)))
       /\ WF_vars(Live(RelayDown(c)))
       /\ WF_vars(Live(ConnectOk(c) \/ ConnectFail(c)))
       /\ WF_vars(Live(SilentClient(c) /\ ClientTimeout(c)))
       /\ WF_vars(Live(SilentUpstream(c) /\ UpstreamTimeout(c)))
       /\ WF_vars(Live(ClientClose(c)))
       /\ WF_vars(Live(UpstreamClose(c)))

Spec == Init /\ [][Next]_vars

FairSpec == Spec /\ Fairness

-----------------------------------------------------------------------------
(***************************************************************************)
(* Properties.                                                             *)
(***************************************************************************)
\* The teardown of connection c has begun: one of its sockets is destroyed, or
\* will be as soon as the pending attempt to connect ends.
EndingUpstream(c) ==
  \/ upstream[c] \in {"discarded", "destroyed", "closed"}
  \/ upstream[c] \in Connecting /\ c \in doomed

Ending(c) == client[c] \in {"destroyed", "closed"} \/ EndingUpstream(c)

\* No half is orphaned: after one socket of a pair closed, the other one is
\* destroyed, or bound to be destroyed when its attempt to connect ends
\* (#socketCloseHandler with the connecting case of #socketDestroy).
PairTeardown ==
  \A c \in Conns :
    /\ client[c] = "closed" /\ upstream[c] # None => EndingUpstream(c)
    /\ upstream[c] = "closed" => client[c] \in {"destroyed", "closed"}

\* this.sockets holds no closed socket, and a live socket leaves it (a timeout
\* forgets a socket without destroying it) only when its pair is ending.
TrackingSound ==
  \A c \in Conns :
    /\ ClientOf(c) \in sockets => client[c] \in {"open", "destroyed"}
    /\ UpstreamOf(c) \in sockets => upstream[c] \in UpstreamAlive \cup {"destroyed", "discarded"}
    /\ client[c] = "open" /\ ClientOf(c) \notin sockets => EndingUpstream(c)
    /\ upstream[c] \in UpstreamAlive /\ UpstreamOf(c) \notin sockets
         => client[c] \in {"destroyed", "closed"}

\* stop() destroys only what this.sockets holds, yet it reaches every connection
\* the listener took before: each is ending, those a timeout forgot included.
StopReachesAll ==
  stopAt > 0 => \A c \in Conns \ late : upstream[c] # None => Ending(c)

\* When stop() returns no server listens and no accepted client is connected.
StopIsComplete ==
  stopAt = NumAddrs + 1 =>
    /\ \A i \in Addrs : server[i] \notin {"listening", "closing"}
    /\ \A c \in Conns : client[c] \in {None, "destroyed", "closed"}

\* connect() is only ever called on a fresh socket: node would revive a
\* destroyed one, which nothing would track or destroy any more.
NoRevival ==
  [][\A c \in Conns :
       upstream'[c] \in Connecting /\ upstream[c] \notin Connecting
         => upstream[c] = "idle"]_vars

\* The bytes of the client reach a live upstream once, in order, without a gap:
\* for plain HTTP from the first one, for a tunnel from the end of the first
\* chunk, which takes nothing but (part of) the request head away.
PayloadIntact ==
  \A c \in Conns :
    LET units == [i \in 1 .. Len(toUp[c]) |-> toUp[c][i].unit]
        all   == Stream(request[c])
        done  == Len(all) - Len(rest[c])
    IN  upstream[c] \in UpstreamAlive \ {"idle"} /\ phase[c] # "refused" =>
          \E skipped \in 0 .. Len(RequestHead) :
            /\ units = SubSeq(all, skipped + 1, done)
            /\ request[c].kind = "http" => skipped = 0

\* For an obfuscated host no TLS hello reaches the upstream unfragmented: the
\* chunk that the listener of line 263 takes for the hello must be the hello.
HelloFragmented ==
  \A c \in Conns : request[c].obfuscate =>
    \A i \in 1 .. Len(toUp[c]) :
      toUp[c][i].unit = "hello" => toUp[c][i].form = "fragmented"

\* Nor is any line of a request head forwarded as the client wrote it (line 307).
EvasionApplied ==
  /\ HelloFragmented
  /\ \A c \in Conns : request[c].obfuscate =>
       \A i \in 1 .. Len(toUp[c]) :
         toUp[c][i].unit \in HeadUnits => toUp[c][i].form = "rewritten"

\* Once its client has closed, an upstream socket closes too, through whatever
\* it was doing.  The exception is the socket whose connecting flag is set with
\* no attempt running, after connect() threw or because its lookup never
\* answers: its "connect" event never comes.
UpstreamFollowsClient ==
  \A c \in Conns :
    client[c] = "closed" /\ upstream[c] \notin {None, "stalled"} ~> upstream[c] \in {"closed", "stalled"}

\* Even if a lookup never answers, a connection whose client closed is forgotten:
\* the inactivity timer of the upstream socket does what its close never will.
ConnectionForgotten ==
  \A c \in Conns :
    client[c] = "closed" ~> {ClientOf(c), UpstreamOf(c)} \cap sockets = {}

\* stop() never hangs, unless a connection that the listener took after stop()
\* had destroyed the others stays open.
StopEnds ==
  <>[](stopAt \in Addrs) => <>[](\E c \in late : client[c] = "open")

\* What an upstream sent is relayed or its connection ends: a client waiting for
\* a server that speaks first, behind a tunnel that waits for the client's hello,
\* is at last released by the inactivity timer.
DownstreamReleased ==
  \A c \in Conns : unread[c] > 0 ~> unread[c] = 0 \/ upstream[c] # "open"
=============================================================================
