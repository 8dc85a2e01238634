------------------------------ MODULE Demergi ------------------------------
(***************************************************************************)
(* The proxy with its resolver (src/src/proxy.js, lines 220 to 250):       *)
(* connect() looks its host up with resolve(), whose promise calls back    *)
(* with an address or an error.  Proxy and Resolver are taken as they are; *)
(* what is left to either's environment, when a lookup ends and who asks   *)
(* for one, the other decides here.                                        *)
(***************************************************************************)
EXTENDS Integers, Sequences, FiniteSets

CONSTANTS
  \* of Proxy
  Conns, NumAddrs, SecureAddrs, Requests, RequestHead, InactivityOn, Stalls, MaxUp,
  \* of Resolver; a connection to a DNS server is called a link here
  Hosts, Addresses, Override, Links, NoLink, Null, Missing, Configs, MaxRetries, Quiet

VARIABLES
  \* of Proxy
  server, servers, starting, stopAt, client, upstream, sockets, doomed, phase, from,
  late, request, rest, toUp, unread, sentUp, toClient,
  \* of Resolver
  config, call, look, cache, link, session

P == INSTANCE Proxy
R == INSTANCE Resolver WITH Calls <- Conns, Conns <- Links, NoConn <- NoLink,
                            conn <- link, client <- session

proxyVars == <<server, servers, starting, stopAt, client, upstream, sockets, doomed, phase,
               from, late, request, rest, toUp, unread, sentUp, toClient>>
resolverVars == <<config, call, look, cache, link, session>>
vars == <<proxyVars, resolverVars>>

Init == P!Init /\ R!Init

-----------------------------------------------------------------------------
\* Without a call to resolve() the host is an address already.
Resolved(c) == call[c].state \in {"idle", "resolved"}

\* A call that is never settled: the lookups that are not through are mute.
Hung(c) ==
  /\ call[c].state = "running"
  /\ \A f \in R!Families : look[<<c, f>>].stage \in {"found", "mute"}

\* connect(): the lookup is started in the same turn.
Dial(c) ==
  /\ ~P!TickPending
  /\ P!FirstData(c)
  /\ upstream[c] = "idle" /\ upstream'[c] = "connecting"
  /\ UNCHANGED resolverVars \/ \E h \in Hosts : R!Resolve(c, h)

\* The callback of the lookup: with an address the attempt to connect goes on, with an
\* error it has failed.
AttemptEnds(c) ==
  /\ ~P!TickPending
  /\ \/ Resolved(c) /\ P!ConnectOk(c)
     \/ (Resolved(c) \/ call[c].state = "rejected") /\ P!ConnectFail(c)
  /\ UNCHANGED resolverVars

\* Without a callback the attempt has stalled.
AttemptStalls(c) ==
  /\ ~P!TickPending
  /\ Hung(c) /\ P!LookupStalls(c)
  /\ UNCHANGED resolverVars

\* Everything else that happens to servers and sockets (timeouts, closes, data, stop())
\* happens whatever the resolver is doing; it dials nowhere.
ProxyStep(A) ==
  /\ A
  /\ ~\E c \in Conns : upstream[c] = "idle" /\ upstream'[c] = "connecting"
  /\ UNCHANGED resolverVars

ProxyEvent ==
  IF P!TickPending THEN P!Tick
  ELSE P!ServerEvent \/ P!Arrival \/ \E c \in Conns : P!SocketEvent(c)

ResolverStep(A) ==
  /\ ~P!TickPending
  /\ A
  /\ UNCHANGED proxyVars

ResolverEvent ==
  \/ \E h \in Hosts, f \in R!Families : R!Forget(h, f)
  \/ \E l \in R!Lookups : R!Event(l)
  \/ \E k \in Links : R!Secure(k) \/ R!Break(k) \/ R!GoAway(k) \/ R!Closed(k) \/ R!Drop(k)

Next ==
  \/ \E c \in Conns : Dial(c) \/ AttemptEnds(c) \/ AttemptStalls(c)
  \/ ProxyStep(ProxyEvent)
  \/ ResolverStep(ResolverEvent)

Spec == Init /\ [][Next]_vars

(***************************************************************************)
(* Fairness: that of the parts, but for what Proxy asks of lookups.  An    *)
(* attempt to connect ends once its lookup has called back.                *)
(***************************************************************************)
Fairness ==
  /\ WF_vars(ProxyStep(P!Tick))
  /\ \A c \in Conns :
       /\ WF_vars(AttemptEnds(c)) /\ WF_vars(AttemptStalls(c))
       /\ WF_vars(ProxyStep(P!Live(P!ClientClose(c))))
       /\ WF_vars(ProxyStep(P!Live(P!UpstreamClose(c))))
       /\ WF_vars(ProxyStep(P!Live(P!SilentUpstream(c) /\ P!UpstreamTimeout(c))))
  /\ \A l \in R!Lookups :
       /\ WF_vars(ResolverStep(R!PlainAnswer(l)))
       /\ WF_vars(ResolverStep(R!DohError(l) \/ R!DotError(l)))
       /\ WF_vars(ResolverStep(R!Retry(l)))
  /\ \A k \in Links : WF_vars(ResolverStep(R!Closed(k)))

FairSpec == Spec /\ Fairness

-----------------------------------------------------------------------------
(***************************************************************************)
(* Properties.                                                             *)
(***************************************************************************)
\* While a lookup may still call back, the socket it is for is in the state connect() left
\* it in, also when its client, a timeout or stop() has ended the connection (lines 232 and
\* 371): nobody but the callback takes it out of there.
LookupFindsSocket ==
  \A c \in Conns : call[c].state = "running" =>
    upstream[c] = "connecting" \/ (upstream[c] = "stalled" /\ Hung(c))

\* Every call is settled, or waits for one whose connection ended quietly: questions that
\* are refused are not asked for ever, and a rejected one takes its call with it.
CallSettles ==
  \A c \in Conns : call[c].state = "running" ~> call[c].state # "running" \/ Hung(c)

\* Proxy assumes that an attempt to connect ends unless its lookup stalls: with this
\* resolver it does.
AttemptsEnd ==
  \A c \in Conns : WF_proxyVars(P!Live(P!ConnectOk(c) \/ P!ConnectFail(c)))
=============================================================================
