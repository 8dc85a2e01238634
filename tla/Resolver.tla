------------------------------ MODULE Resolver ------------------------------
(***************************************************************************)
(* DemergiResolver (src/src/resolver.js): each resolve(hostname) looks up  *)
(* its IPv6 and IPv4 address side by side, from the cache or by asking a   *)
(* server: through the system (plain), over one HTTP/2 session that the    *)
(* questions share (DoH), or over a TLS connection of its own (DoT).       *)
(*                                                                         *)
(* A step is one event callback with the promise reactions it causes: Node *)
(* runs those before the next event.  The bytes of questions and answers   *)
(* are abstracted to the address they decode to, or to a failure.          *)
(***************************************************************************)
EXTENDS Integers, FiniteSets, Functions

CONSTANTS
  Calls,       \* the invocations of resolve() that may be under way at a time
  Hosts,
  Addresses,
  Override,    \* dnsIpOverrides, as a function from addresses to addresses
  Conns,       \* the DoH sessions or DoT sockets that may exist at a time
  NoConn,      \* undefined
  Null,        \* the address of a name that has none
  Missing,     \* nothing cached
  Configs,     \* the options of the constructor: mode, persistent, pinned
  MaxRetries,  \* how often a refused question is asked again: 5 in the code
  Quiet        \* whether a connection or a request may end without an error event

Families == {6, 4}
Lookups  == Calls \X Families
Modes    == {"plain", "doh", "dot"}
Options  == [mode : Modes \cup {"unknown"}, persistent : BOOLEAN, pinned : BOOLEAN]
Peers    == {"pinned", "other"}   \* whose key the server of a connection has

ASSUME ResolverAssumption ==
  /\ Override \in [Addresses -> Addresses]
  /\ Configs \subseteq Options
  /\ MaxRetries \in Nat /\ Quiet \in BOOLEAN
  /\ NoConn \notin Conns /\ Null \notin Addresses /\ Missing \notin Addresses \cup {Null}

VARIABLES
  config,  \* the options
  call,    \* each invocation: its hostname, and whether its promise is settled
  look,    \* each family's lookup: how far it is, the connection it uses, retries, address
  cache,   \* dnsCache
  conn,    \* the connections
  client   \* #dohClient

vars == <<config, call, look, cache, conn, client>>

Stages == {"idle", "asking", "backoff", "mute", "found", "failed"}

TypeOK ==
  /\ config \in Configs
  /\ call \in [Calls -> [state : {"idle", "running", "resolved", "rejected"}, host : Hosts]]
  /\ look \in [Lookups -> [stage : Stages, via : Conns \cup {NoConn},
                           retry : 0 .. MaxRetries, address : Addresses \cup {Null}]]
  /\ cache \in [Hosts \X Families -> Addresses \cup {Null, Missing}]
  /\ conn \in [Conns -> [state : {"gone", "connecting", "secure", "closing"},
                         peer : Peers \cup {"unknown"}]]
  /\ client \in Conns \cup {NoConn}

Idle == [stage |-> "idle", via |-> NoConn, retry |-> 0, address |-> Null]
Failed   == [Idle EXCEPT !.stage = "failed"]
Mute     == [Idle EXCEPT !.stage = "mute"]
Found(a) == [Idle EXCEPT !.stage = "found", !.address = a]
Asked(k) == [Idle EXCEPT !.stage = "asking", !.via = k]

Gone    == [state |-> "gone", peer |-> "unknown"]
Dialled == [state |-> "connecting", peer |-> "unknown"]

Init ==
  /\ config \in Configs
  /\ call \in [Calls -> [state : {"idle"}, host : Hosts]]
  /\ look = [l \in Lookups |-> Idle]
  /\ cache = [e \in Hosts \X Families |-> Missing]
  /\ conn = [k \in Conns |-> Gone]
  /\ client = NoConn

-----------------------------------------------------------------------------
(***************************************************************************)
(* Asking: #resolve, and the choice of a connection.                       *)
(***************************************************************************)
UsesDoh  == config.mode = "doh"
UsesDot  == config.mode = "dot"
Connects == UsesDoh \/ UsesDot
Shared   == UsesDoh /\ config.persistent

Asking(l)   == look[l].stage = "asking"
InFlight(l) == look[l].stage \in {"asking", "backoff"}
Users(k)    == {l \in Lookups : Asking(l) /\ look[l].via = k}

\* What a new connection may be called: one no object in the program stands for.
Free == {k \in Conns : conn[k] = Gone /\ Users(k) = {} /\ k # client}

\* Mutant: a session that is closing is taken for a usable one.
ReusableClosing == client \in Conns /\ conn[client].state # "gone"

\* Neither destroyed nor closed.
Reusable == client \in Conns /\ conn[client].state \in {"connecting", "secure"}

\* The connections on which the questions of lookups ls are asked, in one go.
Routes(ls) ==
  IF ls = {} \/ ~Connects THEN [ls -> {NoConn}]
  ELSE IF ~Shared THEN Injection(ls, Free)
  ELSE IF Reusable THEN [ls -> {client}]
  ELSE {[l \in ls |-> k] : k \in Free}

\* Mutant: the new session is not kept for the next question.
OpenForgotten(route) ==
  /\ conn' = [k \in Conns |->
                IF k \in Range(route) /\ conn[k] = Gone THEN Dialled ELSE conn[k]]
  /\ UNCHANGED client

Open(route) ==
  /\ conn' = [k \in Conns |->
                IF k \in Range(route) /\ conn[k] = Gone THEN Dialled ELSE conn[k]]
  /\ client' \in IF Shared /\ Range(route) # {} THEN Range(route) ELSE {client}

-----------------------------------------------------------------------------
(***************************************************************************)
(* Settling: Promise.all over the two lookups of a call.                   *)
(***************************************************************************)
\* Mutant: addresses that are null are not filtered out.
VerdictUnfiltered(c, lookups) ==
  IF \E f \in Families : lookups[<<c, f>>].stage = "failed" THEN "rejected"
  ELSE IF \A f \in Families : lookups[<<c, f>>].stage = "found" THEN "resolved"
  ELSE "running"

Verdict(c, lookups) ==
  IF \E f \in Families : lookups[<<c, f>>].stage = "failed" THEN "rejected"
  ELSE IF \E f \in Families : lookups[<<c, f>>].stage # "found" THEN "running"
  ELSE IF \A f \in Families : lookups[<<c, f>>].address = Null THEN "rejected"
  ELSE "resolved"

\* A promise settles once: the call may have been rejected for the other family.
Settle(c) ==
  call' = [call EXCEPT ![c].state = IF @ = "running" THEN Verdict(c, look') ELSE @]

\* Mutant: the call is not told.
FailUnsettled(l) ==
  /\ look' = [look EXCEPT ![l] = Failed]
  /\ UNCHANGED <<call, cache>>

Fail(l) ==
  /\ look' = [look EXCEPT ![l] = Failed]
  /\ Settle(l[1])
  /\ UNCHANGED cache

Overridden(a) == IF a = Null THEN Null ELSE Override[a]

\* Mutant: the address is cached as it came.
AnsweredRaw(l, a) ==
  /\ look' = [look EXCEPT ![l] = Found(Overridden(a))]
  /\ cache' = [cache EXCEPT ![<<call[l[1]].host, l[2]>>] = a]
  /\ Settle(l[1])

\* The address is cached even when the call no longer waits for it.
Answered(l, a) ==
  /\ look' = [look EXCEPT ![l] = Found(Overridden(a))]
  /\ cache' = [cache EXCEPT ![<<call[l[1]].host, l[2]>>] = Overridden(a)]
  /\ Settle(l[1])

-----------------------------------------------------------------------------
(***************************************************************************)
(* The calls.                                                              *)
(***************************************************************************)
\* resolve(h): both families are started before anything is awaited.
Resolve(c, h) ==
  LET misses == {l \in {c} \X Families : cache[<<h, l[2]>>] = Missing}
  IN  /\ call[c].state # "running"
      /\ \A f \in Families : ~InFlight(<<c, f>>)
      /\ \E route \in Routes(misses) :
           /\ Open(route)
           /\ look' = [l \in Lookups |->
                IF l[1] # c THEN look[l]
                ELSE IF l \notin misses THEN Found(cache[<<h, l[2]>>])
                ELSE IF config.mode \in Modes THEN Asked(route[l]) ELSE Failed]
      /\ call' = [call EXCEPT ![c] = [host |-> h, state |-> Verdict(c, look')]]
      /\ UNCHANGED <<config, cache>>

\* The backoff is over: the question is asked again, over what is now the client.
Retry(l) ==
  /\ look[l].stage = "backoff"
  /\ \E route \in Routes({l}) :
       /\ Open(route)
       /\ look' = [look EXCEPT ![l].stage = "asking", ![l].via = route[l]]
  /\ UNCHANGED <<config, call, cache>>

\* An entry expires, or makes room for another (see Cache).
Forget(h, f) ==
  /\ cache[<<h, f>>] # Missing
  /\ cache' = [cache EXCEPT ![<<h, f>>] = Missing]
  /\ UNCHANGED <<config, call, look, conn, client>>

-----------------------------------------------------------------------------
(***************************************************************************)
(* Answers.                                                                *)
(***************************************************************************)
\* The callback of dns.resolve4 or dns.resolve6; an error is an answer too: none.
PlainAnswer(l) ==
  /\ config.mode = "plain" /\ Asking(l)
  /\ \E a \in Addresses \cup {Null} : Answered(l, a)
  /\ UNCHANGED <<config, conn, client>>

\* What the server of a lookup's connection has sent can reach the lookup.
Heard(l) == Asking(l) /\ conn[look[l].via].state \in {"secure", "closing"}

\* When a DoH request ends, a session of its own is closed; a DoT socket is
\* destroyed as soon as there is data.
Finish(l) ==
  /\ conn' = IF Shared THEN conn ELSE [conn EXCEPT ![look[l].via] = Gone]
  /\ UNCHANGED <<config, client>>

Answer(l) ==
  /\ Connects
  /\ Heard(l)
  /\ \E a \in Addresses \cup {Null} : Answered(l, a)
  /\ Finish(l)

\* An answer that does not decode, or whose length is wrong.
BadAnswer(l) ==
  /\ Connects
  /\ Heard(l)
  /\ Fail(l)
  /\ Finish(l)

\* An HTTP answer without a body: "end" neither resolves nor rejects.
EmptyAnswer(l) ==
  /\ Quiet /\ UsesDoh
  /\ Heard(l)
  /\ look' = [look EXCEPT ![l] = Mute]
  /\ Finish(l)
  /\ UNCHANGED <<call, cache>>

\* "error" of a DoH request: it timed out, its status was not 200, the server
\* reset it, or its session was destroyed.  The session is left as it is.
DohError(l) ==
  /\ UsesDoh /\ Asking(l)
  /\ Fail(l)
  /\ UNCHANGED <<config, conn, client>>

\* Mutant: there is no end to the retries.
RefusedForEver(l) ==
  /\ UsesDoh /\ Heard(l)
  /\ look' = [look EXCEPT ![l].stage = "backoff", ![l].via = NoConn]
  /\ UNCHANGED <<config, call, cache, conn, client>>

\* Mutant: one retry too many.
RefusedOnceMore(l) ==
  /\ UsesDoh /\ Heard(l)
  /\ \/ /\ look[l].retry <= MaxRetries
        /\ look' = [look EXCEPT ![l].stage = "backoff", ![l].via = NoConn, ![l].retry = @ + 1]
        /\ UNCHANGED <<call, cache>>
     \/ look[l].retry > MaxRetries /\ Fail(l)
  /\ UNCHANGED <<config, conn, client>>

\* "error" of a DoH request that the server refused (REFUSED_STREAM).
Refused(l) ==
  /\ UsesDoh /\ Heard(l)
  /\ \/ /\ look[l].retry < MaxRetries
        /\ look' = [look EXCEPT ![l].stage = "backoff", ![l].via = NoConn, ![l].retry = @ + 1]
        /\ UNCHANGED <<call, cache>>
     \/ look[l].retry >= MaxRetries /\ Fail(l)
  /\ UNCHANGED <<config, conn, client>>

\* Mutant: the socket is left open.
DotErrorLeaks(l) ==
  /\ UsesDot /\ Asking(l)
  /\ Fail(l)
  /\ UNCHANGED <<config, conn, client>>

\* "timeout" or "error" of a DoT socket.
DotError(l) ==
  /\ UsesDot /\ Asking(l)
  /\ Fail(l)
  /\ Finish(l)

-----------------------------------------------------------------------------
(***************************************************************************)
(* Connections.  When one breaks or is destroyed, the questions asked on   *)
(* it get their "error" later: between the two the program may ask others. *)
(***************************************************************************)
\* Mutant: the pin is not compared.
SecureUnchecked(k) ==
  /\ conn[k].state = "connecting"
  /\ \E p \in Peers : conn' = [conn EXCEPT ![k] = [state |-> "secure", peer |-> p]]
  /\ UNCHANGED <<config, call, look, cache, client>>

\* "secureConnect": the connection of a server with another key is destroyed.
Secure(k) ==
  /\ conn[k].state = "connecting"
  /\ \E p \in Peers :
       conn' = [conn EXCEPT ![k] = IF config.pinned /\ p # "pinned" THEN Gone
                                   ELSE [state |-> "secure", peer |-> p]]
  /\ UNCHANGED <<config, call, look, cache, client>>

\* "error" of a TLS socket.
Break(k) ==
  /\ conn[k].state # "gone"
  /\ conn' = [conn EXCEPT ![k] = Gone]
  /\ UNCHANGED <<config, call, look, cache, client>>

\* The server announces the end of a session, which stays up for what it was asked.
GoAway(k) ==
  /\ UsesDoh /\ conn[k].state = "secure"
  /\ conn' = [conn EXCEPT ![k].state = "closing"]
  /\ UNCHANGED <<config, call, look, cache, client>>

\* A session that is closing is destroyed when the last request on it is over.
Closed(k) ==
  /\ conn[k].state = "closing" /\ Users(k) = {}
  /\ conn' = [conn EXCEPT ![k] = Gone]
  /\ UNCHANGED <<config, call, look, cache, client>>

\* The server closes a connection in good order.  A DoH request on it is cancelled,
\* a DoT socket closes; neither is an error, nothing listens to "close".
Drop(k) ==
  /\ Quiet /\ conn[k].state \in {"secure", "closing"}
  /\ conn' = [conn EXCEPT ![k] = Gone]
  /\ look' = [l \in Lookups |-> IF l \in Users(k) THEN Mute ELSE look[l]]
  /\ UNCHANGED <<config, call, cache, client>>

Event(l) ==
  \/ PlainAnswer(l) \/ Answer(l) \/ BadAnswer(l) \/ EmptyAnswer(l)
  \/ DohError(l) \/ Refused(l) \/ DotError(l) \/ Retry(l)

Next ==
  \/ \E c \in Calls, h \in Hosts : Resolve(c, h)
  \/ \E h \in Hosts, f \in Families : Forget(h, f)
  \/ \E l \in Lookups : Event(l)
  \/ \E k \in Conns : Secure(k) \/ Break(k) \/ GoAway(k) \/ Closed(k) \/ Drop(k)

Spec == Init /\ [][Next]_vars

-----------------------------------------------------------------------------
(***************************************************************************)
(* Properties.                                                             *)
(***************************************************************************)
\* A call is settled exactly when its lookups say so: rejected as soon as one fails, or
\* when neither found an address; resolved when both are through and one found some.
CallsFollowLookups ==
  \A c \in Calls :
    /\ call[c].state = "resolved" =>
         /\ \A f \in Families : look[<<c, f>>].stage = "found"
         /\ \E f \in Families : look[<<c, f>>].address # Null
    /\ call[c].state = "running" =>
         /\ \A f \in Families : look[<<c, f>>].stage # "failed"
         /\ \E f \in Families : look[<<c, f>>].stage # "found"
    /\ call[c].state = "rejected" =>
         \/ \E f \in Families : look[<<c, f>>].stage = "failed"
         \/ \A f \in Families : look[<<c, f>>].stage = "found" /\ look[<<c, f>>].address = Null

\* The questions share one session: another is opened only when it is closed or gone,
\* so no session is left behind that a question could still use (line 145).
OnePersistentClient ==
  Shared => \A k \in Conns : conn[k].state \in {"connecting", "secure"} => k = client

\* Whether an address was just looked up, or comes from the cache, it is one the
\* overrides have been applied to.
AddressesOverridden ==
  LET allowed == {Override[a] : a \in Addresses} \cup {Null}
  IN  /\ \A e \in Hosts \X Families : cache[e] \in allowed \cup {Missing}
      /\ \A l \in Lookups : look[l].address \in allowed

\* A DoT socket does not outlive the lookup it was opened for.
DotSocketsReleased ==
  UsesDot => \A k \in Conns : conn[k].state # "gone" => Users(k) # {}

\* With a pin, an answer is only believed from a server that has that key, also when
\* the session was opened, and checked, for another question (lines 173 and 286).
PinnedAnswers ==
  [][\A l \in Lookups :
       (config.pinned /\ Asking(l) /\ look[l].via \in Conns /\ look'[l].stage = "found")
         => conn[look[l].via].peer = "pinned"]_vars

\* No question is asked over a session that ended, or is about to, since it was kept.
NoQuestionToTheGone ==
  [][\A l \in Lookups :
       (~Asking(l) /\ Asking(l)' /\ look'[l].via \in Conns)
         => conn'[look'[l].via].state \in {"connecting", "secure"}]_vars
=============================================================================
