# Demergi in TLA+

Demergi is an HTTP proxy that gets requests past deep packet inspection. It
listens on some addresses, accepts clients, reads their first request, looks the
destination up (through the system, DNS over HTTPS or DNS over TLS) and relays
bytes both ways. For the hosts it is told to obfuscate, it fragments the TLS
ClientHello of a tunnel, or rewrites the head of a plain request.

This directory holds TLA+ modules translated from that code, TLC configurations
that check them on small instances, and proofs that the TLA+ proof system checks
for every value of the constants. `PROJECT.json` lists components, runs, mutants,
hazards, theorems and, for every definition that models code, its source lines.
Line numbers below are of the files under `src/`.

## 1. The system

| Component | Code | State | Operations |
|---|---|---|---|
| Proxy | `src/proxy.js` | `this.servers`, `this.sockets`, per connection a client socket, an upstream socket and the closures of their listeners | `start`, `stop`, `#connectionListener` and the handlers it installs, `#socketDestroy`, `#socketTimeoutHandler`, `#socketCloseHandler` |
| Cache | `src/lru.js` | a map from keys to elements, and a doubly linked ring of the elements in the order of their use | `set`, `get`, `delete`, the iterator |
| Resolver | `src/resolver.js` | the options, `dnsCache`, `#dohClient`, and in closures every lookup, request, session and socket under way | `resolve`, `#resolvePlain`, `#resolveDoh`, `#resolveDot` and their event handlers |
| DNS messages | `src/resolver.js` 320-487 | none | `#encodeQuestion`, `#decodeAnswer`, `#encodeName`, `#decodeName` |
| IP overrides | `src/resolver.js` 495-625 | `dnsIpOverrides`, the rules of each family | `#compileIpOverrides`, `#findIpOverride`, `#ipMatchesCidr`, ... |
| Command line, workers | `bin/demergi.js` | options, worker processes | option parsing, forking, signals |
| Errors, logger, helpers | `src/errors.js`, `src/logger.js`, `src/utils.js` | none | messages, output, environment |

How they interact:

- `bin/demergi.js` makes a resolver and a proxy in every worker process, calls
  `start()`, and on a signal `stop()`. Workers share nothing but the listening
  addresses.
- The proxy gives every upstream socket a `lookup` function that calls
  `resolver.resolve()`, so a connection waits for a lookup that may take as long as
  the resolver likes. A lookup that never settles shows in the proxy as a socket
  whose `connecting` flag stays set.
- The resolver calls the cache in one process, on one thread; nothing awaits
  between a `get` and what it decides.
- Everything runs on Node's event loop: a handler runs to its end, then the
  promise reactions it caused, then the next event. There is no parallelism, but
  every order of events is possible: data, end, timeout, error and close of two
  sockets, the answers of two lookups, the loss of a session, a signal.

What makes each part correct:

- *Proxy.* The two sockets of a connection end together, whatever ends first. The
  set used by `stop()` misses no socket that would survive it. `stop()` ends. The
  upstream gets the client's bytes once, in order, with the first ones fragmented
  or rewritten. Waiting for an upstream, a client or a lookup is bounded by the
  inactivity timer.
- *Cache.* Map and list always agree; the list stays a ring through any sequence
  of removals and moves; entries are found until they expire, are deleted or make
  room, least recently used first; the capacity is respected, zero included.
- *Resolver.* A call is settled as its two lookups say. Questions share one live
  session. A connection whose key was not the pinned one never answers. Overrides
  apply on every path. Sockets are released. Retries end.
- *Both.* A lookup that calls back finds the socket it was started for, with an address
  to connect to, whatever became of the client in between. Attempts to connect end.
- *DNS messages.* Any bytes are decoded in finite time; what follows the rules is
  understood as it was meant; what lost its end is not taken for something else.
- *Workers.* One signal stops everything, at whatever moment it comes, and a process that
  has its handlers by then runs its `stop()` to the end. (The handlers come only after
  `start()`: a signal before that ends the process, though its first address may already
  have clients.) No worker is cut off by the end of its primary.

## 2. Modules and their correspondence to the code

| Module | What it is |
|---|---|
| `Proxy` | servers, connections, evasion and shutdown (`proxy.js`) |
| `MCProxy` + 3 `.cfg` | its model-checking instances |
| `ProxyProofs` | type correctness, the invariants of socket pairs, what `stop()` leaves behind and what becomes of a client's bytes, proved |
| `RequestHead` | the first chunks of a client: lines, the head written anew, the list of hosts, the fragments of a hello (`proxy.js` 181-363, 400-451) |
| `MCRequestHead` + 2 `.cfg` | its instances |
| `RequestHeadProofs` | all that is claimed of the first chunks, proved |
| `Cache` | the abstract cache: a function from keys to values with expiry, and a capacity |
| `Recency` | the abstract replacement policy: a sequence of keys, most recent first |
| `LRU` | the code's map and pointers (`lru.js`), with `INSTANCE Cache` and `INSTANCE Recency` as what it implements |
| `MCLRU` + `.cfg` | its instance |
| `LRUProofs` | the ring, the map, the capacity and the refinements of `Cache` and `Recency`, proved |
| `Resolver` | calls, lookups, sessions and sockets (`resolver.js` 33-318) |
| `MCResolver` + `.cfg` | its instance |
| `ResolverProofs` | its safety properties, proved |
| `Demergi` | `Proxy` and `Resolver` together: the lookup of a socket is a call (`proxy.js` 229-252) |
| `MCDemergi` + `.cfg` | its instance |
| `DemergiProofs` | that the parts behave as they do alone, and that a lookup finds its socket, proved |
| `DnsAnswer` | the decoder of answers, and the encoder of questions (`resolver.js` 320-486) |
| `MCDnsAnswer` + `.cfg` | its instance |
| `DnsAnswerProofs` | that it reads what was written and nothing else, never goes back, and comes to an end, proved |
| `Overrides` | CIDR overrides of addresses (`resolver.js` 495-625) |
| `MCOverrides` + 2 `.cfg` | its instances |
| `OverridesProofs` | that the smallest network overrides, proved of addresses that are not written dotted |
| `Workers` | processes and signals (`bin/demergi.js` 271-338) |
| `MCWorkers` + `.cfg` | its instance |
| `WorkersProofs` | its safety properties, proved |

In a module, an operator whose comment starts with "Mutant" is a form of the
definition after it with a plausible bug. None is used by the specification:
`PROJECT.json` says which property each one must break.

### Proxy

One action is one event handler, run to its end.

- A socket is what handlers can tell apart. A client socket is in its TLS
  `handshake`, `open`, `destroyed` (its close event is due) or `closed`. An upstream
  socket is `idle`, `connecting`, `stalled` (flag set, but no attempt runs any more),
  `open`, `discarded` (destroyed before it had a handle: its close event comes on the
  next tick, before any other event), `destroyed` or `closed`.
- `sockets` is `this.sockets`; `doomed` are upstream sockets with the `connect`
  listener that `#socketDestroy` adds to a connecting socket (line 371). Destroying
  is `DestroyClient` and `DestroyUpstream`; every handler that calls
  `#socketDestroy` uses them.
- `phase` is which data listener the client socket has: `first` (line 181), `hello`
  (263), `piped`, or `refused` when none is left.
- The client's stream is a sequence of *units*: parts of the request head
  (`RequestHead`), then a hello and what follows it, or a body. `FirstData` and
  `HelloData` may get any number of units that TCP may deliver at once (`Sent`).
  `toUp` records what went to the upstream and in which form.
- A request is only `kind`, `obfuscate` (its host is not exempt) and `dialable` (its
  port is in range). `FirstData` splits as lines 181-366 do: `Refuse` (a malformed
  request), `ConnectThrows` (`connect()` throws, on a port above 65535, after the
  connecting flag was set: the socket is `stalled`), `OpenTunnel` (CONNECT) and
  `ForwardRequest` (plain HTTP).
- `starting`, `stopAt` are the progress of `start()` and `stop()`, which await in
  between: `StartServer`, `CreateThrows` (bad certificate), `ListenOk`,
  `ListenFail`; `StopBegin`, `StopResume` (one server's close after the other),
  `ServerClose`.
- The environment is `Accept`, `TlsHello`, `ClientGone`, `UpstreamGone`,
  `UpstreamSends`, `ConnectOk`, `ConnectFail`, `LookupStalls`: marked external or
  mapped to the lines that react to them.

The `try`/`catch` branches around writes and pipes (proxy.js 281-287, 295-301,
345-351, 356-362) are not in the model: `write` and `pipe` of a Node socket report a
destroyed socket by an event and do not throw.

### RequestHead

`Proxy` takes a request head as units that are forwarded modified or not.
`RequestHead` looks into one: what the data listener makes of the bytes of the first
chunk. `ReadLine` and `Tokens` are `#readLine` and `#tokenize`; `RequestLine`,
`HeaderLine` and `Rest` are the request line, one turn of the loop, and the write of
what the chunk holds after the head. `offset` is `firstDataOffset`. Bytes are kept as
far as this code distinguishes them; "host:" and every token are one symbol each. It
is one handler, cut into its steps so that its offset and its output can be
related at every one of them (`ContentKept`).

Which hosts are obfuscated is `MustObfuscate`: `Origin` is `#parseOrigin`, which makes
the host lower case, while the list is taken as it was given. For a tunnel, `HelloData` is
the second data listener and `Fragment` one turn of its loop; `hello` is the chunk as it
came and `pieces` what was written of it. `HelloThrows` is the exception of
`writeUInt16BE` on a chunk of less than three bytes, which nothing catches.

### LRU, Cache, Recency

`LRU` keeps what the code keeps: `map`, the `next`, `prev` and `list` pointers of
the elements and the root, `size`, and the clock the code reads. `ListInsert`,
`ListRemove` and `ListMove` are made of single assignments in the order of the
code (`Unlink`, `LinkAfter`), because later assignments read pointers that earlier
ones wrote. `Set`, `Get` and `Delete` are the methods, `Get` with its removal of an
expired entry and its move to the front. Time is any value at every step: the
system clock may jump.

`Cache` says what a caller is promised and nothing of recency: an entry is found
until it expires, is deleted, or makes room in a full cache. `Recency` says which
entry makes room. `LRU` implements both (`ImplementsCache`, `ImplementsRecency`).

### Resolver

One action is one event callback with the promise reactions it causes.

- `call[c]` is one `resolve()`; `Calls` are slots, used again when the lookups of the
  former call are through (an abandoned lookup keeps its slot until then; more
  slots are more overlapping calls).
- `look[<<c, f>>]` is the lookup of one address family: `asking` on a connection,
  in `backoff`, `mute` (nothing will ever settle it), `found` or `failed`. `Settle` is
  `Promise.all` with the filter of null addresses (lines 78-105). A call whose other
  lookup failed is rejected, and the remaining lookup goes on and still writes the
  cache (`Answered`), as the code does.
- `conn` are TLS connections, with the HTTP/2 session in the DoH case, and whose key
  the server has. `client` is `#dohClient`. `Routes` and `Open` are the choice at
  lines 143-147: reuse the session, unless it is destroyed or closed, else open one,
  and keep it if persistent. Both questions of a call run through it one after the
  other before anything else happens, hence one step for both.
- When a connection breaks, requests on it learn of it in events of their own:
  `Break` and `Secure` only change `conn`, `DohError` and `DotError` follow. In between
  another call may ask.
- `Quiet` admits the endings that are no error: an HTTP answer without a body, a
  session or socket that the server closes in good order (`EmptyAnswer`, `Drop`). The
  code settles nothing then and the call stays pending for ever: neither `end` with
  an empty answer (line 242) nor `close` is handled.
- `Forget` stands for the cache dropping any entry at any time: expiry, eviction.
  `Cache` and `LRU` say when it really happens.
- A non-persistent session whose request fails is left open by the code (it closes
  the session only at `end`, line 239): the model shows this as connections that stay
  `secure` with no user.

### Demergi

`Demergi` takes `Proxy` and `Resolver` as they are, with `INSTANCE`, and lets each decide
what the other leaves to its environment. `Dial` is the step in which a connection's
first data event calls `connect()` and with it `resolve()`; both happen before anything
else can. After that, `AttemptEnds` and `AttemptStalls` are the events of an attempt to
connect: it goes on or fails once the lookup has called back with an answer or an error, and
stalls with a call that nothing will ever settle (`Hung`). A host that is an address already
needs no call. An attempt to connect that follows a lookup is still free to fail. All other
events of the proxy (`ProxyEvent`: timeouts, closes, data, `stop()`) happen as `Proxy` has
them, whatever the lookup is doing; `ProxyStep` asks only that they dial nowhere, which
would be a step of both.

So `LookupStalls`, an assumption of `Proxy`, becomes a consequence: it takes a connection
to a DNS server that ended quietly. And the fairness that `Proxy` asks of its environment,
that an attempt ends unless it stalls, is a property here (`AttemptsEnd`), checked from the
fairness of the resolver's own events. Types and the other invariants of the parts are
checked and proved where the parts stand alone, with an environment that may do more.

### DnsAnswer

The decoder is a state machine over a message of any bytes. One action is one piece of
`#decodeAnswer` or `#decodeName`: `Header`, `Label`, `Jump` (a pointer), `NameEnd`,
`Question`, and one for each thing that can become of a record. `at` is `offset`; `name`
is a call of `#decodeName` with the calls it makes of itself: where it reads, `bytesLen`
(`Grown`: what is read behind a pointer does not count), and `depth`. A read that would
leave the message throws (`BadName`, `BadRecord`), except where a slice is read, which is
cut short (`Padded`). A byte has `Base` values, and the header, a time to live and an
address have sizes of their own, so that messages can be small enough to enumerate.

What was meant (`Meant`) is defined on records and apart from the decoder. A message may
come from a sender that wrote it, `content`, which says what it meant and how its bytes
came about (`IsWritten`): the question and the records with their fields one behind the
other (`Fields`), and the places at which a name begins or goes on, with the end of it and
the pointers it goes through (`NamesIn`). Nothing is said of the order of records, of where
pointers lead, or of the data of other records. The code sees none of this, only `bytes`;
a message that came without its end has fewer of them than its `content` (`Cut`). That
messages with a `content` are as it says is an assumption about `Messages`. The run writes
messages from records, with names that are compressed or not, and then cuts them short
or changes a byte (a message that was changed, or that is arbitrary, has no `content`); the
model checker evaluates the assumption for each of them.

### Workers

One action is one handler, one event of Node, or a signal from outside. `status` is what
became of a process; `armed` are the signals whose `process.once` handler has not run,
`pending` those sent to it and not yet delivered. `stop` is, for each signal, the server
that the `stop()` it began awaits: there may be two at a time. `late` marks servers held
open by a connection that `stop()` did not find. Node's part is modelled with it: a signal
without a handler ends a process (`Kill`), a worker ends with its primary (`Orphaned`), and
a primary has nothing to do without its workers (`PrimaryEnds`).

`start()` and `stop()` are those of `Proxy`, reduced to the servers: `Listens` is one turn of
the loop in `start()`, which awaits each address, and `Started` comes when all of them
listen, and installs the handlers. A process in between accepts clients without a handler.

### Overrides

`Compile` is the constructor's `#compileIpOverrides`; `LookUp` is one
`#findIpOverride`. Addresses are texts as the parser splits them: groups before and
after `::`, and perhaps a dotted ending. What an address *means* (`Meaning`) and
when it is in a network (`InNetwork`, bit by bit) is defined apart from the code's
`IpToBytes` and `Matches`, which the properties compare with it. A byte has `Bits` bits,
so that the masks can be checked at a small width. The stable sort gives the rule at place
`n` to the accepted entry that has `n - 1` others before it (`Before`), which is what a
sort is to whoever does not ask how it works. `IsText` is what `net.isIP` accepts, and the
assumption says that an entry is well formed only with such an address in it.

## 3. Runs

Unless said, deadlock is not checked because the system may stop: nobody has to
connect, and after `stop()` nothing happens any more.

| Run | Question | Bounds |
|---|---|---|
| `proxy_lifecycle` | Do the sockets of a pair end together, does `stop()` reach everything and return with everything down (`start()` failing or not), is no socket revived, is every hello fragmented and every head rewritten for a host to obfuscate? | 2 connections, 2 addresses, one TLS, four kinds of request, a head in one piece, stalling lookups; 2.5M states up to symmetry |
| `proxy_split_head` | The same for a CONNECT head cut in two: **violated**, see the finding | 300 states |
| `proxy_liveness` | Do the bytes arrive once, in order, however TCP cuts them, the request head included? Does an upstream close after its client, is an upstream that speaks first released, is a closed connection forgotten though its lookup never answers, and does `stop()` end? | 1 connection, 2 addresses, one TLS, six kinds of request, head of 2 units, stalling lookups, fairness; 48k states |
| `request_head` | Does the content of the first chunk go out once and in order, with its head alone rewritten and its host lines mixed? Do the fragments make up the hello, at the size asked for? | 9 request lines, up to 5 symbols after them, cut anywhere; hellos of 1 to 7 bytes in fragments of 2, of 3 or whole; 1.2M states |
| `request_head_cut` | Are new lines written where its lines end, for a head cut inside a line? **Violated**, see the findings | 12 chunks |
| `lru` | Ring, map, and both refinements (the abstract cache has the capacity) | 3 keys, 2 values, 3 elements, capacities -1, 0, 1, 2, clock 0..1; 10k states up to symmetry; deadlock checked |
| `resolver` | Calls, sharing, pins, overrides, release, in every mode | 2 calls of one host, 3 connections, 1 retry, 6 configurations, quiet endings; 519k states up to symmetry |
| `demergi` | Does a lookup find its socket as `connect()` left it, whatever became of the client? Does every call settle, and every attempt to connect end, unless a DNS connection ended quietly? | 1 connection, 2 DNS connections, 4 configurations, 1 retry, quiet endings, fairness; 206k states |
| `dns_answer` | Is a message understood as it was meant, is one that lost its end not misread, does the reader advance, and end? | bytes of 8 values, up to 2 records, 3 pointers; all messages written from them, those cut anywhere, those with one byte changed, and all of 3 bytes; 235k states |
| `workers` | Does one signal cut off only who has no handlers yet, does nothing accept at exit, and does a signal end all? | a process alone or with 2 workers, 2 servers each, 2 signals to anybody at any time, fairness; 963k states |
| `overrides` | Does the smallest network that holds an address override it? | bytes of 2 bits, 2 and 6 of them, maps of up to 3 entries; 271k states; deadlock checked |
| `overrides_dotted` | The same for a CIDR with a dotted ending: **violated**, see the findings | 13 maps |

Why the bounds are enough to be of interest:

- Connections of the proxy do not touch each other but through `sockets`,
  the servers and `stop()`. Two are needed for one to be accepted before and the
  other after `stop()` began, or one to hold a server open while another closes. The
  invariants of a pair, of `stop()` and of the streams are proved for any number of them.
- Two addresses let `start()` fail at the second with the first listening, and
  `stop()` await one while the other still accepts.
- Two units in the head are the least that can be cut; TCP may also join units.
- Three keys with a capacity of two make room; lists of zero to three elements are
  all the cases in which neighbours of a pointer operation coincide or not.
  A capacity of zero evicts what was just inserted, minus one never evicts.
- Two calls of one name give four lookups: two that find no session together,
  one that meets a session on its way down, one that shares a question's answer
  through the cache. Three connections allow an old session still finishing while a
  new one is replaced in turn. `Conns` limits how many can exist at a time, so
  a run does not reach states with more; the proofs have no such bound.
  `demergi` leaves non-persistent sessions out (`SomeConfigs`), since the ones left open
  would use up `Links`, which the code does not run out of.
- In `demergi` a retry is the step in which a call goes on over another connection, and
  one is enough to have it; two connections let a session be replaced while an old one
  still ends. Connections of clients meet only in the resolver (two calls: `resolver`)
  and at `stop()` (`proxy_lifecycle`), so one is enough here.
- Two records let one that is passed over stand before one that counts, with its name
  compressed to the question or to the record before; three pointers are more than a
  well-formed name has, and the fourth is refused. With bytes of eight values
  every type, class and pointer fits into the two bytes it has.
- Two signals can be the two kinds, the same kind twice, sent to two processes or to all
  at a terminal; two servers let `stop()` await one while the other listens. The proofs
  have neither bound.

- Five symbols after the request line hold an empty line and one after it, a host line
  in the head and one in the body, ends of one byte and of two, and spaces around each;
  a chunk may stop after any of them.
- With bytes of two bits, prefixes meet every case of the mask: none, inside a byte, on
  its boundary, the full length, and one out of bounds on each side. Three entries
  let two networks of equal length follow or precede a smaller one.

### Fairness

- The event loop delivers what is pending: close events, ticks, readable data to a
  pipe, the end of `server.close()`.
- Attempts to connect end (the operating system bounds them), and so does a TLS
  handshake (Node bounds it). A lookup ends unless the run has `Stalls`, which is what
  the resolver's quiet endings come to.
- An inactivity timer is fair only while the socket has nothing to do: a client that
  has not sent what the proxy waits for, or a stalled upstream. A busy socket may
  never time out.
- In the resolver, c-ares calls back, requests and sockets have an answer timeout,
  a backoff is a plain timer, and Node destroys a closing session without streams.
  A server need not answer at all.
- In `Demergi`, the fairness of both, except what `Proxy` asks of lookups: an attempt to
  connect ends only once its lookup has called back.
- `DnsAnswer` is one synchronous call: it does not stop on the way.
- In `Workers`, a script runs, `start()` ends, a signal that was sent arrives, a server
  without connections closes, and Node ends a process that it must. A late connection
  may stay for ever, and `SignalEndsAll` says so.
- No client, upstream, DNS server or operator has to do anything: sending, closing and
  calling `stop()` are never fair.

### Findings

`proxy_split_head`: the code takes the *second* data event of a CONNECT client for its
ClientHello (line 263). If the request head arrives in two pieces, the rest of the
head is taken for it and sent on to the upstream, and the real ClientHello follows
through the pipe as it is. The repository's README (line 13) says that this packet
is fragmented. TCP may cut anywhere, so the run shows it in the smallest case; with a
head in one piece (`proxy_lifecycle`) the statement holds.

`request_head_cut`: the last line of the first chunk is taken for a whole line, even if
TCP cut the head inside it (lines 322-337). It is sent on with the newline separator at
its end, and the rest of the line follows through the pipe as a line of its own, though
the separator is there "to separate new lines" (README, line 132). In any
case nothing of the content is lost (`ContentKept`).

`overrides_dotted`: `net.isIP` accepts an IPv6 address such as `64:ff9b::192.0.2.0`,
and `#ipToBytes` reads its dotted ending as a single hexadecimal group (resolver.js,
line 575). A CIDR written so compiles to a rule for other addresses than those of its
network, and without `::` it is dropped. Texts without a dotted ending are
right (`overrides`). The addresses the code decodes from answers itself are
never written so.

## 4. Proofs

Every theorem holds for every value of the constants that meets the module's
`ASSUME`: any number of connections, addresses, calls, keys, elements, retries.

**ProxyProofs.** `TypeCorrect`. Then `PairInv`, inductive only as a whole: the two halves
of a pair (`PairTeardown`), the tracking set (`TrackingSound`) and the reach of
`stop()` need each other, and facts on which listener a socket in which state can
still have. For example, a timeout removes a socket from the set without destroying
it; that this loses nothing depends on what the same handler did to the pair, and
on the pair's close event still to come. From it: `PairsEndTogether`,
`TrackingIsSound`, `StopReachesEverything`, and `SocketsAreNotRevived`. `StopInv` is about
the servers: `start()` has only what it reached bound (`Started`), `stop()` has closed what
is behind it and not touched what is before it, and goes by a set that has every server
that listens (`Stopping`), and a connected client has a server that is not down yet
(`Served`). With it `StoppedMeansDown`: when `stop()` returns, everything is down.

In the same module, `StreamInv` says, for streams of any length cut anywhere, that what
a client still has to send is the end of its stream (`Suffix`) and what the upstream got is
the part before it (`InOrder`), but for some of the head of a tunnel: `PayloadStaysIntact`.
`EvasionInv` says in which form each part was written, and that no unit that needs a
disguise is left to the pipe: `EvasionIsApplied`. Its hypothesis, that heads are in one
piece, is what the run `proxy_split_head` shows to be needed.

**RequestHeadProofs.** `HelloInv` follows the loop over a hello: the fragments written
(`Written`) are together the beginning of the stamped record, up to the `i` of the loop, and
all of the size asked for except one that reaches the end. With it
`FragmentsMakeUpTheHello`, for hellos and fragments of any size.

Of a head, `ContentStaysWhole` says that nothing of its content is lost or written twice.
The content of two sequences is that of the one and then of the other (`ContentConcat`), so
it is enough that each helper keeps the content of its part: a line without its end
(`ReadLineIs`), a header with another key and without blanks around its value (`HeaderIs`),
and the three tokens of a request line (`AcceptableIs`; between tokens that are each one
unit there are only separators). `HeadIsRewritten` says how much of the head is written
anew: `Rewritten` is the invariant of the loop over its lines, that the offset is behind a
line end, that no line up to it was empty, and that there is a mixed key for every line
that begins with that of the host. So where the loop ends the head does (`HeadEndIs`). Its
case of a first byte that ends a line, which `#readLine` does not see, needs that no method
contains a line end.

**LRUProofs.** First, lemmas on any ring: what inserting in front, removing and moving
to the front do to a numbering of the elements from the root. Then `CacheInv` (the list
is a ring, map and list agree, the capacity holds) is inductive: `RingStaysIntact`,
`MapAndListAgree`, `CapacityRespected`. With it two refinements, in which every step of the
pointers maps to a step of the abstract module: `ListImplementsCache`
(`Spec => ImplementsCache`) and `ListImplementsRecency` (`Spec => ImplementsRecency`). For
the second, the order of use is what the iterator meets when it follows `next`, which
`OrderOf` defines by recursion. A numbering of the ring satisfies that recursion
(`WalkFollowsNumbers`), so that the lemmas on numberings say what becomes of the order.

**DemergiProofs.** `ProxyIsAPart` and `ResolverIsAPart`: every step of the two together is a
step of `Proxy`, or leaves it alone, and the same for `Resolver`; so what is proved of each,
for every environment, holds of it in the whole. (This last step is ordinary substitution;
`tlapm` does not take theorems through `INSTANCE`, and it is not among the checked ones.)
`LookupsFindTheirSockets` is about both. A socket with a lookup is not replaced, because a
client is accepted once (`Accepted`). It is not dialled again, because a client's first data
come once and find a socket that nobody dialled (`Undialled`). And it is not destroyed while
it is connecting: this is shown of every handler in turn (`ArrivalKeeps`, `FirstDataKeeps`,
`EventKeeps`, `ServerKeeps`), none of which has a guard that asks for it, and it holds because
`#socketDestroy` puts that off (lines 369-377). A lookup that hangs does so for good
(`HungForGood`), so that a stalled socket stays one of a lookup that never calls back.

**ResolverProofs.** `ResolverInv` adds two facts to the checked invariants: with a pin,
a connection that can deliver data has the right peer (`PeersChecked`), and a plain
lookup is on no connection (`PlainUsesNone`). `Pending` and `Settled` say what a lookup
that goes on, or ends, means for its call; `Opened` what the choice of a session does
to the one that is kept; `Left` what ending a lookup does to its connection. From the
invariant: `TypeCorrect`, `CallsSettleAsTheirLookups`, `OneSession`, `OverridesApplied`,
`SocketsAreReleased`; the action properties `AnswersArePinned` (only an event of the
lookup itself can find an address while it is asking, and it comes over a connection
that was checked) and `QuestionsGoToTheLiving`.

**DnsAnswerProofs.** `ReaderTypeCorrect`: offsets are numbers, and no name goes through more
than `MaxJumps` pointers, for any message and any size of a byte. `ReaderNeverGoesBack`: the
reader goes on behind the place where a name began, wherever its pointers led, because
only bytes in front of the first pointer count for the length of a name.

`WellFormedAreDecoded` and `CutShortAreNotMisread` follow from one more invariant,
`AsWritten`, which says where the decoder is in the message of its sender: at the name of
the record whose turn it is, with nothing told by the records before it (`Sought`); in that
name, or in what a pointer led to, with the end of the first one still known (`Following`);
behind it, at the fields; or done, with what was meant or with zeros for what was lost
(`Told`). It is inductive only with all of these, since a record is found by the length of
everything before it. The lemmas below it say that a number in two bytes is read back
(`TwoIs`, `ReadsTwo`), that each field of a record is where the decoder looks for it
(`FieldsIs`, `RecordReads`), and what a byte of a name can be (`NameReads`); then there is
one lemma for each action. The hypothesis is `IsWritten`; that the message was cut short
is all that a refusal can mean.

`DecodingRunsOut` is the safety part of `Ends`: `StepsLeft`, a natural number, falls
with every step. A label uses up bytes, a pointer one of those allowed (and may give all
bytes back), a record one of those counted, each worth more than all that comes before it
in this list. That the decoder is never stuck before it is done stays with the run.

**WorkersProofs.** `TypeCorrect`. `ExitInv` says of each process (`Tidy`) that it has no handler
and no `stop()` as long as it starts (`Fresh`); that no server a `stop()` went past listens,
and none at all once it is stopped (`Passed`); and that, as long as a handler is left, at most one
`stop()` has begun, with the servers before the one it awaits closed and those behind it
listening (`Orderly`). With it `ExitsClosed`, where the second `stop()` of two may exit while
the first still awaits a server, but none accepts. `GracefulInv` follows a single signal: it
is pending in the main process or, after that, once in each worker; whoever serves has a
handler for what is pending; no primary ends before its workers; and who was killed had no
handlers (`Spared`). With it `OneSignalIsGraceful`, for any number of workers and servers.
What a terminal does, to send the signal to all at once, is not of this form, and a worker may
be cut off then: the primary's copy reaches it when its handler is gone.

**OverridesProofs.** `AddressesAreOverridden`: the smallest network overrides, for options
of any length, addresses of any size and bytes of any number of bits. The three parts of
the code are three lemmas. `SamePrefix`: comparing the full bytes and then one byte under a
mask compares exactly the first bits, because a byte without its last bits is the bits
that are left (`SameBits`, `SameMasked`, over the powers of two that `Pow2` defines by
recursion). `ParserReads`: the groups the parser puts together are what the notation means.
`Places`: the sort gives every accepted entry one place, since fewer entries are before it
than before any later one, so that the first rule that matches is the best network. The
hypothesis `Undotted`, that no text is written dotted, is needed: without it the run
`overrides_dotted` has a counterexample. The invariant (`IInv`) is only that lookups
change no rule; what is hard is in the lemmas.

Recursive functions: the library's induction theorems are out of the provers' reach, but
the natural numbers have a least counterexample to whatever fails for one of them
(`LeastNumber`, from `WFMin`), and by it a recursive function exists, is unique, and is the
function one claims it to be (`JoinsExists`, `JoinsAlike`, `WalkFollowsNumbers`, `DoublesExists`).

Only model-checked:

- The liveness properties: the prover does not handle fairness. Every invariant and every
  action property that a run checks is a theorem, but for those of the runs that expect a
  counterexample.
- That the writer of `MCDnsAnswer` writes what `IsWritten` says, which is evaluated on every
  run for all of its messages; it is recursive, and the proofs do without it.

Only proved: `TrackingSound` and `WithinCapacity`, parts of the inductive invariants, the
decoder's `ReaderTypeOK` and its `StepsLeft`, and that the parts of `Demergi` are parts.

## 5. Hazards

`PROJECT.json` lists, line by line, what in this code is hard to test, with the
properties that cover it. Those without one are things the code promises nowhere: a
chunk of one or two bytes that looks like a handshake ends the process, a failing question
leaves a non-persistent session open, an error code in an answer passes for the absence of
the name, a list of hosts is compared as it was typed, and a primary without workers ends by
the rules of Node. Of the same kind, and visible in the models: a transient plain error is cached
as "no address"; an answer over DoT in two pieces is rejected; records are taken whatever
their owner or section; only the first data event of a hello is fragmented.

## 6. What is not modelled

- Text: the regular expressions on addresses and origins, the escapes in separators, the
  text of names and addresses. A target has a host or is refused. The encodings of text are
  left out: a header line that is no valid UTF-8 is changed by the code. So are labels
  longer than 63 characters, whose size the encoder writes as it is.
- The single flags of a DNS header, which are as they must be or not, and the hash of a
  pin, which matches or does not.
- Client sockets in the TLS handshake are known to the server only: `this.sockets` does
  not hold them, and `stop()` waits until Node has bounded the handshake. The model has
  them so; it does not model the time this takes.
- Back-pressure: a pipe relays what is readable.
- A CONNECT client is taken to send nothing behind its head before it has the 200 (`Sent`).
  What comes joined to the head in one data event is dropped by the code (proxy.js,
  262-301), so `PayloadIntact` says nothing of clients that do not wait.
- Errors, logger, helpers, option parsing: no state, or plain assignments. The list of
  hosts is taken as it was given; a name in capitals, or the empty one of an empty
  variable, matches no request.

## 7. Plan

What is left, in this order:

1. *Proofs*: liveness, once a prover handles it; `StepsLeft` is what a proof of `Ends` needs.
2. *Larger instances*: two connections in `Demergi`, so that one call meets what another
   left in the cache and in the session.
