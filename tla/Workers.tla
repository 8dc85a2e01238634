------------------------------ MODULE Workers ------------------------------
(***************************************************************************)
(* The processes of the program (src/bin/demergi.js, lines 271 to 338): a  *)
(* primary that forks workers, or a process that is the server itself;     *)
(* signals, the handlers that are installed once for each of them, and the *)
(* stop() they begin.  What Node adds is modelled with it: a signal that   *)
(* has no handler ends a process, a worker ends with its primary, and a    *)
(* primary ends when none of its workers is left.                          *)
(***************************************************************************)
EXTENDS Integers, Sequences

CONSTANTS
  Main,        \* the process that was started
  Workers,     \* the processes it may fork
  Forks,       \* options.workers, as the set of those it does fork
  NumAddrs,    \* the servers of a process: number of entries of addrs
  MaxSignals   \* bound: signals sent from outside

Processes == {Main} \cup Workers
Signals   == {"SIGINT", "SIGTERM"}
Servers   == 1 .. NumAddrs

ASSUME WorkersAssumption ==
  /\ Main \notin Workers /\ Forks \subseteq SUBSET Workers
  /\ NumAddrs \in Nat \ {0} /\ MaxSignals \in Nat

VARIABLES
  workers,  \* options.workers
  status,   \* of each process
  server,   \* of each process, its servers
  late,     \* of each process, the servers that a connection accepted after stop() keeps
  armed,    \* of each process, the signals whose handler has not run
  pending,  \* of each process, the signals sent to it and not yet delivered
  stop,     \* of each process, the stop() of each signal: 0, or the server it awaits
  sent      \* history: for each signal from outside, whom it was sent to

vars == <<workers, status, server, late, armed, pending, stop, sent>>

Alive == {"starting", "primary", "serving"}

\* How a process ended: at the end of stop(), by an exception or a server that could not
\* listen, by a signal, when its primary had gone, or because it had nothing left to do.
Ended == {"stopped", "failed", "killed", "orphaned", "idle"}

TypeOK ==
  /\ workers \in Forks
  /\ status \in [Processes -> {"none"} \cup Alive \cup Ended]
  /\ server \in [Processes -> [Servers -> {"none", "listening", "closing", "closed"}]]
  /\ late \in [Processes -> SUBSET Servers]
  /\ armed \in [Processes -> SUBSET Signals]
  /\ pending \in [Processes -> SUBSET Signals]
  /\ stop \in [Processes -> [Signals -> 0 .. NumAddrs]]
  /\ sent \in Seq(SUBSET Processes) /\ Len(sent) <= MaxSignals

Init ==
  /\ workers \in Forks
  /\ status = [p \in Processes |-> IF p = Main THEN "starting" ELSE "none"]
  /\ server = [p \in Processes |-> [i \in Servers |-> "none"]]
  /\ late = [p \in Processes |-> {}]
  /\ armed = [p \in Processes |-> {}]
  /\ pending = [p \in Processes |-> {}]
  /\ stop = [p \in Processes |-> [s \in Signals |-> 0]]
  /\ sent = << >>

IsPrimary == workers # {}
Live(p)   == status[p] \in Alive

End(p, how) == status' = [status EXCEPT ![p] = how]

-----------------------------------------------------------------------------
(***************************************************************************)
(* The primary.                                                            *)
(***************************************************************************)
Fork ==
  /\ IsPrimary /\ status[Main] = "starting"
  /\ status' = [p \in Processes |-> IF p = Main THEN "primary"
                                    ELSE IF p \in workers THEN "starting" ELSE status[p]]
  /\ armed' = [armed EXCEPT ![Main] = Signals]
  /\ UNCHANGED <<workers, server, late, pending, stop, sent>>

\* A signal that has a handler is delivered: the handler is gone after that.
Deliver(p, s) ==
  /\ s \in pending[p] \cap armed[p]
  /\ armed' = [armed EXCEPT ![p] = @ \ {s}]

\* Mutant: the primary does not wait for its workers.
ForwardAndExit(s) ==
  /\ status[Main] = "primary"
  /\ Deliver(Main, s)
  /\ pending' = [p \in Processes |->
                   IF p = Main THEN pending[p] \ {s}
                   ELSE IF Live(p) THEN pending[p] \cup {s} ELSE pending[p]]
  /\ End(Main, "idle")
  /\ UNCHANGED <<workers, server, late, stop, sent>>

\* Mutant: the primary handles the signal and keeps it to itself.
ForwardNothing(s) ==
  /\ status[Main] = "primary"
  /\ Deliver(Main, s)
  /\ pending' = [pending EXCEPT ![Main] = @ \ {s}]
  /\ UNCHANGED <<workers, status, server, late, stop, sent>>

Forward(s) ==
  /\ status[Main] = "primary"
  /\ Deliver(Main, s)
  /\ pending' = [p \in Processes |->
                   IF p = Main THEN pending[p] \ {s}
                   ELSE IF Live(p) THEN pending[p] \cup {s} ELSE pending[p]]
  /\ UNCHANGED <<workers, status, server, late, stop, sent>>

\* Workers that died are not forked again.  The handlers keep no process running.
PrimaryEnds ==
  /\ status[Main] = "primary"
  /\ \A w \in workers : ~Live(w)
  /\ End(Main, "idle")
  /\ UNCHANGED <<workers, server, late, armed, pending, stop, sent>>

-----------------------------------------------------------------------------
(***************************************************************************)
(* A process that serves: a worker, or the main process without workers.   *)
(***************************************************************************)
Starting(p) == status[p] = "starting" /\ ~(p = Main /\ IsPrimary)

\* start() listens at its addresses one after the other and awaits each (see Proxy): the
\* first ones accept clients before the last one does.
Listens(p) ==
  /\ Starting(p)
  /\ \E i \in Servers :
       /\ server[p][i] = "none"
       /\ \A j \in Servers : j < i => server[p][j] = "listening"
       /\ server' = [server EXCEPT ![p][i] = "listening"]
  /\ UNCHANGED <<workers, status, late, armed, pending, stop, sent>>

\* start() returned; only now the handlers are installed.
Started(p) ==
  /\ Starting(p)
  /\ \A i \in Servers : server[p][i] = "listening"
  /\ End(p, "serving")
  /\ armed' = [armed EXCEPT ![p] = Signals]
  /\ UNCHANGED <<workers, server, late, pending, stop, sent>>

\* The constructor threw or start() rejected; or a handler of the proxy threw.
Fails(p) ==
  /\ Starting(p) \/ status[p] = "serving"
  /\ End(p, "failed")
  /\ UNCHANGED <<workers, server, late, armed, pending, stop, sent>>

(***************************************************************************)
(* The loop of stop() over the servers (see Proxy): those that listen are  *)
(* closed one after the other, and the last one's close is followed by     *)
(* process.exit(0).  A server that another stop() is closing is passed by. *)
(***************************************************************************)
\* Mutant: the loop goes one server too far.
CloseNextTooFar(p, s) ==
  LET i == stop[p][s] + 1
  IN  IF i > NumAddrs + 1
      THEN End(p, "stopped") /\ UNCHANGED <<server, stop>>
      ELSE /\ server' = [server EXCEPT ![p] = [j \in Servers |-> IF j = i THEN "closing" ELSE @[j]]]
           /\ stop' = [stop EXCEPT ![p][s] = i]
           /\ UNCHANGED status

CloseNext(p, s) ==
  LET left == {i \in Servers : i > stop[p][s] /\ server[p][i] = "listening"}
  IN  IF left = {}
      THEN End(p, "stopped") /\ UNCHANGED <<server, stop>>
      ELSE \E i \in left :
             /\ \A j \in left : i <= j
             /\ server' = [server EXCEPT ![p][i] = "closing"]
             /\ stop' = [stop EXCEPT ![p][s] = i]
             /\ UNCHANGED status

StopBegin(p, s) ==
  /\ status[p] = "serving"
  /\ Deliver(p, s)
  /\ pending' = [pending EXCEPT ![p] = @ \ {s}]
  /\ CloseNext(p, s)
  /\ UNCHANGED <<workers, late, sent>>

\* Mutant: the loop does not wait for a server to close.
StopResumeEarly(p, s) ==
  /\ status[p] = "serving" /\ stop[p][s] # 0
  /\ CloseNext(p, s)
  /\ UNCHANGED <<workers, late, armed, pending, sent>>

StopResume(p, s) ==
  /\ status[p] = "serving" /\ stop[p][s] # 0
  /\ server[p][stop[p][s]] = "closed"
  /\ CloseNext(p, s)
  /\ UNCHANGED <<workers, late, armed, pending, sent>>

\* A server is closed once its connections are.
ServerCloses(p, i) ==
  /\ status[p] = "serving" /\ server[p][i] = "closing" /\ i \notin late[p]
  /\ server' = [server EXCEPT ![p][i] = "closed"]
  /\ UNCHANGED <<workers, status, late, armed, pending, stop, sent>>

\* A connection that stop() did not find comes, or ends.
LateConnection(p, i) ==
  /\ status[p] = "serving" /\ server[p][i] = "listening"
  /\ \E s \in Signals : stop[p][s] # 0
  /\ late' = [late EXCEPT ![p] = @ \cup {i}]
  /\ UNCHANGED <<workers, status, server, armed, pending, stop, sent>>

LateEnds(p, i) ==
  /\ status[p] = "serving" /\ i \in late[p]
  /\ late' = [late EXCEPT ![p] = @ \ {i}]
  /\ UNCHANGED <<workers, status, server, armed, pending, stop, sent>>

-----------------------------------------------------------------------------
(***************************************************************************)
(* Node and the system.                                                    *)
(***************************************************************************)
Kill(p, s) ==
  /\ Live(p) /\ s \in pending[p] \ armed[p]
  /\ End(p, "killed")
  /\ UNCHANGED <<workers, server, late, armed, pending, stop, sent>>

\* The channel to the primary is closed.
Orphaned(w) ==
  /\ w \in workers /\ Live(w) /\ ~Live(Main)
  /\ End(w, "orphaned")
  /\ UNCHANGED <<workers, server, late, armed, pending, stop, sent>>

\* Somebody sends a signal to one process, or a terminal to all of them.
Send(to, s) ==
  /\ Len(sent) < MaxSignals
  /\ \A p \in to : Live(p)
  /\ pending' = [p \in Processes |-> IF p \in to THEN pending[p] \cup {s} ELSE pending[p]]
  /\ sent' = Append(sent, to)
  /\ UNCHANGED <<workers, status, server, late, armed, stop>>

Everyone == {p \in Processes : Live(p)}

Next ==
  \/ Fork \/ PrimaryEnds
  \/ \E s \in Signals :
       \/ Forward(s)
       \/ \E p \in Processes : StopBegin(p, s) \/ StopResume(p, s) \/ Kill(p, s)
       \/ \E to \in {{p} : p \in Everyone} \cup {Everyone} : to # {} /\ Send(to, s)
  \/ \E p \in Processes :
       \/ Listens(p) \/ Started(p) \/ Fails(p) \/ Orphaned(p)
       \/ \E i \in Servers : ServerCloses(p, i) \/ LateConnection(p, i) \/ LateEnds(p, i)

Spec == Init /\ [][Next]_vars

(***************************************************************************)
(* Fairness.  The script runs, start() ends (see Proxy), signals arrive,   *)
(* servers without connections close, and Node ends the processes it must. *)
(* Nobody has to send a signal, and a late connection may stay.            *)
(***************************************************************************)
Fairness ==
  /\ WF_vars(Fork) /\ WF_vars(PrimaryEnds)
  /\ \A p \in Processes :
       /\ WF_vars(Starting(p) /\ (Listens(p) \/ Started(p) \/ Fails(p)))
       /\ WF_vars(Orphaned(p))
       /\ \A s \in Signals :
            WF_vars(Forward(s) \/ StopBegin(p, s) \/ Kill(p, s)) /\ WF_vars(StopResume(p, s))
       /\ \A i \in Servers : WF_vars(ServerCloses(p, i))

FairSpec == Spec /\ Fairness

-----------------------------------------------------------------------------
(***************************************************************************)
(* Properties.                                                             *)
(***************************************************************************)
\* A single signal sent to the main process is as good as one to each worker: no worker
\* loses its primary to it, and who is killed by it had no handlers yet.  (After one signal
\* a process that ever had them has one left.)  Such a process is still in start(), but the
\* addresses it came by already accept clients: their connections are cut off.  A terminal
\* sends the signal to all, and then the primary's may be a worker's second.
SignalIsGraceful ==
  sent = <<{Main}>> =>
    \A p \in Processes : /\ status[p] # "orphaned"
                         /\ status[p] = "killed" => armed[p] = {}

\* A process that exits at the end of stop() accepts at no address any more, and has closed
\* all its servers (lines 331-335) unless it got both signals: the second stop() passes by
\* the server that the first is closing, and its process.exit does not wait for it.
ExitAfterClose ==
  \A p \in Processes : status[p] = "stopped" =>
    /\ \A i \in Servers : server[p][i] \in {"closing", "closed"}
    /\ armed[p] # {} => \A i \in Servers : server[p][i] = "closed"

\* After a signal to the main process, at whatever moment of its start, all processes
\* end, unless a connection that came after stop() had begun stays for ever.
SignalEndsAll ==
  /\ <>(\E i \in DOMAIN sent : Main \in sent[i])
  /\ []<>(\A p \in Processes : Live(p) => late[p] = {})
  => <>(Everyone = {})
=============================================================================
