--------------------------- MODULE WorkersProofs ---------------------------
(***************************************************************************)
(* Proofs about Workers, for any number of workers, of servers and of      *)
(* signals: type correctness, that a process exits with its servers        *)
(* closed, and whom one signal to the main process can cut off.            *)
(***************************************************************************)
EXTENDS Workers, SequenceTheorems, TLAPS

-----------------------------------------------------------------------------
(***************************************************************************)
(* Type correctness.                                                       *)
(***************************************************************************)
LEMMA TypeInit == Init => TypeOK
<1> SUFFICES ASSUME Init PROVE TypeOK
  OBVIOUS
<1>1. << >> \in Seq(SUBSET Processes) /\ Len(<< >>) <= MaxSignals
  BY WorkersAssumption
<1> QED
  BY <1>1, WorkersAssumption DEF Init, TypeOK, Alive, Processes, Servers

\* A step of a stop() leaves the servers of a process servers, and awaits one of them.
LEMMA CloseNextType ==
  ASSUME TypeOK, NEW p \in Processes, NEW s \in Signals, CloseNext(p, s)
  PROVE  /\ status' \in [Processes -> {"none"} \cup Alive \cup Ended]
         /\ server' \in [Processes -> [Servers -> {"none", "listening", "closing", "closed"}]]
         /\ stop' \in [Processes -> [Signals -> 0 .. NumAddrs]]
<1> DEFINE left == {i \in Servers : i > stop[p][s] /\ server[p][i] = "listening"}
<1>1. CASE left = {}
  BY <1>1 DEF CloseNext, TypeOK, End, Ended
<1>2. CASE left # {}
  <2>1. PICK i \in left : /\ server' = [server EXCEPT ![p][i] = "closing"]
                          /\ stop' = [stop EXCEPT ![p][s] = i]
                          /\ UNCHANGED status
    BY <1>2 DEF CloseNext
  <2>2. i \in Servers /\ i \in 0 .. NumAddrs
    BY WorkersAssumption DEF Servers
  <2> QED
    BY <2>1, <2>2 DEF TypeOK
<1> QED
  BY <1>1, <1>2

LEMMA TypeStep == TypeOK /\ [Next]_vars => TypeOK'
<1> SUFFICES ASSUME TypeOK, [Next]_vars PROVE TypeOK'
  OBVIOUS
<1> USE DEF TypeOK
<1>1. CASE Fork
  BY <1>1 DEF Fork, Alive
<1>2. CASE PrimaryEnds
  BY <1>2 DEF PrimaryEnds, End, Ended
<1>3. ASSUME NEW s \in Signals, Forward(s) PROVE TypeOK'
  BY <1>3 DEF Forward, Deliver
<1>4. ASSUME NEW p \in Processes, NEW s \in Signals, StopBegin(p, s) PROVE TypeOK'
  BY <1>4, CloseNextType DEF StopBegin, Deliver
<1>5. ASSUME NEW p \in Processes, NEW s \in Signals, StopResume(p, s) PROVE TypeOK'
  BY <1>5, CloseNextType DEF StopResume
<1>6. ASSUME NEW p \in Processes, NEW s \in Signals, Kill(p, s) PROVE TypeOK'
  BY <1>6 DEF Kill, End, Ended
<1>7. ASSUME NEW s \in Signals, NEW to \in SUBSET Processes, Send(to, s) PROVE TypeOK'
  <2>1. sent' \in Seq(SUBSET Processes) /\ Len(sent') = Len(sent) + 1
    BY <1>7, AppendProperties DEF Send
  <2>2. Len(sent) \in Nat /\ Len(sent') <= MaxSignals
    BY <1>7, <2>1, LenProperties, WorkersAssumption DEF Send
  <2> QED
    BY <1>7, <2>1, <2>2 DEF Send
<1>8. ASSUME NEW p \in Processes, Listens(p) \/ Started(p) \/ Fails(p) \/ Orphaned(p)
      PROVE  TypeOK'
  <2>1. CASE Started(p)
    BY <2>1 DEF Started, End, Alive
  <2>4. CASE Listens(p)
    BY <2>4 DEF Listens
  <2>2. CASE Fails(p)
    BY <2>2 DEF Fails, End, Ended
  <2>3. CASE Orphaned(p)
    BY <2>3 DEF Orphaned, End, Ended
  <2> QED
    BY <1>8, <2>1, <2>2, <2>3, <2>4
<1>9. ASSUME NEW p \in Processes, NEW i \in Servers,
             ServerCloses(p, i) \/ LateConnection(p, i) \/ LateEnds(p, i)
      PROVE  TypeOK'
  <2>1. CASE ServerCloses(p, i)
    BY <2>1 DEF ServerCloses
  <2>2. CASE LateConnection(p, i)
    BY <2>2 DEF LateConnection
  <2>3. CASE LateEnds(p, i)
    BY <2>3 DEF LateEnds
  <2> QED
    BY <1>9, <2>1, <2>2, <2>3
<1>10. CASE UNCHANGED vars
  BY <1>10 DEF vars
<1>11. \A p \in Everyone : {p} \in SUBSET Processes
  BY DEF Everyone
<1> QED
  BY <1>1, <1>2, <1>3, <1>4, <1>5, <1>6, <1>7, <1>8, <1>9, <1>10, <1>11 DEF Next, Everyone

\* The processes, their servers, handlers and signals keep their types, whatever the
\* order of signals, starts, failures and closes.
THEOREM TypeCorrect == Spec => []TypeOK
<1> QED
  BY TypeInit, TypeStep, PTL DEF Spec

\* Until the primary forks them, there are no workers.
Unforked == IsPrimary /\ status[Main] = "starting" => \A w \in workers : status[w] = "none"

LEMMA UnforkedInit == Init => Unforked
BY WorkersAssumption DEF Init, Unforked, Processes

\* A process that is not there yet does nothing, and nobody starts for a second time.
LEMMA UnforkedStep == TypeOK /\ Unforked /\ [Next]_vars => Unforked'
<1> SUFFICES ASSUME TypeOK, Unforked, [Next]_vars,
                    IsPrimary', status'[Main] = "starting", NEW w \in workers'
             PROVE  status'[w] = "none"
  BY DEF Unforked
<1> USE DEF TypeOK
<1>1. workers' = workers /\ Main \in Processes /\ w \in Processes /\ w # Main
  <2>1. workers' = workers
    BY DEF Next, Fork, PrimaryEnds, Forward, StopBegin, StopResume, Kill, Send, Listens,
           Started, Fails, Orphaned, ServerCloses, LateConnection, LateEnds, vars
  <2> QED
    BY <2>1, WorkersAssumption DEF Processes
<1>2. CASE UNCHANGED status
  BY <1>1, <1>2 DEF Unforked, IsPrimary
<1>3. ASSUME NEW p \in Processes, NEW how \in Ended \cup {"serving"},
             status' = [status EXCEPT ![p] = how], status[p] # "none"
      PROVE  status'[w] = "none"
  BY <1>1, <1>3 DEF Unforked, IsPrimary, Ended
<1>4. CASE Fork \/ PrimaryEnds
  BY <1>1, <1>4 DEF Fork, PrimaryEnds, End
<1>5. ASSUME NEW p \in Processes, NEW s \in Signals, StopBegin(p, s) \/ StopResume(p, s)
      PROVE  status'[w] = "none"
  <2>1. status[p] = "serving" /\ CloseNext(p, s)
    BY <1>5 DEF StopBegin, StopResume
  <2>2. status' = [status EXCEPT ![p] = "stopped"] \/ UNCHANGED status
    BY <2>1 DEF CloseNext, End
  <2> QED
    BY <1>2, <1>3, <2>1, <2>2 DEF Ended
<1>6. ASSUME NEW p \in Processes, NEW s \in Signals, Kill(p, s) PROVE status'[w] = "none"
  BY <1>3, <1>6 DEF Kill, End, Live, Alive, Ended
<1>7. ASSUME NEW p \in Processes, Started(p) \/ Fails(p) \/ Orphaned(p)
      PROVE  status'[w] = "none"
  BY <1>3, <1>7 DEF Started, Fails, Orphaned, Starting, End, Live, Alive, Ended
<1>8. CASE \/ \E s \in Signals : Forward(s) \/ \E to : Send(to, s)
           \/ \E p \in Processes, i \in Servers :
                ServerCloses(p, i) \/ LateConnection(p, i) \/ LateEnds(p, i)
           \/ \E p \in Processes : Listens(p)
           \/ UNCHANGED vars
  BY <1>2, <1>8 DEF Forward, Send, Listens, ServerCloses, LateConnection, LateEnds, vars
<1> QED
  BY <1>4, <1>5, <1>6, <1>7, <1>8 DEF Next

-----------------------------------------------------------------------------
(***************************************************************************)
(* A process exits with its servers closed.                                *)
(***************************************************************************)
\* Before a process serves it has no handler, and stops nothing.
Fresh(p) ==
  status[p] \in {"none", "starting"} =>
    /\ armed[p] = {}
    /\ \A s \in Signals : stop[p][s] = 0

\* As long as a handler is left, at most one stop() has begun: the servers before the one
\* it awaits are closed, those behind it listen.
Orderly(p) ==
  armed[p] # {} =>
    /\ status[p] = "stopped" => \A i \in Servers : server[p][i] = "closed"
    /\ status[p] = "serving" =>
         /\ armed[p] = Signals => \A i \in Servers : server[p][i] = "listening"
         /\ \A s \in armed[p] : stop[p][s] = 0
         /\ \A s \in Signals \ armed[p] :
              /\ stop[p][s] \in Servers
              /\ \A i \in Servers :
                   /\ i < stop[p][s] => server[p][i] = "closed"
                   /\ i > stop[p][s] => server[p][i] = "listening"

\* A process that serves has all its servers, and a stop() leaves none listening behind it,
\* also when another one runs ahead of it.
Passed(p) ==
  /\ status[p] \in {"serving", "stopped"} => \A i \in Servers : server[p][i] # "none"
  /\ \A s \in Signals, i \in Servers : i <= stop[p][s] => server[p][i] # "listening"
  /\ status[p] = "stopped" => \A i \in Servers : server[p][i] # "listening"

Tidy(p) == Fresh(p) /\ Orderly(p) /\ Passed(p)

ExitInv == TypeOK /\ Unforked /\ \A p \in Processes : Tidy(p)

LEMMA ExitInit == Init => ExitInv
BY TypeInit, UnforkedInit DEF Init, ExitInv, Tidy, Fresh, Orderly, Passed

\* A process of which nothing but the pending signals and the late connections changes,
\* or which ends in another way than at the end of stop(), keeps the invariant.
LEMMA ExitFrame ==
  ASSUME ExitInv, NEW p \in Processes,
         armed'[p] = armed[p], server'[p] = server[p], stop'[p] = stop[p],
         status'[p] = status[p] \/ status'[p] \in (Ended \ {"stopped"}) \cup {"primary"}
  PROVE  Tidy(p)'
<1>1. Fresh(p)' /\ Orderly(p)'
  BY DEF ExitInv, Tidy, Fresh, Orderly, Ended
<1>2. Passed(p)'
  BY DEF ExitInv, Tidy, Passed, Ended
<1> QED
  BY <1>1, <1>2 DEF Tidy

\* A step of a stop() closes the first server that listens behind the one it awaited, so it
\* leaves none behind it; when it finds none, none of the process listens.
LEMMA ExitPasses ==
  ASSUME ExitInv, NEW p \in Processes, NEW s \in Signals,
         status[p] = "serving", CloseNext(p, s)
  PROVE  Passed(p)'
<1> USE DEF ExitInv, TypeOK
<1> DEFINE now == stop[p][s]
           left == {i \in Servers : i > now /\ server[p][i] = "listening"}
<1>1. /\ \A i \in Servers : server[p][i] # "none"
      /\ \A t \in Signals, i \in Servers : i <= stop[p][t] => server[p][i] # "listening"
  BY DEF Tidy, Passed
<1>2. \A i \in Servers : i <= now \/ i > now
  BY WorkersAssumption DEF Servers
<1>3. \A i \in Servers \ left : server[p][i] # "listening"
  BY <1>1, <1>2
<1>4. CASE left = {}
  <2>1. status' = [status EXCEPT ![p] = "stopped"] /\ UNCHANGED <<server, stop>>
    BY <1>4 DEF CloseNext, End
  <2> QED
    BY <1>1, <1>3, <1>4, <2>1 DEF Passed
<1>5. CASE left # {}
  <2>1. PICK i \in left : /\ \A j \in left : i <= j
                          /\ server' = [server EXCEPT ![p][i] = "closing"]
                          /\ stop' = [stop EXCEPT ![p][s] = i]
                          /\ UNCHANGED status
    BY <1>5 DEF CloseNext
  <2>2. \A j \in Servers : j <= i => j = i \/ j \notin left
    <3>1. \A j \in Servers : j <= i /\ i <= j => j = i
      BY WorkersAssumption DEF Servers
    <3> QED
      BY <2>1, <3>1
  <2>3. /\ stop'[p][s] = i /\ \A t \in Signals : t # s => stop'[p][t] = stop[p][t]
        /\ server'[p][i] = "closing"
        /\ \A j \in Servers : j # i => server'[p][j] = server[p][j]
        /\ status'[p] = "serving"
    BY <2>1
  <2>4. ASSUME NEW t \in Signals, NEW j \in Servers, j <= stop'[p][t]
        PROVE  server'[p][j] # "listening"
    <3>1. CASE j = i
      BY <2>3, <3>1
    <3>2. CASE j # i /\ t # s
      BY <1>1, <2>3, <2>4, <3>2
    <3>3. CASE j # i /\ t = s
      BY <1>3, <2>2, <2>3, <2>4, <3>3
    <3> QED
      BY <3>1, <3>2, <3>3
  <2>5. \A j \in Servers : server'[p][j] # "none"
    BY <1>1, <2>3
  <2> QED
    BY <2>3, <2>4, <2>5 DEF Passed
<1> QED
  BY <1>4, <1>5

\* The first stop() of a process finds all its servers listening: it does not end at once.
LEMMA ExitStopBegin ==
  ASSUME ExitInv, NEW p \in Processes, NEW s \in Signals, StopBegin(p, s)
  PROVE  Fresh(p)' /\ Orderly(p)'
<1> USE DEF ExitInv, Tidy, TypeOK
<1>1. /\ status[p] = "serving" /\ s \in armed[p]
      /\ armed'[p] = armed[p] \ {s} /\ CloseNext(p, s)
  BY DEF StopBegin, Deliver
<1>2. status'[p] \in {"serving", "stopped"}
  BY <1>1 DEF CloseNext, End
<1>3. Fresh(p)'
  BY <1>2 DEF Fresh
<1>4. CASE armed'[p] = {}
  BY <1>3, <1>4 DEF Orderly
<1>5. CASE armed'[p] # {}
  <2>1. armed[p] = Signals /\ \A t \in Signals : t # s => armed'[p] = {t}
    BY <1>1, <1>5 DEF Signals
  <2>2. /\ \A i \in Servers : server[p][i] = "listening"
        /\ \A t \in Signals : stop[p][t] = 0
    BY <1>1, <2>1 DEF Orderly
  <2>3. 1 \in {i \in Servers : i > stop[p][s] /\ server[p][i] = "listening"}
    BY <2>2, WorkersAssumption DEF Servers
  <2>4. PICK i \in Servers : /\ \A j \in Servers : i <= j
                             /\ server' = [server EXCEPT ![p][i] = "closing"]
                             /\ stop' = [stop EXCEPT ![p][s] = i]
                             /\ UNCHANGED status
    <3>1. \A j \in Servers : j > stop[p][s] /\ server[p][j] = "listening"
      BY <2>2, WorkersAssumption DEF Servers
    <3> QED
      BY <1>1, <2>3, <3>1 DEF CloseNext
  <2>5. /\ stop'[p][s] = i /\ \A t \in Signals : t # s => stop'[p][t] = 0
        /\ \A j \in Servers : j # i => server'[p][j] = "listening"
    BY <2>2, <2>4
  <2>6. \A j \in Servers : ~(j < i)
    <3>1. \A j \in Servers : i <= j
      BY <2>4
    <3>2. \A j, k \in Servers : k <= j => ~(j < k)
      BY WorkersAssumption DEF Servers
    <3> QED
      BY <3>1, <3>2
  <2>7. status'[p] = "serving" /\ armed'[p] # Signals
    BY <1>1, <2>4
  <2>8. \A t \in Signals \ armed'[p] : t = s
    BY <2>1, <1>1
  <2>9. \A j \in Servers : j > i => j # i
    BY WorkersAssumption DEF Servers
  <2> QED
    <3>1. \A t \in armed'[p] : t \in Signals /\ t # s /\ stop'[p][t] = 0
      BY <1>1, <2>5
    <3>2. \A t \in Signals \ armed'[p] :
            /\ stop'[p][t] \in Servers
            /\ \A j \in Servers : /\ j < stop'[p][t] => server'[p][j] = "closed"
                                  /\ j > stop'[p][t] => server'[p][j] = "listening"
      BY <2>4, <2>5, <2>6, <2>8, <2>9
    <3> QED
      BY <1>3, <2>7, <3>1, <3>2 DEF Orderly
<1> QED
  BY <1>3, <1>4, <1>5

\* A stop() that is the only one ends when no server is left behind the one it awaited.
LEMMA ExitStopResume ==
  ASSUME ExitInv, NEW p \in Processes, NEW s \in Signals, StopResume(p, s)
  PROVE  Fresh(p)' /\ Orderly(p)'
<1> USE DEF ExitInv, Tidy, TypeOK
<1>1. /\ status[p] = "serving" /\ stop[p][s] # 0
      /\ server[p][stop[p][s]] = "closed"
      /\ armed'[p] = armed[p] /\ CloseNext(p, s)
  BY DEF StopResume
<1>2. status'[p] \in {"serving", "stopped"}
  BY <1>1 DEF CloseNext, End
<1>3. Fresh(p)'
  BY <1>2 DEF Fresh
<1>4. CASE armed[p] = {}
  BY <1>1, <1>3, <1>4 DEF Orderly
<1>5. CASE armed[p] # {}
  <2> DEFINE now == stop[p][s]
             left == {i \in Servers : i > now /\ server[p][i] = "listening"}
  <2>1. /\ s \notin armed[p] /\ armed[p] # Signals
        /\ \A t \in armed[p] : stop[p][t] = 0
        /\ now \in Servers
        /\ \A i \in Servers : /\ i < now => server[p][i] = "closed"
                              /\ i > now => server[p][i] = "listening"
    BY <1>1, <1>5 DEF Orderly
  <2>2. \A t \in Signals \ armed[p] : t = s
    BY <1>5, <2>1 DEF Signals
  <2>3. \A i \in Servers : i <= now => server[p][i] = "closed"
    <3>1. \A i \in Servers : i <= now => i < now \/ i = now
      BY <2>1, WorkersAssumption DEF Servers
    <3> QED
      BY <1>1, <2>1, <3>1
  <2>4. CASE left = {}
    <3>1. status' = [status EXCEPT ![p] = "stopped"] /\ UNCHANGED <<server, stop>>
      BY <1>1, <2>4 DEF CloseNext, End
    <3>2. \A i \in Servers : i <= now
      <4>1. \A i \in Servers : i > now \/ i <= now
        BY <2>1, WorkersAssumption DEF Servers
      <4> QED
        BY <2>1, <2>4, <4>1
    <3> QED
      BY <1>3, <2>3, <3>1, <3>2 DEF Orderly
  <2>5. CASE left # {}
    <3>1. PICK i \in left : /\ \A j \in left : i <= j
                            /\ server' = [server EXCEPT ![p][i] = "closing"]
                            /\ stop' = [stop EXCEPT ![p][s] = i]
                            /\ UNCHANGED status
      BY <1>1, <2>5 DEF CloseNext
    <3>2. i \in Servers /\ i > now
      OBVIOUS
    <3>3. \A j \in Servers : j < i => j <= now
      <4>1. \A j \in Servers : j > now => j \in left
        BY <2>1
      <4>2. \A j \in Servers : i <= j => ~(j < i)
        BY <3>2, WorkersAssumption DEF Servers
      <4>3. \A j \in Servers : j > now \/ j <= now
        BY <2>1, WorkersAssumption DEF Servers
      <4> QED
        BY <3>1, <4>1, <4>2, <4>3
    <3>4. \A j \in Servers : /\ j <= now => j # i
                             /\ j > i => j # i /\ j > now
      BY <2>1, <3>2, WorkersAssumption DEF Servers
    <3>5. /\ stop'[p][s] = i /\ \A t \in Signals : t # s => stop'[p][t] = stop[p][t]
          /\ \A j \in Servers : j # i => server'[p][j] = server[p][j]
      BY <3>1
    <3>6. \A j \in Servers : /\ j < i => server'[p][j] = "closed"
                             /\ j > i => server'[p][j] = "listening"
      BY <2>1, <2>3, <3>3, <3>4, <3>5
    <3>7. \A t \in armed[p] : t \in Signals /\ t # s
      BY <2>1
    <3> QED
      BY <1>1, <1>3, <2>1, <2>2, <3>1, <3>2, <3>5, <3>6, <3>7 DEF Orderly
  <2> QED
    BY <2>4, <2>5
<1> QED
  BY <1>4, <1>5

LEMMA ExitServerCloses ==
  ASSUME ExitInv, NEW p \in Processes, NEW i \in Servers, ServerCloses(p, i)
  PROVE  Tidy(p)'
<1> USE DEF ExitInv, Tidy, TypeOK
<1>1. /\ status[p] = "serving" /\ server[p][i] = "closing"
      /\ UNCHANGED <<status, armed, stop>>
      /\ server'[p][i] = "closed" /\ \A j \in Servers : j # i => server'[p][j] = server[p][j]
  BY DEF ServerCloses
<1>2. Fresh(p)'
  BY <1>1 DEF Fresh
<1>3. armed[p] # {} => armed[p] # Signals
  BY <1>1 DEF Orderly
<1>4. ASSUME armed[p] # {}, NEW t \in Signals \ armed[p], NEW j \in Servers
      PROVE  /\ j < stop[p][t] => server'[p][j] = "closed"
             /\ j > stop[p][t] => server'[p][j] = "listening"
  <2>1. /\ j < stop[p][t] => server[p][j] = "closed"
        /\ j > stop[p][t] => server[p][j] = "listening"
    BY <1>1, <1>4 DEF Orderly
  <2> QED
    BY <1>1, <2>1
<1>5. Passed(p)'
  <2>1. \A j \in Servers : server'[p][j] = server[p][j] \/ server'[p][j] = "closed"
    BY <1>1
  <2> QED
    BY <1>1, <2>1 DEF Passed
<1>6. Orderly(p)'
  BY <1>1, <1>2, <1>3, <1>4 DEF Orderly
<1> QED
  BY <1>2, <1>5, <1>6

\* The other processes are left alone by what happens in one.
LEMMA ExitOthers ==
  ASSUME TypeOK, NEW q \in Processes, NEW p \in Processes \ {q}, NEW s \in Signals,
         NEW i \in Servers,
         \/ StopBegin(q, s) \/ StopResume(q, s) \/ Kill(q, s)
         \/ Listens(q) \/ Started(q) \/ Fails(q) \/ Orphaned(q)
         \/ ServerCloses(q, i) \/ LateConnection(q, i) \/ LateEnds(q, i)
  PROVE  /\ armed'[p] = armed[p] /\ server'[p] = server[p] /\ stop'[p] = stop[p]
         /\ status'[p] = status[p]
<1> USE DEF TypeOK
<1>1. ASSUME CloseNext(q, s)
      PROVE  server'[p] = server[p] /\ stop'[p] = stop[p] /\ status'[p] = status[p]
  BY <1>1 DEF CloseNext, End
<1>2. CASE StopBegin(q, s)
  BY <1>1, <1>2 DEF StopBegin, Deliver
<1>3. CASE StopResume(q, s)
  BY <1>1, <1>3 DEF StopResume
<1>4. CASE Kill(q, s) \/ Fails(q) \/ Orphaned(q)
  BY <1>4 DEF Kill, Fails, Orphaned, End
<1>5. CASE Listens(q) \/ Started(q)
  BY <1>5 DEF Listens, Started, End
<1>6. CASE ServerCloses(q, i) \/ LateConnection(q, i) \/ LateEnds(q, i)
  BY <1>6 DEF ServerCloses, LateConnection, LateEnds
<1> QED
  BY <1>2, <1>3, <1>4, <1>5, <1>6

\* The actions of one process keep its own invariant.
LEMMA ExitOwn ==
  ASSUME ExitInv, NEW p \in Processes, NEW s \in Signals, NEW i \in Servers,
         \/ StopBegin(p, s) \/ StopResume(p, s) \/ Kill(p, s)
         \/ Listens(p) \/ Started(p) \/ Fails(p) \/ Orphaned(p)
         \/ ServerCloses(p, i) \/ LateConnection(p, i) \/ LateEnds(p, i)
  PROVE  Tidy(p)'
<1>1. CASE StopBegin(p, s)
  BY <1>1, ExitStopBegin, ExitPasses DEF StopBegin, Tidy
<1>2. CASE StopResume(p, s)
  BY <1>2, ExitStopResume, ExitPasses DEF StopResume, Tidy
<1>3. CASE Kill(p, s) \/ Fails(p) \/ Orphaned(p)
  <2>1. /\ armed'[p] = armed[p] /\ server'[p] = server[p] /\ stop'[p] = stop[p]
        /\ status'[p] \in {"killed", "failed", "orphaned"}
    BY <1>3 DEF Kill, Fails, Orphaned, End, ExitInv, TypeOK
  <2> QED
    BY <2>1, ExitFrame DEF Ended
<1>4. CASE Started(p)
  <2>1. /\ status'[p] = "serving" /\ armed'[p] = Signals /\ stop' = stop
        /\ \A j \in Servers : server'[p][j] = "listening"
    BY <1>4 DEF Started, End, ExitInv, TypeOK
  <2>2. \A t \in Signals : stop[p][t] = 0
    BY <1>4 DEF Started, Starting, ExitInv, Tidy, Fresh
  <2>3. \A j \in Servers : ~(j <= 0)
    BY WorkersAssumption DEF Servers
  <2>4. Fresh(p)' /\ Orderly(p)'
    BY <2>1, <2>2 DEF Fresh, Orderly
  <2>5. Passed(p)'
    BY <2>1, <2>2, <2>3 DEF Passed
  <2> QED
    BY <2>4, <2>5 DEF Tidy
<1>7. CASE Listens(p)
  <2>1. status[p] = "starting" /\ UNCHANGED <<status, armed, stop>>
    BY <1>7 DEF Listens, Starting
  <2>2. armed[p] = {} /\ \A t \in Signals : stop[p][t] = 0
    BY <2>1 DEF ExitInv, Tidy, Fresh
  <2>3. \A j \in Servers : ~(j <= 0)
    BY WorkersAssumption DEF Servers
  <2>4. Fresh(p)' /\ Orderly(p)'
    BY <2>1, <2>2 DEF Fresh, Orderly
  <2>5. Passed(p)'
    BY <2>1, <2>2, <2>3 DEF Passed
  <2> QED
    BY <2>4, <2>5 DEF Tidy
<1>5. CASE ServerCloses(p, i)
  BY <1>5, ExitServerCloses
<1>6. CASE LateConnection(p, i) \/ LateEnds(p, i)
  BY <1>6, ExitFrame DEF LateConnection, LateEnds
<1> QED
  BY <1>1, <1>2, <1>3, <1>4, <1>5, <1>6, <1>7

LEMMA ExitStep == ExitInv /\ [Next]_vars => ExitInv'
<1> SUFFICES ASSUME ExitInv, [Next]_vars, NEW p \in Processes
             PROVE  Tidy(p)'
  BY TypeStep, UnforkedStep DEF ExitInv
<1> USE DEF ExitInv, TypeOK
<1>1. CASE Fork
  <2>1. /\ UNCHANGED <<server, stop>>
        /\ p = Main => status'[p] = "primary"
        /\ p # Main => armed'[p] = armed[p]
        /\ p # Main => status'[p] = status[p] \/ (p \in workers /\ status'[p] = "starting")
    BY <1>1, WorkersAssumption DEF Fork
  <2>2. CASE p = Main
    BY <2>1, <2>2 DEF Tidy, Fresh, Orderly, Passed
  <2>3. CASE p # Main /\ status'[p] = status[p]
    BY <2>1, <2>3, ExitFrame
  <2>4. CASE p # Main /\ p \in workers /\ status'[p] = "starting"
    <3>1. status[p] = "none"
      BY <1>1, <2>4 DEF Fork, Unforked
    <3> QED
      BY <2>1, <2>4, <3>1 DEF Tidy, Fresh, Orderly, Passed
  <2> QED
    BY <2>1, <2>2, <2>3, <2>4
<1>2. CASE PrimaryEnds
  <2>1. /\ UNCHANGED <<armed, server, stop>>
        /\ status'[p] = status[p] \/ status'[p] = "idle"
    BY <1>2 DEF PrimaryEnds, End
  <2> QED
    BY <2>1, ExitFrame DEF Ended
<1>3. ASSUME NEW s \in Signals, Forward(s) PROVE Tidy(p)'
  <2>1. UNCHANGED <<status, server, stop>> /\ status[Main] = "primary"
        /\ (p # Main => armed'[p] = armed[p])
    BY <1>3 DEF Forward, Deliver
  <2>2. CASE p = Main
    BY <2>1, <2>2 DEF Tidy, Fresh, Orderly, Passed
  <2>3. CASE p # Main
    BY <2>1, <2>3, ExitFrame
  <2> QED
    BY <2>2, <2>3
<1>4. ASSUME NEW q \in Processes, NEW s \in Signals, NEW i \in Servers,
             \/ StopBegin(q, s) \/ StopResume(q, s) \/ Kill(q, s)
             \/ Listens(q) \/ Started(q) \/ Fails(q) \/ Orphaned(q)
             \/ ServerCloses(q, i) \/ LateConnection(q, i) \/ LateEnds(q, i)
      PROVE  Tidy(p)'
  <2>1. CASE p = q
    BY <1>4, <2>1, ExitOwn
  <2>2. CASE p # q
    <3>1. /\ armed'[p] = armed[p] /\ server'[p] = server[p] /\ stop'[p] = stop[p]
          /\ status'[p] = status[p]
      BY <1>4, <2>2, ExitOthers
    <3> QED
      BY <3>1, ExitFrame
  <2> QED
    BY <2>1, <2>2
<1>5. ASSUME NEW s \in Signals, NEW to, Send(to, s) PROVE Tidy(p)'
  BY <1>5, ExitFrame DEF Send
<1>6. CASE UNCHANGED vars
  BY <1>6, ExitFrame DEF vars
<1>7. "SIGINT" \in Signals /\ 1 \in Servers
  BY WorkersAssumption DEF Signals, Servers
<1> QED
  BY <1>1, <1>2, <1>3, <1>4, <1>5, <1>6, <1>7 DEF Next

\* However many servers a process has and whenever they close, it exits at the end of
\* stop() only when none of them accepts, and with all of them closed if it got one kind
\* of signal (lines 331 to 335).
THEOREM ExitsClosed == Spec => []ExitAfterClose
<1>1. ExitInv => ExitAfterClose
  <2> SUFFICES ASSUME ExitInv, NEW p \in Processes, status[p] = "stopped"
               PROVE  /\ \A i \in Servers : server[p][i] \in {"closing", "closed"}
                      /\ armed[p] # {} => \A i \in Servers : server[p][i] = "closed"
    BY DEF ExitAfterClose
  <2>1. \A i \in Servers : server[p][i] \in {"closing", "closed"}
    BY DEF ExitInv, TypeOK, Tidy, Passed
  <2>2. armed[p] # {} => \A i \in Servers : server[p][i] = "closed"
    BY DEF ExitInv, Tidy, Orderly
  <2> QED
    BY <2>1, <2>2
<1> QED
  BY <1>1, ExitInit, ExitStep, PTL DEF Spec

-----------------------------------------------------------------------------
(***************************************************************************)
(* One signal to the main process cuts nobody off.                         *)
(***************************************************************************)
\* No signal was sent yet, or one to the main process.
Lone == sent = << >> \/ sent = <<{Main}>>

\* The workers of a primary do not outlive it, and it is no server itself.
Together ==
  IsPrimary => /\ status[Main] # "serving"
               /\ ~Live(Main) => \A w \in workers : ~Live(w)

\* The signal is pending in the main process or, after that, once in each other.
OneSignal ==
  /\ sent = << >> => \A p \in Processes : pending[p] = {}
  /\ pending[Main] # {} => \A p \in Processes \ {Main} : pending[p] = {}
  /\ \A s, t \in pending[Main] : s = t

\* A process with handlers has one for what is pending, and has them all as long as
\* the main process did not get the signal.
Handled(p) ==
  status[p] \in {"primary", "serving"} =>
    /\ pending[p] \subseteq armed[p]
    /\ sent = << >> \/ pending[Main] # {} => armed[p] = Signals

\* No worker is cut off by the end of its primary, and no process that had handlers at all.
Spared(p) == status[p] # "orphaned" /\ (status[p] = "killed" => armed[p] = {})

GracefulInv ==
  Lone => Together /\ OneSignal /\ \A p \in Processes : Handled(p) /\ Spared(p)

LEMMA GracefulInit == Init => GracefulInv
BY WorkersAssumption
   DEF Init, GracefulInv, Together, OneSignal, Handled, Spared, Live, Alive, Processes, IsPrimary

\* The signals sent only grow: nobody sends a signal back.
LEMMA LoneBefore ==
  ASSUME TypeOK, Lone', UNCHANGED sent \/ \E to \in SUBSET Processes : sent' = Append(sent, to)
  PROVE  Lone /\ (sent' = sent \/ (sent = << >> /\ sent' = <<{Main}>>))
<1>1. CASE UNCHANGED sent
  BY <1>1 DEF Lone
<1>2. ASSUME NEW to \in SUBSET Processes, sent' = Append(sent, to)
      PROVE  sent = << >> /\ sent' = <<{Main}>>
  <2>1. sent \in Seq(SUBSET Processes) /\ {Main} \in SUBSET Processes
    BY DEF TypeOK, Processes
  <2>2. Len(sent') = Len(sent) + 1 /\ Len(sent) \in Nat
    BY <1>2, <2>1, AppendProperties, LenProperties
  <2>3. Len(<< >>) = 0 /\ Len(<<{Main}>>) = 1
    OBVIOUS
  <2>4. sent' = <<{Main}>> /\ Len(sent) = 0
    BY <2>2, <2>3 DEF Lone
  <2> QED
    BY <2>1, <2>4, EmptySeq
<1> QED
  BY <1>1, <1>2 DEF Lone

\* What a single process does, without the signals, the end of a primary and the start.
LEMMA GracefulQuiet ==
  ASSUME ExitInv, GracefulInv, Lone, NEW q \in Processes, NEW i \in Servers, NEW s \in Signals,
         \/ Listens(q) \/ StopResume(q, s) \/ Fails(q)
         \/ ServerCloses(q, i) \/ LateConnection(q, i) \/ LateEnds(q, i)
  PROVE  Together' /\ OneSignal' /\ \A p \in Processes : Handled(p)' /\ Spared(p)'
<1> USE DEF ExitInv, TypeOK
<1>1. /\ UNCHANGED <<workers, sent, pending, armed>>
      /\ \A p \in Processes : status'[p] = status[p] \/ (p = q /\ status'[p] \in {"failed", "stopped"})
      /\ status'[q] # status[q] => ~(q = Main /\ IsPrimary)
  <2>1. CASE StopResume(q, s)
    BY <2>1 DEF StopResume, CloseNext, End, GracefulInv, Together
  <2>2. CASE Fails(q)
    BY <2>2 DEF Fails, End, Starting, GracefulInv, Together
  <2>3. CASE Listens(q) \/ ServerCloses(q, i) \/ LateConnection(q, i) \/ LateEnds(q, i)
    BY <2>3 DEF Listens, ServerCloses, LateConnection, LateEnds
  <2> QED
    BY <2>1, <2>2, <2>3
<1>2. Together'
  <2>1. workers \subseteq Processes /\ Main \in Processes
    BY WorkersAssumption DEF Processes
  <2> QED
    BY <1>1, <2>1 DEF GracefulInv, Together, IsPrimary, Live, Alive
<1>3. OneSignal'
  BY <1>1 DEF GracefulInv, OneSignal
<1>4. ASSUME NEW p \in Processes PROVE Handled(p)' /\ Spared(p)'
  BY <1>1 DEF GracefulInv, Handled, Spared
<1> QED
  BY <1>2, <1>3, <1>4
\* The main process sends its signal on: the others have a handler for it, or are starting.
LEMMA GracefulForward ==
  ASSUME ExitInv, GracefulInv, Lone, NEW s \in Signals, Forward(s)
  PROVE  Together' /\ OneSignal' /\ \A p \in Processes : Handled(p)' /\ Spared(p)'
<1> USE DEF ExitInv, TypeOK
<1>1. /\ UNCHANGED <<workers, status, server, sent>> /\ s \in pending[Main] \cap armed[Main]
      /\ Main \in Processes /\ pending[Main] = {s}
  BY DEF Forward, Deliver, GracefulInv, OneSignal, Processes
<1>2. /\ pending'[Main] = {} /\ armed'[Main] = armed[Main] \ {s}
      /\ \A p \in Processes \ {Main} :
           armed'[p] = armed[p] /\ pending'[p] \in {pending[p], pending[p] \cup {s}}
  BY <1>1 DEF Forward, Deliver
<1>3. sent # << >>
  BY <1>1 DEF GracefulInv, OneSignal
<1>4. Together'
  BY <1>1 DEF GracefulInv, Together, IsPrimary, Live
<1>5. OneSignal'
  BY <1>1, <1>2, <1>3 DEF OneSignal
<1>6. ASSUME NEW p \in Processes PROVE Handled(p)' /\ Spared(p)'
  <2>1. Spared(p)'
    <3>1. status[Main] = "primary"
      BY DEF Forward
    <3> QED
      BY <1>1, <1>2, <3>1 DEF GracefulInv, Spared
  <2>2. status[p] \in {"primary", "serving"} => armed[p] = Signals
    BY <1>1 DEF GracefulInv, Handled
  <2>3. status[p] \in {"primary", "serving"} => pending'[p] \subseteq armed'[p]
    BY <1>1, <1>2, <2>2
  <2> QED
    BY <1>1, <1>2, <1>3, <2>1, <2>3 DEF Handled
<1> QED
  BY <1>4, <1>5, <1>6

\* The stop() of a process begins.
LEMMA GracefulStopBegin ==
  ASSUME ExitInv, GracefulInv, Lone, NEW q \in Processes, NEW s \in Signals, StopBegin(q, s)
  PROVE  Together' /\ OneSignal' /\ \A p \in Processes : Handled(p)' /\ Spared(p)'
<1> USE DEF ExitInv, TypeOK
<1>1. /\ status[q] = "serving" /\ s \in pending[q] /\ UNCHANGED <<workers, sent>>
      /\ armed' = [armed EXCEPT ![q] = @ \ {s}] /\ pending' = [pending EXCEPT ![q] = @ \ {s}]
  BY DEF StopBegin, Deliver
<1>2. \A p \in Processes : status'[p] = status[p] \/ (p = q /\ status'[p] = "stopped")
  BY <1>1 DEF StopBegin, CloseNext, End
<1>3. sent # << >>
  BY <1>1 DEF GracefulInv, OneSignal
<1>4. q # Main => pending[Main] = {}
  BY <1>1 DEF GracefulInv, OneSignal
<1>5. Main \in Processes /\ workers \subseteq Processes /\ pending'[Main] = {}
  <2>1. Main \in Processes /\ workers \subseteq Processes
    BY WorkersAssumption DEF Processes
  <2>2. CASE q = Main
    BY <1>1, <2>1, <2>2 DEF GracefulInv, OneSignal
  <2> QED
    BY <1>1, <1>4, <2>1, <2>2
<1>6. Together'
  BY <1>1, <1>2, <1>5 DEF GracefulInv, Together, IsPrimary, Live, Alive
<1>7. OneSignal'
  BY <1>1, <1>3, <1>5 DEF OneSignal
<1>8. ASSUME NEW p \in Processes PROVE Handled(p)' /\ Spared(p)'
  <2>1. Spared(p)'
    BY <1>1, <1>2 DEF GracefulInv, Spared
  <2>2. status[p] \in {"primary", "serving"} => pending'[p] \subseteq armed'[p]
    BY <1>1 DEF GracefulInv, Handled
  <2> QED
    BY <1>1, <1>2, <1>3, <1>5, <2>1, <2>2 DEF Handled
<1> QED
  BY <1>6, <1>7, <1>8

\* A signal cuts a process off only before start() has returned.
LEMMA GracefulKill ==
  ASSUME ExitInv, GracefulInv, Lone, NEW q \in Processes, NEW s \in Signals, Kill(q, s)
  PROVE  Together' /\ OneSignal' /\ \A p \in Processes : Handled(p)' /\ Spared(p)'
<1> USE DEF ExitInv, TypeOK
<1>1. /\ Live(q) /\ s \in pending[q] /\ s \notin armed[q]
      /\ status' = [status EXCEPT ![q] = "killed"]
      /\ UNCHANGED <<workers, server, armed, pending, sent>>
  BY DEF Kill, End
<1>2. status[q] = "starting"
  BY <1>1 DEF GracefulInv, Handled, Live, Alive
<1>3. armed[q] = {}
  BY <1>2 DEF Tidy, Fresh
<1>4. Together'
  <2>1. workers \subseteq Processes /\ Main \in Processes /\ Main \notin workers
    BY WorkersAssumption DEF Processes
  <2>2. q = Main /\ IsPrimary => \A w \in workers : status[w] = "none"
    BY <1>2 DEF Unforked
  <2> QED
    BY <1>1, <2>1, <2>2 DEF GracefulInv, Together, IsPrimary, Live, Alive
<1>5. OneSignal'
  BY <1>1 DEF GracefulInv, OneSignal
<1>6. ASSUME NEW p \in Processes PROVE Handled(p)' /\ Spared(p)'
  BY <1>1, <1>3 DEF GracefulInv, Handled, Spared
<1> QED
  BY <1>4, <1>5, <1>6

\* A process has its handlers from when it serves.
LEMMA GracefulStarted ==
  ASSUME ExitInv, GracefulInv, Lone, NEW q \in Processes, Started(q)
  PROVE  Together' /\ OneSignal' /\ \A p \in Processes : Handled(p)' /\ Spared(p)'
<1> USE DEF ExitInv, TypeOK
<1>1. /\ Starting(q) /\ status' = [status EXCEPT ![q] = "serving"]
      /\ armed' = [armed EXCEPT ![q] = Signals]
      /\ UNCHANGED <<workers, pending, sent>>
  BY DEF Started, End
<1>2. Together'
  <2>1. workers \subseteq Processes /\ Main \in Processes
    BY WorkersAssumption DEF Processes
  <2> QED
    BY <1>1, <2>1 DEF GracefulInv, Together, IsPrimary, Live, Alive, Starting
<1>3. OneSignal'
  BY <1>1 DEF GracefulInv, OneSignal
<1>4. ASSUME NEW p \in Processes PROVE Handled(p)' /\ Spared(p)'
  BY <1>1 DEF GracefulInv, Handled, Spared, Starting
<1> QED
  BY <1>2, <1>3, <1>4

\* The primary forks its workers, or ends after them.
LEMMA GracefulPrimary ==
  ASSUME ExitInv, GracefulInv, Lone, Fork \/ PrimaryEnds
  PROVE  Together' /\ OneSignal' /\ \A p \in Processes : Handled(p)' /\ Spared(p)'
<1> USE DEF ExitInv, TypeOK
<1>1. Main \in Processes /\ workers \subseteq Processes /\ Main \notin workers
  BY WorkersAssumption DEF Processes
<1>2. CASE Fork
  <2>1. /\ UNCHANGED <<workers, server, pending, sent>>
        /\ status'[Main] = "primary" /\ armed'[Main] = Signals
        /\ \A p \in Processes \ {Main} : armed'[p] = armed[p]
        /\ \A p \in Processes \ {Main} : status'[p] \in {status[p], "starting"}
    BY <1>1, <1>2 DEF Fork
  <2>2. Together'
    BY <2>1 DEF Together, Live, Alive
  <2>3. OneSignal'
    BY <2>1 DEF GracefulInv, OneSignal
  <2>4. ASSUME NEW p \in Processes PROVE Handled(p)' /\ Spared(p)'
    BY <2>1 DEF GracefulInv, Handled, Spared
  <2> QED
    BY <2>2, <2>3, <2>4
<1>3. CASE PrimaryEnds
  <2>1. /\ UNCHANGED <<workers, server, armed, pending, sent>>
        /\ status' = [status EXCEPT ![Main] = "idle"] /\ \A w \in workers : ~Live(w)
    BY <1>3 DEF PrimaryEnds, End
  <2>2. Together'
    BY <1>1, <2>1 DEF Together, Live, Alive
  <2>3. OneSignal'
    BY <2>1 DEF GracefulInv, OneSignal
  <2>4. ASSUME NEW p \in Processes PROVE Handled(p)' /\ Spared(p)'
    BY <2>1 DEF GracefulInv, Handled, Spared
  <2> QED
    BY <2>2, <2>3, <2>4
<1> QED
  BY <1>2, <1>3
\* The first signal goes to the main process alone, when all handlers are in place.
LEMMA GracefulSend ==
  ASSUME ExitInv, GracefulInv, Lone, sent = << >>, sent' = <<{Main}>>,
         NEW s \in Signals, Send({Main}, s)
  PROVE  Together' /\ OneSignal' /\ \A p \in Processes : Handled(p)' /\ Spared(p)'
<1> USE DEF ExitInv, TypeOK
<1>1. /\ UNCHANGED <<workers, status, server, armed>> /\ Main \in Processes
      /\ pending'[Main] = {s} /\ \A p \in Processes \ {Main} : pending'[p] = {}
  BY DEF Send, GracefulInv, OneSignal, Processes
<1>2. Together'
  BY <1>1 DEF GracefulInv, Together, IsPrimary, Live
<1>3. OneSignal'
  <2>1. sent' # << >>
    OBVIOUS
  <2> QED
    BY <1>1, <2>1 DEF OneSignal
<1>4. ASSUME NEW p \in Processes PROVE Handled(p)' /\ Spared(p)'
  <2>1. status[p] \in {"primary", "serving"} => armed[p] = Signals
    BY DEF GracefulInv, Handled
  <2>2. pending'[p] \subseteq Signals
    <3>1. pending'[p] = {} \/ pending'[p] = {s}
      BY <1>1
    <3> QED
      BY <3>1
  <2>3. Spared(p)'
    BY <1>1 DEF GracefulInv, Spared
  <2>4. Handled(p)'
    BY <1>1, <2>1, <2>2 DEF Handled
  <2> QED
    BY <2>3, <2>4
<1> QED
  BY <1>2, <1>3, <1>4

LEMMA GracefulStep == ExitInv /\ GracefulInv /\ [Next]_vars => GracefulInv'
<1> SUFFICES ASSUME ExitInv, GracefulInv, [Next]_vars, Lone'
             PROVE  Together' /\ OneSignal' /\ \A p \in Processes : Handled(p)' /\ Spared(p)'
  BY DEF GracefulInv
<1>1. CASE UNCHANGED sent
  <2>1. Lone
    BY <1>1 DEF Lone
  <2>2. CASE Fork \/ PrimaryEnds
    BY <2>1, <2>2, GracefulPrimary
  <2>3. ASSUME NEW s \in Signals, Forward(s)
        PROVE  Together' /\ OneSignal' /\ \A p \in Processes : Handled(p)' /\ Spared(p)'
    BY <2>1, <2>3, GracefulForward
  <2>4. ASSUME NEW q \in Processes, NEW s \in Signals,
               StopBegin(q, s) \/ StopResume(q, s) \/ Kill(q, s)
        PROVE  Together' /\ OneSignal' /\ \A p \in Processes : Handled(p)' /\ Spared(p)'
    <3>1. 1 \in Servers
      BY WorkersAssumption DEF Servers
    <3> QED
      BY <2>1, <2>4, <3>1, GracefulStopBegin, GracefulKill, GracefulQuiet
  <2>5. ASSUME NEW q \in Processes, NEW i \in Servers,
               \/ Listens(q) \/ Started(q) \/ Fails(q)
               \/ ServerCloses(q, i) \/ LateConnection(q, i) \/ LateEnds(q, i)
        PROVE  Together' /\ OneSignal' /\ \A p \in Processes : Handled(p)' /\ Spared(p)'
    <3>1. "SIGINT" \in Signals
      BY DEF Signals
    <3> QED
      BY <2>1, <2>5, <3>1, GracefulStarted, GracefulQuiet
  <2>6. ASSUME NEW q \in Processes PROVE ~Orphaned(q)
    BY <2>1 DEF GracefulInv, Together, Orphaned, IsPrimary
  <2>7. ASSUME NEW s \in Signals, NEW to \in SUBSET Processes PROVE ~Send(to, s)
    <3>1. sent \in Seq(SUBSET Processes)
      BY DEF ExitInv, TypeOK
    <3>2. Len(Append(sent, to)) = Len(sent) + 1 /\ Len(sent) \in Nat
      BY <3>1, AppendProperties, LenProperties
    <3> QED
      BY <1>1, <3>2 DEF Send
  <2>8. CASE UNCHANGED vars
    BY <2>1, <2>8
       DEF vars, GracefulInv, Together, OneSignal, Handled, Spared, IsPrimary, Live
  <2>9. Everyone \in SUBSET Processes /\ \A p \in Everyone : {p} \in SUBSET Processes
    BY DEF Everyone
  <2>10. 1 \in Servers
    BY WorkersAssumption DEF Servers
  <2> QED
    BY <2>2, <2>3, <2>4, <2>5, <2>6, <2>7, <2>8, <2>9, <2>10 DEF Next
<1>2. ASSUME NEW s \in Signals, NEW to \in SUBSET Processes, Send(to, s)
      PROVE  Together' /\ OneSignal' /\ \A p \in Processes : Handled(p)' /\ Spared(p)'
  <2>1. sent' = Append(sent, to) /\ sent \in Seq(SUBSET Processes)
    BY <1>2 DEF Send, ExitInv, TypeOK
  <2>2. sent # sent'
    BY <2>1, AppendProperties, LenProperties
  <2>3. Lone /\ sent = << >> /\ sent' = <<{Main}>>
    BY <2>1, <2>2, LoneBefore DEF ExitInv
  <2>4. to = {Main}
    <3>1. sent' = <<to>>
      BY <2>1, <2>3
    <3> QED
      BY <2>3, <3>1
  <2> QED
    BY <1>2, <2>3, <2>4, GracefulSend
<1>3. UNCHANGED sent \/ \E s \in Signals, to \in SUBSET Processes : Send(to, s)
  <2>1. Everyone \in SUBSET Processes /\ \A p \in Everyone : {p} \in SUBSET Processes
    BY DEF Everyone
  <2> QED
    BY <2>1 DEF Next, Fork, PrimaryEnds, Forward, StopBegin, StopResume, Kill, Listens,
                Started, Fails, Orphaned, ServerCloses, LateConnection, LateEnds, vars
<1> QED
  BY <1>1, <1>2, <1>3

\* However many workers and servers there are, a signal to the main process cuts off only
\* who is in start(), where line 330 has not been reached, and the primary outlives its
\* workers (lines 280 to 291 and 331 to 335).
THEOREM OneSignalIsGraceful == Spec => []SignalIsGraceful
<1>1. ExitInv /\ GracefulInv => SignalIsGraceful
  BY DEF GracefulInv, Lone, Spared, SignalIsGraceful
<1> QED
  BY <1>1, ExitInit, ExitStep, GracefulInit, GracefulStep, PTL DEF Spec
=============================================================================
