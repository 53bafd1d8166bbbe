-------------------------- MODULE PicodLifecycle_proofs --------------------------
(***************************************************************************)
(* Proofs about PicodLifecycle, for any connections and pool size, and     *)
(* about Heartbeat, for any durations, timeouts and retries: how picod     *)
(* ends, and what the Pico's watchdog makes of it when it has ended.       *)
(***************************************************************************)
EXTENDS PicodLifecycle, Heartbeat, FiniteSetTheorems, TLAPS

-----------------------------------------------------------------------------
(* Types *)

\* TypeOK in parts: where the threads are, the flags, the connections, the pool.
Places ==
    /\ main \in {"start", "await", "init", "wait", "request", "stop", "post",
                 "join", "join_web", "returned", "terminated"}
    /\ reader \in {"none", "open", "announce", "check", "select", "ended"}
    /\ web \in {"none", "start", "bound", "serving", "draining", "ended"}
    /\ port \in {"none", "open", "closed"}

Flags ==
    /\ initDone_ \in BOOLEAN /\ quitEvent \in BOOLEAN
    /\ listening \in BOOLEAN /\ is_running_ \in BOOLEAN

Connections ==
    /\ asks \in [Clients -> {"quit", "status", "stream"}]
    /\ conn \in [Clients -> Busy \cup {"none", "queued"}]

Typed == Places /\ Flags /\ Connections

PoolBound == Cardinality(Running) <= PoolSize

LEMMA TypeParts == TypeOK <=> Typed /\ PoolBound
BY DEF TypeOK, Typed, Places, Flags, Connections, PoolBound

LEMMA RunningFinite ==
    /\ IsFiniteSet(Running) /\ Cardinality(Running) \in Nat
    /\ PoolSize \in Nat \ {0}
<1>1. IsFiniteSet(Clients)
  BY LifecycleAssumption, FS_AddElement DEF Clients
<1>2. Running \subseteq Clients
  BY DEF Running
<1> QED
  BY <1>1, <1>2, LifecycleAssumption, FS_Subset, FS_CardinalityType

LEMMA TypeInit == ASSUME Init PROVE TypeOK
<1>1. Typed
  BY DEF Init, Typed, Places, Flags, Connections
<1>2. Running = {}
  BY DEF Init, Running, Busy
<1>3. PoolBound
  BY <1>2, RunningFinite, FS_EmptySet DEF PoolBound
<1> QED
  BY <1>1, <1>3, TypeParts

LEMMA SelfIsClient == Self \in Clients /\ Browsers \subseteq Clients
BY DEF Clients

LEMMA PlacesStep == ASSUME Places, Next PROVE Places'
<1>1. CASE Main
  BY <1>1 DEF Places, Main, ConfigRejected, StartReader, AwaitInit, InitPico, MonitorWakes,
     MonitorRequests, Stop, PostQuit, PostTimesOut, JoinReader, JoinWeb, webVars
<1>2. CASE ReaderThread
  BY <1>2 DEF Places, ReaderThread, OpenPort, Announce, CheckQuit, Select, webVars
<1>3. CASE WebThread
  BY <1>3 DEF Places, WebThread, Bind, BeginServing, EndServing, DrainPool, webVars
<1>4. ASSUME NEW c \in Clients, Serve(c) \/ Handle(c) PROVE Places'
  BY <1>4 DEF Places, Serve, Handle, QuitStops, QuitExchanges, QuitCloses, QuitSets, AnswerStatus, StreamStops, pvars
<1>5. ASSUME NEW b \in Browsers, Connect(b) \/ BrowserLeaves(b) PROVE Places'
  BY <1>5 DEF Places, Connect, BrowserLeaves, pvars
<1>6. CASE QuitSignal
  BY <1>6 DEF Places, QuitSignal, webVars
<1> QED
  BY <1>1, <1>2, <1>3, <1>4, <1>5, <1>6 DEF Next

LEMMA FlagsStep == ASSUME Flags, Next PROVE Flags'
BY Zenon DEF Flags, Next, Main, ReaderThread, WebThread, Handle, pvars, webVars,
     ConfigRejected, StartReader, AwaitInit, InitPico, MonitorWakes, MonitorRequests,
     Stop, PostQuit, PostTimesOut, JoinReader, JoinWeb, OpenPort, Announce, CheckQuit, Select,
     Bind, BeginServing, EndServing, DrainPool, Connect, Serve, QuitStops, QuitExchanges, QuitCloses, QuitSets,
     AnswerStatus, StreamStops, BrowserLeaves, QuitSignal

\* A step leaves the connections alone, moves one of its own, or lets in a new one.
Rests == asks' = asks /\ conn' = conn

Moves(c, from, to) == conn[c] = from /\ conn' = [conn EXCEPT ![c] = to] /\ asks' = asks

LEMMA ThreadsRest ==
    ASSUME (Main /\ ~PostQuit) \/ ReaderThread \/ WebThread \/ QuitSignal
    PROVE  Rests
BY DEF Rests, Main, ReaderThread, WebThread, webVars, ConfigRejected, StartReader, AwaitInit,
   InitPico, MonitorWakes, MonitorRequests, Stop, PostTimesOut, JoinReader, JoinWeb, OpenPort,
   Announce, CheckQuit, Select, Bind, BeginServing, EndServing, DrainPool, QuitSignal

LEMMA PostMoves == ASSUME PostQuit PROVE Rests \/ Moves(Self, "none", "queued")
BY DEF PostQuit, Rests, Moves

LEMMA ServeMoves == ASSUME NEW c, Serve(c) PROVE Moves(c, "queued", "running")
BY DEF Serve, Moves, pvars

LEMMA HandleMoves ==
    ASSUME NEW c, Handle(c)
    PROVE  \E from \in Busy, to \in Busy \cup {"none"} : Moves(c, from, to)
BY DEF Handle, QuitStops, QuitExchanges, QuitCloses, QuitSets, AnswerStatus, StreamStops,
   Moves, Busy, pvars

LEMMA LeaveMoves == ASSUME NEW b, BrowserLeaves(b) PROVE Moves(b, "running", "none")
BY DEF BrowserLeaves, Moves, pvars

LEMMA ConnectionsStep == ASSUME Connections, Next PROVE Connections'
<1>1. ASSUME Rests PROVE Connections'
  BY <1>1 DEF Rests, Connections
<1>2. ASSUME NEW c \in Clients, NEW from,
             NEW to \in Busy \cup {"none", "queued"}, Moves(c, from, to)
      PROVE  Connections'
  BY <1>2 DEF Moves, Connections
<1>3. CASE (Main /\ ~PostQuit) \/ ReaderThread \/ WebThread \/ QuitSignal
  BY <1>1, <1>3, ThreadsRest
<1>4. CASE PostQuit
  BY <1>1, <1>2, <1>4, PostMoves, SelfIsClient
<1>5. ASSUME NEW c \in Clients, Serve(c) PROVE Connections'
  BY <1>2, <1>5, ServeMoves DEF Busy
<1>6. ASSUME NEW c \in Clients, Handle(c) PROVE Connections'
  BY <1>2, <1>6, HandleMoves
<1>7. ASSUME NEW b \in Browsers, BrowserLeaves(b) PROVE Connections'
  BY <1>2, <1>7, LeaveMoves, SelfIsClient
<1>8. ASSUME NEW b \in Browsers, Connect(b) PROVE Connections'
  BY <1>8, SelfIsClient DEF Connect, Connections, pvars
<1> QED
  BY <1>3, <1>4, <1>5, <1>6, <1>7, <1>8 DEF Next

LEMMA TypedStep == ASSUME Typed, Next PROVE Typed'
BY PlacesStep, FlagsStep, ConnectionsStep DEF Typed

LEMMA PoolStep == ASSUME Typed, PoolBound, Next PROVE PoolBound'
<1>1. ASSUME Running' \subseteq Running PROVE PoolBound'
  BY <1>1, RunningFinite, FS_Subset, FS_CardinalityType DEF PoolBound
<1>2. ASSUME Rests PROVE PoolBound'
  BY <1>1, <1>2 DEF Rests, Running
<1>3. ASSUME NEW c \in Clients, NEW from, NEW to \in Busy \cup {"none", "queued"},
             Moves(c, from, to), from \in Busy \/ to \in {"none", "queued"}
      PROVE  PoolBound'
  <2>1. Running' \subseteq Running
    BY <1>3 DEF Running, Moves, Typed, Connections, Busy
  <2> QED
    BY <1>1, <2>1
<1>4. CASE (Main /\ ~PostQuit) \/ ReaderThread \/ WebThread \/ QuitSignal
  BY <1>2, <1>4, ThreadsRest
<1>5. CASE PostQuit
  BY <1>2, <1>3, <1>5, PostMoves, SelfIsClient
<1>6. ASSUME NEW c \in Clients, Serve(c) PROVE PoolBound'
  <2>1. Running' = Running \cup {c} /\ c \notin Running
    BY <1>6 DEF Running, Serve, Typed, Connections, Busy, pvars
  <2>2. Cardinality(Running') = Cardinality(Running) + 1
    BY <2>1, RunningFinite, FS_AddElement
  <2> QED
    BY <1>6, <2>2, RunningFinite DEF PoolBound, Serve, pvars
<1>7. ASSUME NEW c \in Clients, Handle(c) PROVE PoolBound'
  BY <1>3, <1>7, HandleMoves
<1>8. ASSUME NEW b \in Browsers, BrowserLeaves(b) PROVE PoolBound'
  BY <1>3, <1>8, LeaveMoves, SelfIsClient DEF Busy
<1>9. ASSUME NEW b \in Browsers, Connect(b) PROVE PoolBound'
  <2>1. Running' \subseteq Running
    BY <1>9, SelfIsClient DEF Connect, Running, Typed, Connections, Busy, pvars
  <2> QED
    BY <1>1, <2>1
<1> QED
  BY <1>4, <1>5, <1>6, <1>7, <1>8, <1>9 DEF Next

LEMMA TypeStep == ASSUME TypeOK, [Next]_lvars PROVE TypeOK'
<1>1. CASE Next
  BY <1>1, TypedStep, PoolStep DEF TypeOK, Typed, Places, Flags, Connections, PoolBound
<1>2. CASE UNCHANGED lvars
  <2>1. Running' = Running
    BY <1>2 DEF Running, lvars, webVars
  <2>2. PoolBound'
    BY <2>1 DEF TypeOK, PoolBound
  <2>3. Places' /\ Flags' /\ Connections'
    BY <1>2 DEF TypeOK, Places, Flags, Connections, lvars, pvars, webVars
  <2> QED
    BY <2>2, <2>3, TypeParts DEF TypeOK, Typed, Places, Flags, Connections, PoolBound
<1> QED
  BY <1>1, <1>2

\* The states are well typed and the pool never runs more jobs than it has workers.
THEOREM LifecycleTypeCorrect == Spec => []TypeOK
BY TypeInit, TypeStep, PTL DEF Spec

-----------------------------------------------------------------------------
(* The port *)

\* Why the port is open: the event is set by the reader after it has opened the
\* port, everybody else starts after the event, and the reader closes it last.
PortInv ==
    /\ reader \in {"announce", "check", "select"} => port = "open"
    /\ initDone_ => reader \in {"check", "select"} \/ (reader = "ended" /\ quitEvent)
    /\ main \notin {"start", "await", "returned", "terminated"} => initDone_
    /\ web # "none" => initDone_

\* Where main and the web server are.
WebInv ==
    /\ main = "start" => reader = "none"
    /\ main \in {"start", "await", "init"} => web = "none"
    /\ listening => web \in {"bound", "serving"}
    /\ is_running_ => web \in {"serving", "draining"}
    /\ main = "post" => web \in {"serving", "draining", "ended"}
    /\ main = "join_web" => reader = "ended"
    /\ main = "returned" => reader \in {"none", "ended"} /\ web \in {"none", "ended"}

\* Only a server that runs, or drains, has connections.
ConnInv == \A c \in Clients : conn[c] # "none" => web \in {"serving", "draining"}

LEMMA PortInit == ASSUME Init PROVE PortInv /\ WebInv /\ ConnInv
BY DEF Init, PortInv, WebInv, ConnInv

LEMMA PortStep == ASSUME Places, PortInv, WebInv, Next PROVE PortInv'
<1>1. CASE Main
  BY <1>1 DEF Alive, Places, PortInv, WebInv, Main, ConfigRejected, StartReader, AwaitInit,
     InitPico, MonitorWakes, MonitorRequests, Stop, PostQuit, PostTimesOut, JoinReader, JoinWeb,
     webVars
<1>2. CASE ReaderThread
  BY <1>2 DEF Places, PortInv, ReaderThread, OpenPort, Announce, CheckQuit, Select, webVars
<1>3. CASE WebThread
  BY <1>3 DEF Places, PortInv, WebThread, Bind, BeginServing, EndServing, DrainPool, webVars
<1>4. ASSUME NEW c \in Clients, Serve(c) \/ Handle(c) PROVE PortInv'
  BY <1>4 DEF Places, PortInv, Serve, Handle, QuitStops, QuitExchanges, QuitCloses, QuitSets, AnswerStatus, StreamStops,
     pvars
<1>5. ASSUME NEW b \in Browsers, Connect(b) \/ BrowserLeaves(b) PROVE PortInv'
  BY <1>5 DEF PortInv, Connect, BrowserLeaves, pvars
<1>6. CASE QuitSignal
  BY <1>6 DEF PortInv, QuitSignal, webVars
<1> QED
  BY <1>1, <1>2, <1>3, <1>4, <1>5, <1>6 DEF Next

LEMMA WebStep == ASSUME Places, WebInv, Next PROVE WebInv'
<1>1. CASE Main
  BY <1>1 DEF Alive, Places, WebInv, Main, ConfigRejected, StartReader, AwaitInit,
     InitPico, MonitorWakes, MonitorRequests, Stop, PostQuit, PostTimesOut, JoinReader, JoinWeb,
     webVars
<1>2. CASE ReaderThread
  BY <1>2 DEF Places, WebInv, ReaderThread, OpenPort, Announce, CheckQuit, Select, webVars
<1>3. CASE WebThread
  BY <1>3 DEF Places, WebInv, WebThread, Bind, BeginServing, EndServing, DrainPool, webVars
<1>4. ASSUME NEW c \in Clients, Serve(c) \/ Handle(c) PROVE WebInv'
  <2>1. UNCHANGED <<reader, web, is_running_>>
    BY <1>4 DEF Serve, Handle, QuitStops, QuitExchanges, QuitCloses, QuitSets, AnswerStatus, StreamStops, pvars
  <2>2. listening' => listening
    BY Zenon, <1>4 DEF Serve, Handle, QuitStops, QuitExchanges, QuitCloses, QuitSets, AnswerStatus, StreamStops, pvars
  <2>3. main' = main \/ main' = "join"
    BY <1>4 DEF Serve, Handle, QuitStops, QuitExchanges, QuitCloses, QuitSets, AnswerStatus, StreamStops, pvars
  <2>4. CASE main' = main
    BY <2>1, <2>2, <2>4 DEF WebInv
  <2>5. CASE main' = "join"
    BY <2>1, <2>2, <2>5 DEF WebInv
  <2> QED
    BY <2>3, <2>4, <2>5
<1>5. ASSUME NEW b \in Browsers, Connect(b) \/ BrowserLeaves(b) PROVE WebInv'
  BY <1>5 DEF WebInv, Connect, BrowserLeaves, pvars
<1>6. CASE QuitSignal
  BY <1>6 DEF WebInv, QuitSignal, webVars
<1> QED
  BY <1>1, <1>2, <1>3, <1>4, <1>5, <1>6 DEF Next

\* The web server moves on with its connections or has none.
LEMMA WebMoves ==
    ASSUME Places, WebInv, Next
    PROVE  \/ web \in {"serving", "draining"} => web' \in {"serving", "draining"}
           \/ \A c \in Clients : conn[c] = "none"
<1>1. CASE Main
  BY <1>1 DEF Places, WebInv, Main, ConfigRejected, StartReader, AwaitInit, InitPico,
     MonitorWakes, MonitorRequests, Stop, PostQuit, PostTimesOut, JoinReader, JoinWeb, webVars
<1>2. CASE ReaderThread
  BY <1>2 DEF ReaderThread, OpenPort, Announce, CheckQuit, Select, webVars
<1>3. CASE WebThread
  BY <1>3 DEF WebThread, Bind, BeginServing, EndServing, DrainPool, webVars
<1>4. ASSUME NEW c \in Clients, Serve(c) \/ Handle(c)
      PROVE  web \in {"serving", "draining"} => web' \in {"serving", "draining"}
  BY <1>4 DEF Serve, Handle, QuitStops, QuitExchanges, QuitCloses, QuitSets, AnswerStatus, StreamStops, pvars
<1>5. ASSUME NEW b \in Browsers, Connect(b) \/ BrowserLeaves(b)
      PROVE  web \in {"serving", "draining"} => web' \in {"serving", "draining"}
  BY <1>5 DEF Connect, BrowserLeaves, pvars
<1>6. CASE QuitSignal
  BY <1>6 DEF QuitSignal, webVars
<1> QED
  BY <1>1, <1>2, <1>3, <1>4, <1>5, <1>6 DEF Next

LEMMA ConnStep == ASSUME Places, Connections, WebInv, ConnInv, Next PROVE ConnInv'
<1>1. ASSUME Rests PROVE ConnInv'
  BY <1>1, WebMoves DEF Rests, ConnInv
<1>2. ASSUME NEW c \in Clients, NEW from, NEW to, Moves(c, from, to), from # "none"
      PROVE  ConnInv'
  BY <1>2, WebMoves DEF Moves, ConnInv, Connections
<1>3. CASE (Main /\ ~PostQuit) \/ ReaderThread \/ WebThread \/ QuitSignal
  BY <1>1, <1>3, ThreadsRest
<1>4. CASE PostQuit
  <2>1. listening => web' \in {"serving", "draining"}
    BY <1>4 DEF PostQuit, WebInv
  <2>2. CASE listening
    BY <1>4, <2>1, <2>2 DEF ConnInv
  <2>3. CASE ~listening
    BY <1>1, <1>4, <2>3 DEF PostQuit, Rests
  <2> QED
    BY <2>2, <2>3
<1>5. ASSUME NEW c \in Clients, Serve(c) PROVE ConnInv'
  BY <1>2, <1>5, ServeMoves
<1>6. ASSUME NEW c \in Clients, Handle(c) PROVE ConnInv'
  BY <1>2, <1>6, HandleMoves DEF Busy
<1>7. ASSUME NEW b \in Browsers, BrowserLeaves(b) PROVE ConnInv'
  BY <1>2, <1>7, LeaveMoves, SelfIsClient
<1>8. ASSUME NEW b \in Browsers, Connect(b) PROVE ConnInv'
  BY <1>8 DEF Connect, ConnInv, pvars
<1> QED
  BY <1>3, <1>4, <1>5, <1>6, <1>7, <1>8 DEF Next

LEMMA LifecycleStep ==
    ASSUME TypeOK, PortInv, WebInv, ConnInv, [Next]_lvars
    PROVE  PortInv' /\ WebInv' /\ ConnInv'
<1>1. CASE Next
  BY <1>1, TypeParts, PortStep, WebStep, ConnStep DEF Typed
<1>2. CASE UNCHANGED lvars
  BY <1>2 DEF PortInv, WebInv, ConnInv, lvars, pvars, webVars
<1> QED
  BY <1>1, <1>2

LEMMA LifecycleInvariant == Spec => [](TypeOK /\ PortInv /\ WebInv /\ ConnInv)
BY TypeInit, TypeStep, PortInit, LifecycleStep, PTL DEF Spec

\* Until picod is told to quit, whoever talks to the Pico finds the port open.
THEOREM PortIsOpen == Spec => []UsesOpenPort
<1>1. PortInv /\ ConnInv => UsesOpenPort
  <2> SUFFICES ASSUME PortInv, ConnInv, Exchanging, ~quitEvent
               PROVE  port = "open"
    BY DEF UsesOpenPort
  <2>1. initDone_
    <3>1. CASE main \in {"init", "request"}
      BY <3>1 DEF PortInv
    <3>2. CASE \E c \in Running : asks[c] = "status"
      BY <3>2 DEF PortInv, ConnInv, Running, Busy
    <3> QED
      BY <3>1, <3>2 DEF Exchanging
  <2> QED
    BY <2>1 DEF PortInv
<1> QED
  BY <1>1, LifecycleInvariant, PTL

\* No thread that uses the singletons outlives main.
THEOREM AllJoined == Spec => []NothingOutlivesMain
<1>1. WebInv /\ ConnInv => NothingOutlivesMain
  BY DEF WebInv, ConnInv, NothingOutlivesMain, Running, Busy
<1> QED
  BY <1>1, LifecycleInvariant, PTL

-----------------------------------------------------------------------------
(* The socket *)

\* Who is to close the socket has taken it from everybody else.
CloseInv ==
    /\ \A c, d \in Clients : conn[c] = "closing" /\ conn[d] = "closing" => c = d
    /\ \A c \in Clients : conn[c] = "closing" => ~listening

LEMMA ListeningStays ==
    ASSUME Main \/ ReaderThread \/ QuitSignal PROVE listening' = listening
BY DEF Main, ReaderThread, webVars, ConfigRejected, StartReader, AwaitInit, InitPico,
   MonitorWakes, MonitorRequests, Stop, PostQuit, PostTimesOut, JoinReader, JoinWeb, OpenPort,
   Announce, CheckQuit, Select, QuitSignal

LEMMA CloseStep ==
    ASSUME Connections, ConnInv, CloseInv, Next
    PROVE  CloseInv'
<1>1. ASSUME Rests, listening' = listening PROVE CloseInv'
  BY <1>1 DEF Rests, CloseInv
<1>2. ASSUME NEW c \in Clients, NEW from, NEW to, Moves(c, from, to), to # "closing",
             listening' => listening
      PROVE  CloseInv'
  <2>1. \A d \in Clients : conn'[d] = "closing" => conn[d] = "closing"
    BY <1>2 DEF Moves, Connections
  <2> QED
    BY <1>2, <2>1 DEF CloseInv
<1>3. CASE (Main /\ ~PostQuit) \/ ReaderThread \/ QuitSignal
  BY <1>1, <1>3, ListeningStays, ThreadsRest
<1>4. CASE PostQuit
  <2>1. listening' = listening
    BY <1>4 DEF PostQuit
  <2> QED
    BY <1>1, <1>2, <1>4, <2>1, PostMoves, SelfIsClient
<1>5. CASE WebThread
  <2>1. Rests
    BY <1>5, ThreadsRest
  <2>2. CASE Bind
    <3>1. \A c \in Clients : conn[c] = "none"
      BY <2>2 DEF Bind, ConnInv
    <3> QED
      BY <2>1, <3>1 DEF Rests, CloseInv
  <2>3. CASE ~Bind
    <3>1. listening' = listening
      BY <1>5, <2>3 DEF WebThread, BeginServing, EndServing, DrainPool, webVars
    <3> QED
      BY <1>1, <2>1, <3>1
  <2> QED
    BY <2>2, <2>3
<1>6. ASSUME NEW c \in Clients, Serve(c) PROVE CloseInv'
  <2>1. listening' = listening
    BY <1>6 DEF Serve
  <2> QED
    BY <1>2, <1>6, <2>1, ServeMoves
<1>7. ASSUME NEW c \in Clients, QuitExchanges(c) PROVE CloseInv'
  <2>1. ~listening' /\ conn' = [conn EXCEPT ![c] = IF listening THEN "closing" ELSE "stopped"]
    BY <1>7 DEF QuitExchanges
  <2>2. CASE listening
    <3>1. \A d \in Clients : conn'[d] = "closing" => d = c
      BY <2>1, <2>2 DEF CloseInv, Connections
    <3> QED
      BY <2>1, <3>1 DEF CloseInv
  <2>3. CASE ~listening
    <3>1. \A d \in Clients : conn'[d] = "closing" => conn[d] = "closing"
      BY <2>1, <2>3 DEF Connections
    <3> QED
      BY <2>1, <3>1 DEF CloseInv
  <2> QED
    BY <2>2, <2>3
<1>8. ASSUME NEW c \in Clients, Handle(c), ~QuitExchanges(c) PROVE CloseInv'
  <2>1. listening' = listening
    BY <1>8 DEF Handle, QuitStops, QuitCloses, QuitSets, AnswerStatus, StreamStops
  <2>2. \E from, to \in Busy \cup {"none"} : to # "closing" /\ Moves(c, from, to)
    BY <1>8 DEF Handle, QuitStops, QuitCloses, QuitSets, AnswerStatus, StreamStops, Moves,
       Busy, pvars
  <2> QED
    BY <1>2, <2>1, <2>2
<1>9. ASSUME NEW b \in Browsers, BrowserLeaves(b) PROVE CloseInv'
  <2>1. listening' = listening
    BY <1>9 DEF BrowserLeaves
  <2> QED
    BY <1>2, <1>9, <2>1, LeaveMoves, SelfIsClient
<1>10. ASSUME NEW b \in Browsers, Connect(b) PROVE CloseInv'
  <2>1. listening' = listening /\ conn' = [conn EXCEPT ![b] = "queued"]
    BY <1>10 DEF Connect
  <2>2. \A d \in Clients : conn'[d] = "closing" => conn[d] = "closing"
    BY <2>1, SelfIsClient DEF Connections
  <2> QED
    BY <2>1, <2>2 DEF CloseInv
<1> QED
  BY <1>3, <1>4, <1>5, <1>6, <1>7, <1>8, <1>9, <1>10 DEF Next

LEMMA CloseInvariant == Spec => []CloseInv
<1>1. Init => CloseInv
  BY DEF Init, CloseInv
<1>2. TypeOK /\ ConnInv /\ CloseInv /\ [Next]_lvars => CloseInv'
  <2> SUFFICES ASSUME TypeOK, ConnInv, CloseInv, [Next]_lvars PROVE CloseInv'
    OBVIOUS
  <2>1. CASE Next
    BY <2>1, TypeParts, CloseStep DEF Typed
  <2>2. CASE UNCHANGED lvars
    BY <2>2 DEF CloseInv, lvars, webVars
  <2> QED
    BY <2>1, <2>2
<1> QED
  BY <1>1, <1>2, LifecycleInvariant, PTL DEF Spec

\* However many handlers stop the server at a time, one of them closes its socket.
THEOREM OneCloses == Spec => []ClosedOnce
<1>1. CloseInv => ClosedOnce
  <2> SUFFICES ASSUME CloseInv PROVE ClosedOnce
    OBVIOUS
  <2> DEFINE Closing == {c \in Clients : conn[c] = "closing"}
  <2>1. CASE Closing = {}
    BY <2>1, FS_EmptySet DEF ClosedOnce
  <2>2. ASSUME NEW c \in Closing PROVE Cardinality(Closing) = 1
    <3>1. Closing = {c}
      BY <2>2 DEF CloseInv
    <3> QED
      BY <3>1, FS_Singleton
  <2> QED
    BY <2>1, <2>2 DEF ClosedOnce
<1> QED
  BY <1>1, CloseInvariant, PTL

-----------------------------------------------------------------------------
(* Heartbeat: what the watchdog sees of a picod that works, ends or is restarted *)

\* How long a phase may last at most, ...
Lasts ==
    /\ phase = "start" => left <= Start
    /\ phase = "send" => left <= Wire
    /\ phase = "answer" => left <= Answer
    /\ phase = "publish" => left <= Publish
    /\ phase = "wait" => left <= Interval
    /\ phase = "leave" => left <= Leave
    /\ phase = "down" => left <= Restart

\* ... and how long the Pico will have heard nothing when it is over.
Heard ==
    /\ phase = "answer" => quiet + left <= Answer
    /\ phase = "publish" => quiet + left <= Answer + Publish
    /\ phase = "wait" => quiet + left <= Round
    /\ phase = "leave" => quiet + left <= Round + Leave
    /\ phase = "down" => quiet + left <= Round + Leave + Restart
    /\ phase = "start" => quiet + left <= Absence
    /\ phase = "send" /\ asked = "temperature" => quiet + left <= Wire + Round
    /\ phase = "send" /\ asked = "version" => quiet + left <= Wire + Absence
    /\ phase = "send" /\ asked \notin {"temperature", "version"} => quiet + left <= Wire + Answer

\* The alarm comes once per period until the silence is over; after a reset it comes
\* before the CM4 has booted.
Alarmed ==
    /\ alarm <= Period
    /\ phase # "boot" => quiet + alarm < cm4_watchdog_timeout_sec + Period
    /\ phase = "boot" => quiet >= cm4_watchdog_timeout_sec /\ alarm < left

IInv ==
    /\ BeatTypeOK
    /\ Lasts
    /\ is_cm4_watchdog_enabled => Heard /\ Alarmed

LEMMA Durations ==
    /\ Period \in Nat /\ Wire \in Nat /\ Answer \in Nat /\ Publish \in Nat /\ Interval \in Nat
    /\ Leave \in Nat /\ Restart \in Nat /\ Start \in Nat /\ Boot \in Nat /\ MaxQuiet \in Nat
    /\ 0 < Period /\ Period < Boot
BY DurationAssumption

LEMMA TimeoutsArePositive ==
    ASSUME NEW t \in Timeouts
    PROVE  t \in Nat /\ 0 < t /\ t + Period <= MaxQuiet
BY DurationAssumption

LEMMA RetriesAreNat == ASSUME NEW n \in Retries PROVE n \in Nat
BY DurationAssumption

LEMMA HeartbeatInit == ASSUME BeatInit PROVE IInv
<1>1. BeatTypeOK
  BY Durations, RetriesAreNat DEF BeatInit, BeatTypeOK, Requests
<1> QED
  BY <1>1 DEF BeatInit, IInv, Lasts

LEMMA SumBelow ==
    ASSUME NEW a \in Nat, NEW p \in Nat, NEW t \in Nat, a <= p, 0 < t
    PROVE  0 + a < t + p
OBVIOUS

\* A packet that may change the settings starts a new silence, of any length so far.
LEMMA ConfigureStep ==
    ASSUME BeatTypeOK, is_cm4_watchdog_enabled => alarm <= Period,
           Configure \/ UNCHANGED <<alarm, settings>>, quiet' = 0, phase' # "boot"
    PROVE  /\ alarm' \in Nat /\ is_cm4_watchdog_enabled' \in BOOLEAN
           /\ cm4_watchdog_timeout_sec' \in Timeouts /\ max_retries' \in Nat
           /\ is_cm4_watchdog_enabled' => Alarmed'
<1>1. /\ is_cm4_watchdog_enabled' \in BOOLEAN
      /\ cm4_watchdog_timeout_sec' \in Timeouts /\ max_retries' \in Nat
  BY RetriesAreNat DEF BeatTypeOK, Configure, settings
<1>2. alarm' \in Nat /\ (is_cm4_watchdog_enabled' => alarm' <= Period)
  BY Durations DEF BeatTypeOK, Configure, settings
<1>3. cm4_watchdog_timeout_sec' \in Nat /\ 0 < cm4_watchdog_timeout_sec'
  BY <1>1, TimeoutsArePositive
<1>4. ASSUME is_cm4_watchdog_enabled' PROVE Alarmed'
  <2>1. alarm' \in Nat /\ alarm' <= Period /\ quiet' = 0 /\ phase' # "boot"
    BY <1>2, <1>4
  <2>2. quiet' + alarm' < cm4_watchdog_timeout_sec' + Period
    BY <1>3, <2>1, Durations, SumBelow
  <2> QED
    BY <2>1, <2>2 DEF Alarmed
<1> QED
  BY <1>1, <1>2, <1>4

LEMMA PicodStep == ASSUME IInv, Picod PROVE IInv'
<1> USE Durations
<1> USE DEF IInv, BeatTypeOK, Requests, Enter, Send, Round, Absence, settings
<1>1. CASE Booted
  BY <1>1 DEF Booted, Lasts, Heard, Alarmed
<1>2. CASE FirstRequest
  BY <1>2 DEF FirstRequest, Lasts, Heard, Alarmed
<1>3. CASE Arrives
  <2>1. /\ phase' = "answer" /\ left' = Answer /\ quiet' = 0 /\ asked' = asked /\ service' = service
        /\ Configure \/ UNCHANGED <<alarm, settings>>
    BY <1>3 DEF Arrives
  <2>2. is_cm4_watchdog_enabled => alarm <= Period
    BY DEF Alarmed
  <2>3. /\ alarm' \in Nat /\ is_cm4_watchdog_enabled' \in BOOLEAN
        /\ cm4_watchdog_timeout_sec' \in Timeouts /\ max_retries' \in Nat
        /\ is_cm4_watchdog_enabled' => Alarmed'
    BY <2>1, <2>2, ConfigureStep
  <2> QED
    BY <2>1, <2>3 DEF Lasts, Heard
<1>4. CASE NextOfInit
  BY <1>4 DEF NextOfInit, Lasts, Heard, Alarmed
<1>5. CASE Wakes
  BY <1>5 DEF Wakes, Lasts, Heard, Alarmed
<1>6. CASE AnswerEnds
  BY <1>6 DEF AnswerEnds, Lasts, Heard, Alarmed
<1>7. CASE Published
  BY <1>7 DEF Published, Lasts, Heard, Alarmed
<1>8. CASE PublishCrashes
  BY <1>8 DEF PublishCrashes, Lasts, Heard, Alarmed
<1>9. CASE Quits
  BY <1>9 DEF Quits, Lasts, Heard, Alarmed
<1>10. CASE Ends
  BY <1>10 DEF Ends, Lasts, Heard, Alarmed
<1>11. CASE Restarts
  BY <1>11 DEF Restarts, Lasts, Heard, Alarmed
<1> QED
  BY <1>1, <1>2, <1>3, <1>4, <1>5, <1>6, <1>7, <1>8, <1>9, <1>10, <1>11 DEF Picod

LEMMA PageStep == ASSUME IInv, PageAsks PROVE IInv'
<1>1. /\ phase' = phase /\ left' = left /\ asked' = asked /\ service' = service /\ quiet' = 0
      /\ Configure \/ UNCHANGED <<alarm, settings>>
      /\ phase \in {"send", "answer", "publish", "wait"}
  BY DEF PageAsks, picod
<1>2. is_cm4_watchdog_enabled => alarm <= Period
  BY DEF IInv, Alarmed
<1>3. /\ alarm' \in Nat /\ is_cm4_watchdog_enabled' \in BOOLEAN
      /\ cm4_watchdog_timeout_sec' \in Timeouts /\ max_retries' \in Nat
      /\ is_cm4_watchdog_enabled' => Alarmed'
  BY <1>1, <1>2, ConfigureStep DEF IInv
<1>4. BeatTypeOK' /\ Lasts'
  BY <1>1, <1>3 DEF IInv, BeatTypeOK, Lasts
<1>5. Heard'
  BY <1>1, <1>4, Durations DEF IInv, BeatTypeOK, Lasts, Heard, Round, Absence
<1> QED
  BY <1>3, <1>4, <1>5 DEF IInv

\* What the watchdog resets is not a picod that still has time to speak.
LEMMA SilentWhenReset ==
    ASSUME IInv, CallbackResets
    PROVE  phase \in {"stopped", "boot"} \/ cm4_watchdog_timeout_sec <= LongestSilence
<1>1. /\ cm4_watchdog_timeout_sec \in Nat /\ quiet \in Nat /\ left \in Nat
      /\ cm4_watchdog_timeout_sec <= quiet /\ Heard
  BY TimeoutsArePositive DEF IInv, BeatTypeOK, CallbackResets
<1>2. SUFFICES ASSUME phase \notin {"stopped", "boot"}
               PROVE  LongestSilence \in Nat /\ quiet + left <= LongestSilence
  BY <1>1
<1>3. phase \in {"start", "send", "answer", "publish", "wait", "leave", "down"}
  BY <1>2 DEF IInv, BeatTypeOK
<1>4. Round \in Nat /\ Absence \in Nat
  BY Durations DEF Round, Absence
<1>5. CASE phase = "send"
  <2>1. LongestSilence = Wire + (IF asked = "temperature" THEN Round
                                 ELSE IF asked = "version" THEN Absence ELSE Answer)
    BY <1>5 DEF LongestSilence
  <2> QED
    BY <1>1, <1>4, <1>5, <2>1, Durations DEF Heard
<1>6. CASE phase = "start"
  BY <1>1, <1>4, <1>6 DEF Heard, LongestSilence
<1>7. CASE phase \in {"answer", "publish", "wait", "leave", "down"}
  BY <1>1, <1>4, <1>7, Durations DEF Heard, LongestSilence
<1> QED
  BY <1>3, <1>5, <1>6, <1>7

LEMMA AlarmStep == ASSUME IInv, Alarm PROVE IInv'
<1> USE Durations DEF IInv, BeatTypeOK, Enter, settings, picod
<1>0. cm4_watchdog_timeout_sec \in Nat
  BY TimeoutsArePositive
<1>1. CASE Callback
  BY <1>0, <1>1 DEF Callback, Lasts, Heard, Alarmed
<1>2. CASE CallbackResets
  <2>1. /\ phase' = "boot" /\ left' = Boot /\ alarm' = Period
        /\ UNCHANGED <<asked, quiet, cm4_watchdog_timeout_sec>>
        /\ service' = "on" /\ quiet >= cm4_watchdog_timeout_sec
    BY <1>2 DEF CallbackResets
  <2>2. is_cm4_watchdog_enabled' \in BOOLEAN
    BY <1>2, Zenon DEF CallbackResets
  <2>3. max_retries' \in Nat
    <3>1. max_retries' = max_retries \/ (max_retries > 0 /\ max_retries' = max_retries - 1)
      BY <1>2 DEF CallbackResets
    <3> QED
      BY <3>1
  <2>4. BeatTypeOK' /\ Lasts'
    BY <2>1, <2>2, <2>3 DEF Lasts
  <2>5. Heard'
    BY <2>1 DEF Heard
  <2>6. Alarmed'
    BY <1>0, <2>1 DEF Alarmed
  <2> QED
    BY <2>4, <2>5, <2>6
<1> QED
  BY <1>1, <1>2 DEF Alarm

LEMMA TickStep == ASSUME IInv, Tick PROVE IInv'
<1> USE Durations
<1>1. /\ cm4_watchdog_timeout_sec \in Nat /\ cm4_watchdog_timeout_sec + Period <= MaxQuiet
  BY TimeoutsArePositive DEF IInv, BeatTypeOK
<1>2. UNCHANGED <<phase, asked, service, settings>>
  BY DEF Tick
<1>3. BeatTypeOK'
  BY <1>2 DEF IInv, BeatTypeOK, Tick, settings
<1>4. Lasts'
  BY <1>2 DEF IInv, BeatTypeOK, Tick, Lasts
<1>5. ASSUME is_cm4_watchdog_enabled PROVE Heard'
  BY <1>2, <1>5 DEF IInv, BeatTypeOK, Tick, Heard, Round, Absence
<1>6. ASSUME is_cm4_watchdog_enabled PROVE Alarmed'
  BY <1>1, <1>2, <1>6 DEF IInv, BeatTypeOK, Tick, Alarmed, settings
<1> QED
  BY <1>2, <1>3, <1>4, <1>5, <1>6 DEF IInv, settings

LEMMA HeartbeatStep == ASSUME IInv, [BeatNext]_vars PROVE IInv'
<1>1. CASE BeatNext
  BY <1>1, PicodStep, PageStep, AlarmStep, TickStep DEF BeatNext
<1>2. CASE UNCHANGED vars
  BY <1>2 DEF vars, picod, settings, IInv, BeatTypeOK, Lasts, Heard, Alarmed
<1> QED
  BY <1>1, <1>2

LEMMA HeartbeatInvariant == BeatSpec => []IInv
BY HeartbeatInit, HeartbeatStep, PTL DEF BeatSpec

\* The values are what they are taken for; no retry is taken that is not there.
THEOREM HeartbeatTypeCorrect == BeatSpec => []BeatTypeOK
<1>1. IInv => BeatTypeOK
  BY DEF IInv
<1> QED
  BY <1>1, HeartbeatInvariant, PTL

\* An enabled watchdog notices silence within one period of its timeout.
THEOREM SilenceNoticed == BeatSpec => []SilenceIsNoticed
<1>1. IInv => SilenceIsNoticed
  BY TimeoutsArePositive, Durations DEF IInv, BeatTypeOK, Alarmed, SilenceIsNoticed
<1> QED
  BY <1>1, HeartbeatInvariant, PTL

\* For any durations and timeouts, the watchdog resets only a CM4 that boots, one whose
\* picod is stopped, or one whose timeout is not above the time picod may be silent
\* where it is (cm4_watchdog_timer_callback, pico_monitor, picod.service).
THEOREM WorkingIsNotReset == BeatSpec => OnlyTheSilentAreReset
<1>1. ASSUME IInv, [BeatNext]_vars
      PROVE  [phase' = "boot" => \/ phase \in {"stopped", "boot"}
                                 \/ cm4_watchdog_timeout_sec <= LongestSilence]_vars
  <2> SUFFICES ASSUME phase' = "boot", phase # "boot"
               PROVE  \/ phase \in {"stopped", "boot"}
                      \/ cm4_watchdog_timeout_sec <= LongestSilence
    OBVIOUS
  <2>1. CASE Picod
    BY <2>1 DEF Picod, Enter, Send, Booted, FirstRequest, Arrives, NextOfInit, Wakes, AnswerEnds,
       Published, PublishCrashes, Quits, Ends, Restarts
  <2>2. CASE PageAsks \/ Tick \/ Callback \/ UNCHANGED vars
    BY <2>2 DEF PageAsks, Tick, Callback, vars, picod
  <2>3. CASE CallbackResets
    BY <1>1, <2>3, SilentWhenReset
  <2> QED
    BY <1>1, <2>1, <2>2, <2>3 DEF BeatNext, Alarm
<1> QED
  BY <1>1, HeartbeatInvariant, PTL DEF BeatSpec, OnlyTheSilentAreReset
================================================================================
