------------------------------ MODULE PicodLifecycle ------------------------------
(***************************************************************************)
(* The life of a picod process, in the build with the web interface: main  *)
(* (src/CM4/src/main.cpp and the monitor loop of WebServer.cpp), the       *)
(* thread that owns the serial port (PacketHandler::run), the web server's *)
(* thread and the pool that serves its connections (WebServer::start and   *)
(* httplib's Server), and the two events that tie them together.           *)
(*                                                                         *)
(* A critical section of Event is one step.  Event::wait has no predicate: *)
(* it returns the flag after the time is over, a notification or nothing   *)
(* at all, so it may return at any time and what it returns is the flag.   *)
(***************************************************************************)
EXTENDS Naturals, FiniteSets

CONSTANTS
    Browsers,  \* connections from outside
    Self,      \* the connection of WebServer::stop
    PoolSize   \* CPPHTTPLIB_THREAD_POOL_COUNT

Clients == Browsers \cup {Self}

ASSUME LifecycleAssumption ==
    /\ Self \notin Browsers
    /\ IsFiniteSet(Browsers)
    /\ PoolSize \in Nat \ {0}

VARIABLES
    main, reader, web,  \* where the three threads are
    port,       \* pico_fd_: "none", "open" (and set up) or "closed"
    initDone_,  \* flag_ of the event the reader sets
    quitEvent,  \* flag_ of the event that ends everything
    listening,  \* svr_sock_ is a socket
    is_running_,
    asks,       \* what every connection asks for
    conn        \* how far it has come

pvars == <<main, reader, web, port, initDone_, quitEvent>>
webVars == <<listening, is_running_, asks, conn>>
lvars == <<pvars, webVars>>

Busy == {"running", "stopping", "closing", "stopped"}

Running == {c \in Clients : conn[c] \in Busy}

TypeOK ==
    /\ main \in {"start", "await", "init", "wait", "request", "stop", "post",
                 "join", "join_web", "returned", "terminated"}
    /\ reader \in {"none", "open", "announce", "check", "select", "ended"}
    /\ web \in {"none", "start", "bound", "serving", "draining", "ended"}
    /\ port \in {"none", "open", "closed"}
    /\ initDone_ \in BOOLEAN /\ quitEvent \in BOOLEAN
    /\ listening \in BOOLEAN /\ is_running_ \in BOOLEAN
    /\ asks \in [Clients -> {"quit", "status", "stream"}]
    /\ conn \in [Clients -> Busy \cup {"none", "queued"}]
    /\ Cardinality(Running) <= PoolSize

Init ==
    /\ main = "start" /\ reader = "none" /\ web = "none"
    /\ port = "none" /\ initDone_ = FALSE /\ quitEvent = FALSE
    /\ listening = FALSE /\ is_running_ = FALSE
    /\ asks = [c \in Clients |-> "quit"] /\ conn = [c \in Clients |-> "none"]

-----------------------------------------------------------------------------
(* main *)

\* Without a configuration main returns before it has started anything.
ConfigRejected ==
    /\ main = "start"
    /\ main' = "returned"
    /\ UNCHANGED <<reader, web, port, initDone_, quitEvent, webVars>>

StartReader ==
    /\ main = "start"
    /\ main' = "await" /\ reader' = "open"
    /\ UNCHANGED <<web, port, initDone_, quitEvent, webVars>>

\* is_init_done.  If the flag is not up, main goes straight to its cleanup label
\* and destroys the thread it has not joined: std::terminate.
AwaitInit ==
    /\ main = "await"
    /\ main' = IF initDone_ THEN "init" ELSE "terminated"
    /\ UNCHANGED <<reader, web, port, initDone_, quitEvent, webVars>>

\* init_pico has sent its requests, answered or not.
InitPico ==
    /\ main = "init"
    /\ main' = "wait"
    /\ \E enable_web_interface \in BOOLEAN :
          web' = IF enable_web_interface THEN "start" ELSE "none"
    /\ UNCHANGED <<reader, port, initDone_, quitEvent, webVars>>

\* pico_monitor waits for the quit event and looks at it once per interval.
MonitorWakes ==
    /\ main = "wait"
    /\ main' = IF quitEvent THEN "stop" ELSE "request"
    /\ UNCHANGED <<reader, web, port, initDone_, quitEvent, webVars>>

\* The temperature request of pico_monitor, answered or not.
MonitorRequests ==
    /\ main = "request"
    /\ main' = "wait"
    /\ UNCHANGED <<reader, web, port, initDone_, quitEvent, webVars>>

\* WebServer::stop does nothing if the server is not running, or not yet.
Stop ==
    /\ main = "stop"
    /\ main' = IF is_running_ THEN "post" ELSE "join"
    /\ UNCHANGED <<reader, web, port, initDone_, quitEvent, webVars>>

\* It connects to its own server; the connection is refused if somebody else has
\* stopped the server in the meantime.
PostQuit ==
    /\ main = "post" /\ conn[Self] = "none"
    /\ IF listening
       THEN /\ conn' = [conn EXCEPT ![Self] = "queued"]
            /\ UNCHANGED main
       ELSE main' = "join" /\ UNCHANGED conn
    /\ UNCHANGED <<reader, web, port, initDone_, quitEvent, listening, is_running_, asks>>

\* The client waits for the answer until its read timeout; the request stays queued.
PostTimesOut ==
    /\ main = "post" /\ conn[Self] = "queued"
    /\ main' = "join"
    /\ UNCHANGED <<reader, web, port, initDone_, quitEvent, webVars>>

JoinReader ==
    /\ main = "join" /\ reader = "ended"
    /\ main' = IF web = "none" THEN "returned" ELSE "join_web"
    /\ UNCHANGED <<reader, web, port, initDone_, quitEvent, webVars>>

JoinWeb ==
    /\ main = "join_web" /\ web = "ended"
    /\ main' = "returned"
    /\ UNCHANGED <<reader, web, port, initDone_, quitEvent, webVars>>

-----------------------------------------------------------------------------
(* The reader: PacketHandler::run *)

OpenPort ==
    /\ reader = "open"
    /\ \/ reader' = "announce" /\ port' = "open"
       \/ reader' = "ended" /\ port' = "closed"
    /\ UNCHANGED <<main, web, initDone_, quitEvent, webVars>>

\* Slip: the event is set before the port is set up.
AnnounceEarly ==
    /\ reader \in {"open", "announce"}
    /\ initDone_' = TRUE
    /\ reader' = IF reader = "open" THEN "open" ELSE "check"
    /\ UNCHANGED <<main, web, port, quitEvent, webVars>>

Announce ==
    /\ reader = "announce"
    /\ initDone_' = TRUE
    /\ reader' = "check"
    /\ UNCHANGED <<main, web, port, quitEvent, webVars>>

\* The loop's condition; at its end the port is closed for everybody.
CheckQuit ==
    /\ reader = "check"
    /\ IF quitEvent
       THEN reader' = "ended" /\ port' = "closed"
       ELSE reader' = "select" /\ UNCHANGED port
    /\ UNCHANGED <<main, web, initDone_, quitEvent, webVars>>

\* A second passes, or a message is handled.
Select ==
    /\ reader = "select"
    /\ reader' = "check"
    /\ UNCHANGED <<main, web, port, initDone_, quitEvent, webVars>>

-----------------------------------------------------------------------------
(* The web server's thread: WebServer::start and Server::listen *)

\* The directory exists and the address is free, or the thread ends at once.
Bind ==
    /\ web = "start"
    /\ \/ web' = "bound" /\ listening' = TRUE
       \/ web' = "ended" /\ UNCHANGED listening
    /\ UNCHANGED <<main, reader, port, initDone_, quitEvent, is_running_, asks, conn>>

BeginServing ==
    /\ web = "bound"
    /\ web' = "serving" /\ is_running_' = TRUE
    /\ UNCHANGED <<main, reader, port, initDone_, quitEvent, listening, asks, conn>>

\* accept fails once the socket is closed.
EndServing ==
    /\ web = "serving" /\ ~listening
    /\ web' = "draining"
    /\ UNCHANGED <<main, reader, port, initDone_, quitEvent, webVars>>

\* Slip: the queue is closed and its workers are not joined.
LeavePool ==
    /\ web = "draining"
    /\ web' = "ended" /\ is_running_' = FALSE
    /\ UNCHANGED <<main, reader, port, initDone_, quitEvent, listening, asks, conn>>

\* task_queue->shutdown() serves what is queued and joins the workers.
DrainPool ==
    /\ web = "draining"
    /\ \A c \in Clients : conn[c] = "none"
    /\ web' = "ended" /\ is_running_' = FALSE
    /\ UNCHANGED <<main, reader, port, initDone_, quitEvent, listening, asks, conn>>

-----------------------------------------------------------------------------
(* Connections *)

Connect(b) ==
    /\ web = "serving" /\ listening
    /\ conn[b] = "none"
    /\ conn' = [conn EXCEPT ![b] = "queued"]
    /\ \E what \in {"quit", "status", "stream"} : asks' = [asks EXCEPT ![b] = what]
    /\ UNCHANGED <<pvars, listening, is_running_>>

\* Slip: a job is taken although every worker has one.
ServeAtOnce(c) ==
    /\ conn[c] = "queued"
    /\ conn' = [conn EXCEPT ![c] = "running"]
    /\ UNCHANGED <<pvars, listening, is_running_, asks>>

\* A worker of the pool that has no job takes one.
Serve(c) ==
    /\ conn[c] = "queued"
    /\ Cardinality(Running) < PoolSize
    /\ conn' = [conn EXCEPT ![c] = "running"]
    /\ UNCHANGED <<pvars, listening, is_running_, asks>>

\* /quit/now stops the server first, if it runs ...
QuitStops(c) ==
    /\ conn[c] = "running" /\ asks[c] = "quit"
    /\ conn' = [conn EXCEPT ![c] = IF is_running_ THEN "stopping" ELSE "stopped"]
    /\ UNCHANGED <<pvars, listening, is_running_, asks>>

\* Slip: the socket is read here and marked as invalid when it has been closed.
QuitReads(c) ==
    /\ conn[c] = "stopping"
    /\ conn' = [conn EXCEPT ![c] = IF listening THEN "closing" ELSE "stopped"]
    /\ UNCHANGED <<pvars, listening, is_running_, asks>>

\* ... by an exchange that lets one handler have its socket ...
QuitExchanges(c) ==
    /\ conn[c] = "stopping"
    /\ listening' = FALSE
    /\ conn' = [conn EXCEPT ![c] = IF listening THEN "closing" ELSE "stopped"]
    /\ UNCHANGED <<pvars, is_running_, asks>>

\* ... which shuts it down and closes it ...
QuitCloses(c) ==
    /\ conn[c] = "closing"
    /\ conn' = [conn EXCEPT ![c] = "stopped"]
    /\ UNCHANGED <<pvars, listening, is_running_, asks>>

\* ... and then sets the event.  Its answer lets WebServer::stop return.
QuitSets(c) ==
    /\ conn[c] = "stopped"
    /\ quitEvent' = TRUE
    /\ conn' = [conn EXCEPT ![c] = "none"]
    /\ main' = IF c = Self /\ main = "post" THEN "join" ELSE main
    /\ UNCHANGED <<reader, web, port, initDone_, listening, is_running_, asks>>

\* The page, its status or a setting: requests to the Pico, answered or not.
AnswerStatus(c) ==
    /\ conn[c] = "running" /\ asks[c] = "status"
    /\ conn' = [conn EXCEPT ![c] = "none"]
    /\ UNCHANGED <<pvars, listening, is_running_, asks>>

\* Slip: the content provider's return value alone ends a stream, and it is true.
StreamOn(c) == FALSE

\* /stream goes on until the server shuts down ...
StreamStops(c) ==
    /\ conn[c] = "running" /\ asks[c] = "stream"
    /\ ~listening
    /\ conn' = [conn EXCEPT ![c] = "none"]
    /\ UNCHANGED <<pvars, listening, is_running_, asks>>

\* ... or the browser leaves.
BrowserLeaves(b) ==
    /\ conn[b] = "running" /\ asks[b] = "stream"
    /\ conn' = [conn EXCEPT ![b] = "none"]
    /\ UNCHANGED <<pvars, listening, is_running_, asks>>

\* SIGINT or SIGTERM.  Until the handler is installed it would end picod at once.
QuitSignal ==
    /\ main # "start"
    /\ quitEvent' = TRUE
    /\ UNCHANGED <<main, reader, web, port, initDone_, webVars>>

-----------------------------------------------------------------------------
Alive == main \notin {"returned", "terminated"}

Main ==
    \/ ConfigRejected \/ StartReader \/ AwaitInit \/ InitPico
    \/ MonitorWakes \/ MonitorRequests
    \/ Stop \/ PostQuit \/ PostTimesOut \/ JoinReader \/ JoinWeb

ReaderThread == OpenPort \/ Announce \/ CheckQuit \/ Select

WebThread == Bind \/ BeginServing \/ EndServing \/ DrainPool

Handle(c) ==
    \/ QuitStops(c) \/ QuitExchanges(c) \/ QuitCloses(c) \/ QuitSets(c)
    \/ AnswerStatus(c) \/ StreamStops(c)

\* When main is over, everything is.
Next ==
    /\ Alive
    /\ \/ Main \/ ReaderThread \/ WebThread
       \/ \E c \in Clients : Serve(c) \/ Handle(c)
       \/ \E b \in Browsers : Connect(b) \/ BrowserLeaves(b)
       \/ QuitSignal

Spec == Init /\ [][Next]_lvars

\* Every thread runs on.  Waiting jobs are taken in the order they came, so each
\* has its turn if workers become free again and again.
FairSpec ==
    /\ Spec
    /\ WF_lvars(Alive /\ Main)
    /\ WF_lvars(Alive /\ ReaderThread)
    /\ WF_lvars(Alive /\ WebThread)
    /\ \A c \in Clients : WF_lvars(Alive /\ Handle(c)) /\ SF_lvars(Alive /\ Serve(c))

-----------------------------------------------------------------------------
\* A thread between the first and the last byte of an exchange with the Pico.
Exchanging ==
    main \in {"init", "request"} \/ \E c \in Running : asks[c] = "status"

\* Nobody talks to the Pico before its port is open, nor, until picod is told to
\* quit, after the reader has closed it.  After that somebody may.
UsesOpenPort == Exchanging /\ ~quitEvent => port = "open"

\* When main returns, and PacketHandler and WebServer are destroyed, no thread
\* that uses them is left.
NothingOutlivesMain ==
    main = "returned" =>
        reader \in {"none", "ended"} /\ web \in {"none", "ended"} /\ Running = {}

\* The server's socket is shut down and closed by one handler at most, however many
\* stop the server at a time: a second close would hit whatever file has the number.
ClosedOnce == Cardinality({c \in Clients : conn[c] = "closing"}) <= 1

\* main waits for a web server that nobody has told to stop.
Hung == main = "join_web" /\ (web \in {"start", "bound"} \/ listening)

Ended == ~Alive

\* Told to quit, picod ends, unless it hangs: open streams end with the server,
\* queued requests are served and the reader looks at the event.
QuitEndsPicod == []<>~Hung => (quitEvent ~> Ended)
================================================================================
