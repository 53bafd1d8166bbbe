------------------------------ MODULE SensorStream ------------------------------
(***************************************************************************)
(* From the monitor to the browsers: WebServer::update, which makes an     *)
(* event of the histories (SensorCharts), and SSEDispatcher, through which *)
(* the web server's workers wait for the next event to write.              *)
(***************************************************************************)
EXTENDS Integers

CONSTANTS
    Streams,  \* connections to /stream
    MaxEvents \* bound: events

ASSUME StreamAssumption == "free" \notin Streams /\ MaxEvents \in Nat

VARIABLES
    \* WebServer
    mpc,              \* where the monitor is: poll or send
    running,          \* svr_.is_running()
    sequence_number_,
    \* SSEDispatcher
    m_,               \* its mutex: a stream that writes, or "free"
    id_, cid_,
    message_,         \* the sequence number in the event
    stopEvent_,
    \* the workers that serve /stream
    spc,
    awaited,          \* wait_event's id
    got,              \* the event last written
    \* history
    overrun           \* events written since stopEvent_ was set

eventVars == <<mpc, sequence_number_, id_, cid_, message_>>
streamVars == <<spc, awaited, got, overrun>>
vars == <<running, eventVars, m_, stopEvent_, streamVars>>

TypeOK ==
    /\ mpc \in {"poll", "send"}
    /\ running \in BOOLEAN /\ stopEvent_ \in BOOLEAN
    /\ sequence_number_ \in Nat /\ id_ \in Nat /\ cid_ \in -1 .. id_ - 1 /\ message_ \in Nat \cup {-1}
    /\ m_ \in Streams \cup {"free"}
    /\ spc \in [Streams -> {"out", "wait", "write"}]
    /\ awaited \in [Streams -> Nat] /\ got \in [Streams -> Nat \cup {-1}]
    /\ overrun \in [Streams -> Nat]

\* picod has just started; the web server is not yet running.
Init ==
    /\ mpc = "poll"
    /\ running = FALSE
    /\ sequence_number_ = 0 /\ id_ = 0 /\ cid_ = -1 /\ message_ = -1
    /\ m_ = "free" /\ stopEvent_ = FALSE
    /\ spc = [s \in Streams |-> "out"] /\ awaited = [s \in Streams |-> 0]
    /\ got = [s \in Streams |-> -1]
    /\ overrun = [s \in Streams |-> 0]

-----------------------------------------------------------------------------
(* The monitor *)

\* WebServer::update, when a poll was answered: nothing is numbered, or sent, before
\* the server runs.
Update ==
    /\ mpc = "poll" /\ running /\ sequence_number_ < MaxEvents
    /\ mpc' = "send" /\ sequence_number_' = sequence_number_ + 1
    /\ UNCHANGED <<running, id_, cid_, message_, m_, stopEvent_, streamVars>>

\* Slip: send_event does not take the mutex.
SendEventUnlocked ==
    /\ mpc = "send"
    /\ cid_' = id_ /\ id_' = id_ + 1
    /\ message_' = sequence_number_ - 1
    /\ mpc' = "poll"
    /\ UNCHANGED <<running, sequence_number_, m_, stopEvent_, streamVars>>

SendEvent ==
    /\ mpc = "send" /\ m_ = "free"
    /\ cid_' = id_ /\ id_' = id_ + 1
    /\ message_' = sequence_number_ - 1
    /\ mpc' = "poll"
    /\ UNCHANGED <<running, sequence_number_, m_, stopEvent_, streamVars>>

-----------------------------------------------------------------------------
(* The web server's workers *)

BeginServing ==
    /\ ~running
    /\ running' = TRUE
    /\ UNCHANGED <<eventVars, m_, stopEvent_, streamVars>>

\* wait_event: the next event to be sent is waited for, without the mutex.
StartWait(s) ==
    /\ running /\ spc[s] = "out" /\ m_ = "free"
    /\ awaited' = [awaited EXCEPT ![s] = id_]
    /\ spc' = [spc EXCEPT ![s] = "wait"]
    /\ UNCHANGED <<running, eventVars, m_, stopEvent_, got, overrun>>

\* Slip: stopEvent_ is not looked at.
MayWriteAlways == TRUE

MayWrite == ~stopEvent_

\* It was sent.  The mutex is kept while the worker writes.
Notified(s) ==
    /\ spc[s] = "wait" /\ m_ = "free"
    /\ cid_ = awaited[s]
    /\ IF MayWrite
       THEN spc' = [spc EXCEPT ![s] = "write"] /\ m_' = s
       ELSE spc' = [spc EXCEPT ![s] = "out"] /\ UNCHANGED m_
    /\ UNCHANGED <<running, eventVars, stopEvent_, awaited, got, overrun>>

\* The millisecond is over, and it was not sent or another has been sent since.
TimedOut(s) ==
    /\ spc[s] = "wait" /\ m_ = "free"
    /\ cid_ # awaited[s]
    /\ spc' = [spc EXCEPT ![s] = "out"]
    /\ UNCHANGED <<running, eventVars, m_, stopEvent_, awaited, got, overrun>>

\* sink->write returns and the provider is called again.
Write(s) ==
    /\ spc[s] = "write"
    /\ got' = [got EXCEPT ![s] = message_]
    /\ overrun' = [overrun EXCEPT ![s] = IF stopEvent_ THEN @ + 1 ELSE 0]
    /\ spc' = [spc EXCEPT ![s] = "out"]
    /\ m_' = "free"
    /\ UNCHANGED <<running, eventVars, stopEvent_, awaited>>

\* /api/stop and /api/start, from any browser, for all of them.
Pause ==
    /\ running /\ ~stopEvent_
    /\ stopEvent_' = TRUE
    /\ overrun' = [s \in Streams |-> 0]
    /\ UNCHANGED <<running, eventVars, m_, spc, awaited, got>>

Resume ==
    /\ stopEvent_
    /\ stopEvent_' = FALSE
    /\ UNCHANGED <<running, eventVars, m_, streamVars>>

Monitor == Update \/ SendEvent

Worker(s) == StartWait(s) \/ Notified(s) \/ TimedOut(s) \/ Write(s)

Next ==
    \/ Monitor \/ BeginServing \/ Pause \/ Resume
    \/ \E s \in Streams : Worker(s)

Spec == Init /\ [][Next]_vars

-----------------------------------------------------------------------------
\* What a worker writes is the event it has waited for, and it has written no later
\* one: the event cannot be replaced while it is written, and no
\* stream sees charts go back in time (SSEDispatcher).
WritesLatest ==
    \A s \in Streams :
        spc[s] = "write" =>
            /\ cid_ = awaited[s]
            /\ message_ > got[s]

\* After /api/stop a stream may finish the event it is writing, and writes no other.
PauseHolds == \A s \in Streams : stopEvent_ => overrun[s] <= 1
================================================================================
