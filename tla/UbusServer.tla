------------------------------ MODULE UbusServer ------------------------------
(***************************************************************************)
(* What main's thread does in the build for OpenWrt, from run_ubus_server  *)
(* (ubus_server.cpp) to the end of main: one loop of libubox runs the      *)
(* temperature timer and the news of subscribers.  The methods make the    *)
(* requests of PicoSettings, and change nothing here.                      *)
(*                                                                         *)
(* libubox and libubus are external.  While uloop_run runs it may keep the *)
(* signal handlers that main has installed, or put its own in their place, *)
(* which end the loop; a run of picod has one or the other.  A lost        *)
(* connection to ubusd ends the loop too.                                  *)
(***************************************************************************)
EXTENDS QuitEvent, Sequences

CONSTANT MaxNews  \* bound: changes that ubusd has sent and picod has not read

ASSUME UbusAssumption == MaxNews \in Nat \ {0}

VARIABLES
    main,        \* "monitor" in the other build; "init", "loop", "timer" (in the
                 \* timer's callback), "join" or "ended" in this one
    keeps,       \* uloop_run keeps picod's signal handlers
    cancelled,   \* libubox's own handler has ended the loop
    armed,       \* notify_temperature_timer is in the loop's list
    subscribed,  \* has_subscribers as ubusd knows it ...
    news,        \* ... and its changes on their way to picod
    notify,
    last         \* how the timer's last callback ended

subscriberVars == <<subscribed, news, notify>>
uvars == <<main, keeps, cancelled, armed, subscriberVars, last>>

\* uloop_run has not returned.
Serving == main \in {"loop", "timer"}

UbusTypeOK ==
    /\ main \in {"monitor", "init", "loop", "timer", "join", "ended"}
    /\ {keeps, cancelled, armed, subscribed, notify} \subseteq BOOLEAN
    /\ news \in Seq(BOOLEAN) /\ Len(news) <= MaxNews
    /\ last \in {"none", "failed", "notified", "unheard"}

UbusInit ==
    /\ main \in {"monitor", "init"} /\ keeps \in {TRUE, main = "monitor"}
    /\ cancelled = FALSE /\ armed = FALSE
    /\ subscribed = FALSE /\ notify = FALSE
    /\ news = <<>> /\ last = "none"

-----------------------------------------------------------------------------
(* main's thread *)

\* ubus_connect, and server_main up to uloop_run.
Connect ==
    /\ main = "init" /\ main' = "loop"
    /\ armed' = TRUE
    /\ UNCHANGED <<keeps, cancelled, subscriberVars, last>>

\* run_ubus_server returns -1, and main joins the reader all the same.
ConnectFails ==
    /\ main = "init" /\ main' = "join"
    /\ UNCHANGED <<keeps, cancelled, armed, subscriberVars, last>>

\* libubox takes an expired timer out of its list before the callback.
TimerExpires ==
    /\ main = "loop" /\ armed /\ ~cancelled
    /\ main' = "timer" /\ armed' = FALSE
    /\ UNCHANGED <<keeps, cancelled, subscriberVars, last>>

Rearm(answered) == armed' = TRUE

\* The Pico may answer the request while the reader is there to take it.
NotifyTemperature ==
    /\ main = "timer" /\ main' = "loop"
    /\ \E answered \in {FALSE, at[Reader] # "ended" /\ Runs(Reader)} :
          /\ last' = CASE ~answered -> "failed"
                       [] answered /\ notify -> "notified"
                       [] OTHER -> "unheard"
          /\ Rearm(answered)
    /\ UNCHANGED <<keeps, cancelled, subscriberVars>>

\* Slip: the call is taken for the news that somebody has subscribed.
NotifyOn == notify' = TRUE

TakeOver == notify' = Head(news)

SubscribeCb ==
    /\ main = "loop" /\ news # <<>>
    /\ TakeOver
    /\ news' = Tail(news)
    /\ UNCHANGED <<main, keeps, cancelled, armed, subscribed, last>>

\* uloop_run returns after libubox's handler, and run_ubus_server with it.
LoopEnds ==
    /\ main = "loop" /\ cancelled
    /\ main' = "join"
    /\ UNCHANGED <<keeps, cancelled, armed, subscriberVars, last>>

\* libubus ends the loop when ubusd has gone.
ConnectionLost ==
    /\ main = "loop" /\ main' = "join"
    /\ UNCHANGED <<keeps, cancelled, armed, subscriberVars, last>>

JoinReader ==
    /\ main = "join" /\ at[Reader] = "ended"
    /\ main' = "ended"
    /\ UNCHANGED <<keeps, cancelled, armed, subscriberVars, last>>

-----------------------------------------------------------------------------
(* What comes from outside *)

\* libubox's handler is in the place of quit_signal_handler: it ends the loop, and
\* does not set the quit event.
UloopSignal ==
    /\ Serving /\ ~keeps /\ signals < MaxSignals /\ signals' = signals + 1
    /\ cancelled' = TRUE
    /\ UNCHANGED <<main, keeps, armed, subscriberVars, last>>

\* The first subscriber comes or the last one goes.
Subscribers ==
    /\ Serving /\ Len(news) < MaxNews
    /\ subscribed' = ~subscribed /\ news' = Append(news, subscribed')
    /\ UNCHANGED <<main, keeps, cancelled, armed, notify, last>>

\* The loop's own turns, which libubox takes one after the other.
Turn == TimerExpires \/ NotifyTemperature \/ LoopEnds

Starts == Connect \/ ConnectFails
================================================================================
