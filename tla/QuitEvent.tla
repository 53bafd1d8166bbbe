------------------------------- MODULE QuitEvent -------------------------------
(***************************************************************************)
(* The quit event (Event of src/CM4/src/Event.hpp and Event.cpp) between   *)
(* its users: main, which waits for it in pico_monitor, the reader, which  *)
(* looks at it once per turn of its loop, the workers that serve /quit/now *)
(* and the signal handler of main.cpp.                                     *)
(*                                                                         *)
(* The handler runs on top of whatever thread the kernel picks, and takes  *)
(* the event's mutex like everybody else.  The thread below it is stopped  *)
(* until the handler returns.                                              *)
(***************************************************************************)
EXTENDS Naturals

CONSTANTS
    Main, Reader,
    Workers,    \* each serves one /quit/now, or none
    MaxSignals  \* bound: SIGINT and SIGTERM that arrive

Threads == {Main, Reader} \cup Workers

ASSUME EventAssumption ==
    /\ Main # Reader /\ {Main, Reader} \cap Workers = {} /\ "free" \notin Threads
    /\ MaxSignals \in Nat

VARIABLES
    flag_,
    mtx_,     \* the thread that has it, in its own code or in the handler, or "free"
    at,       \* where each thread is in its own code
    handler,  \* where the handler is that runs on top of it
    signals   \* that have arrived

evars == <<flag_, mtx_, at, handler, signals>>

\* A thread that is not stopped by a handler.
Runs(t) == handler[t] = "none"

InSection(t) == at[t] \in {"held", "woken"}

EventTypeOK ==
    /\ flag_ \in BOOLEAN
    /\ mtx_ \in Threads \cup {"free"}
    /\ at \in [Threads -> {"busy", "lock", "held", "waiting", "relock", "woken", "ended"}]
    /\ handler \in [Threads -> {"none", "lock", "held"}]
    /\ signals \in 0 .. MaxSignals
    /\ \A t \in Threads : (InSection(t) \/ handler[t] = "held") <=> mtx_ = t

EventInit ==
    /\ flag_ = FALSE /\ mtx_ = "free"
    /\ at = [t \in Threads |-> "busy"] /\ handler = [t \in Threads |-> "none"]
    /\ signals = 0

-----------------------------------------------------------------------------
(* A thread's own code *)

Goto(t, from, to) == Runs(t) /\ at[t] = from /\ at' = [at EXCEPT ![t] = to]

\* main comes to wait(), the reader to isSet(), a worker to set().
Call(t) ==
    /\ Goto(t, "busy", "lock")
    /\ UNCHANGED <<flag_, mtx_, handler, signals>>

Lock(t, from, to) ==
    /\ Goto(t, from, to)
    /\ mtx_ = "free" /\ mtx_' = t
    /\ UNCHANGED <<flag_, handler, signals>>

\* The return from wait() and isSet(): the mutex is released and the flag obeyed.
Return(t, from) ==
    /\ Goto(t, from, IF flag_ THEN "ended" ELSE "busy")
    /\ mtx_' = "free"
    /\ UNCHANGED <<flag_, handler, signals>>

\* Slip: an event that resets itself when somebody has seen it.
IsSetAndClear ==
    /\ Goto(Reader, "held", IF flag_ THEN "ended" ELSE "busy")
    /\ mtx_' = "free" /\ flag_' = FALSE
    /\ UNCHANGED <<handler, signals>>

IsSet == Return(Reader, "held")

\* wait_for gives the mutex up ...
WaitBegins ==
    /\ Goto(Main, "held", "waiting")
    /\ mtx_' = "free"
    /\ UNCHANGED <<flag_, handler, signals>>

\* ... until it is notified, its time is over, or for no reason.
WaitEnds ==
    /\ Goto(Main, "waiting", "relock")
    /\ UNCHANGED <<flag_, mtx_, handler, signals>>

WaitReturns == Return(Main, "woken")

Set(t) ==
    /\ t \in Workers
    /\ Goto(t, "held", "ended")
    /\ flag_' = TRUE /\ mtx_' = "free"
    /\ UNCHANGED <<handler, signals>>

-----------------------------------------------------------------------------
(* quit_signal_handler *)

\* The kernel picks a thread that is there and does not handle a signal.
Signal(t) ==
    /\ Runs(t) /\ at[t] # "ended" /\ signals < MaxSignals
    /\ signals' = signals + 1
    /\ handler' = [handler EXCEPT ![t] = "lock"]
    /\ UNCHANGED <<flag_, mtx_, at>>

\* Slip: the handler does without the mutex.
HandlerJoinsIn(t) ==
    /\ handler[t] = "lock" /\ handler' = [handler EXCEPT ![t] = "held"]
    /\ UNCHANGED <<flag_, mtx_, at, signals>>

\* std::mutex is not recursive: on top of a thread that has it, this waits for good.
HandlerLocks(t) ==
    /\ handler[t] = "lock" /\ handler' = [handler EXCEPT ![t] = "held"]
    /\ mtx_ = "free" /\ mtx_' = t
    /\ UNCHANGED <<flag_, at, signals>>

HandlerSets(t) ==
    /\ handler[t] = "held" /\ handler' = [handler EXCEPT ![t] = "none"]
    /\ flag_' = TRUE /\ mtx_' = "free"
    /\ UNCHANGED <<at, signals>>

-----------------------------------------------------------------------------
Locks(t) == Lock(t, "lock", "held") \/ Lock(t, "relock", "woken") \/ HandlerLocks(t)

\* What a thread does next in its own code, when it has come to the event.
Proceeds(t) ==
    \/ t = Reader /\ IsSet
    \/ t = Main /\ (WaitBegins \/ WaitEnds \/ WaitReturns)
    \/ Set(t)

\* A signal has met its own thread inside the event.
HandlerStuck == \E t \in Threads : handler[t] = "lock" /\ mtx_ = t
================================================================================
