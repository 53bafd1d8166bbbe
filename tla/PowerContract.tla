----------------------------- MODULE PowerContract -----------------------------
(***************************************************************************)
(* What the owner of the board may rely on, whatever the Pico's firmware   *)
(* does inside: when it starts the CM4, resets it or cuts its power.       *)
(*                                                                         *)
(*   The rails are cut on the CM4's word only.                             *)
(*   RUN is pulsed for the watchdog, at most as often as the host's latest *)
(*   settings allow, or for somebody who has let go of the button.         *)
(*   A CM4 that is off stays off otherwise.                                *)
(***************************************************************************)
EXTENDS Naturals

VARIABLES
    cm4,     \* "off", "reset" or "up"
    rails,   \* the rails are on
    agreed,  \* the CM4 has confirmed a shutdown and has not come up since
    wanted,  \* the button has been let go
    budget   \* resets that the watchdog may make

Init ==
    /\ cm4 = "reset" /\ rails = TRUE
    /\ agreed = FALSE /\ wanted = FALSE /\ budget = 0

-----------------------------------------------------------------------------
(* The firmware *)

Pulse ==
    /\ cm4' = "reset"
    /\ rails' \in {rails, TRUE}
    /\ UNCHANGED agreed

\* One more silent period.
WatchdogResets ==
    /\ budget > 0
    /\ budget' = budget - 1
    /\ Pulse
    /\ UNCHANGED wanted

\* The one release may be served now or stay wanted.
ButtonResets ==
    /\ wanted
    /\ Pulse
    /\ wanted' \in BOOLEAN
    /\ UNCHANGED budget

RailsBack ==
    /\ wanted
    /\ rails' = TRUE
    /\ UNCHANGED <<cm4, agreed, wanted, budget>>

Cut ==
    /\ agreed
    /\ rails' = FALSE
    /\ UNCHANGED <<cm4, agreed, wanted, budget>>

\* The button's request is dropped, or answered in another way.
Dismiss ==
    /\ wanted' = FALSE
    /\ UNCHANGED <<cm4, rails, agreed, budget>>

-----------------------------------------------------------------------------
(* The CM4, its host and the button *)

HostAllows ==
    /\ budget' \in Nat
    /\ UNCHANGED <<cm4, rails, agreed, wanted>>

Agree ==
    /\ agreed' = TRUE
    /\ UNCHANGED <<cm4, rails, wanted, budget>>

ComesUp ==
    /\ agreed' = FALSE
    /\ UNCHANGED <<cm4, rails, wanted, budget>>

LetGo ==
    /\ wanted' = TRUE
    /\ UNCHANGED <<cm4, rails, agreed, budget>>

Cm4Moves ==
    /\ \/ cm4 = "up" /\ cm4' \in {"off", "reset"}
       \/ cm4 = "reset" /\ cm4' = "up"
    /\ UNCHANGED <<rails, agreed, wanted, budget>>

Next ==
    \/ WatchdogResets \/ ButtonResets \/ RailsBack \/ Cut \/ Dismiss
    \/ HostAllows \/ Agree \/ ComesUp \/ LetGo \/ Cm4Moves

Spec == Init /\ [][Next]_<<cm4, rails, agreed, wanted, budget>>
================================================================================
