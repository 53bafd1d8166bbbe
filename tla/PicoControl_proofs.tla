-------------------------- MODULE PicoControl_proofs --------------------------
(***************************************************************************)
(* Proofs about PicoControl for every value of its constants: its types,   *)
(* the bound on watchdog resets, the life of the watchdog's alarm, the     *)
(* rails of a running CM4, and that it implements PowerContract.           *)
(***************************************************************************)
EXTENDS PicoControl, TLAPS

USE DEF loopVars, pktVars, confVars, armVars, flagVars, powerVars, btnVars,
        irqVars

-----------------------------------------------------------------------------
(* Types *)

\* The bounds the types use.
LEMMA Bounds ==
    /\ BlinkTicks \in Nat /\ BlinkTicks > 0
    /\ MaxQuiet \in Nat /\ DefaultTimeout \in 0 .. MaxQuiet
    /\ HardMin \in Nat /\ MaxMoves \in Nat
BY ConstantsAssumption

\* What a step does not touch keeps its type.
LEMMA Kept ==
    ASSUME TypeOK
    PROVE  /\ UNCHANGED loopVars => LoopType'
           /\ UNCHANGED pktVars => PktType'
           /\ UNCHANGED confVars => ConfType'
           /\ UNCHANGED armVars /\ UNCHANGED due => ArmType'
           /\ UNCHANGED flagVars => FlagType'
           /\ UNCHANGED powerVars => PowerType'
           /\ UNCHANGED cm4 => Cm4Type'
           /\ UNCHANGED btnVars => ButtonType'
           /\ UNCHANGED <<rstIrq, btnIrq, is_CM4_in_USB_Boot_mode>> => EdgeType'
<1> USE DEF TypeOK
<1>1. UNCHANGED loopVars => LoopType' BY DEF LoopType
<1>2. UNCHANGED pktVars => PktType' BY DEF PktType
<1>3. UNCHANGED confVars => ConfType' BY DEF ConfType
<1>4. UNCHANGED armVars /\ UNCHANGED due => ArmType' BY DEF ArmType
<1>5. UNCHANGED flagVars => FlagType' BY DEF FlagType
<1>6. UNCHANGED powerVars => PowerType' BY DEF PowerType
<1>7. UNCHANGED cm4 => Cm4Type' BY DEF Cm4Type
<1>8. UNCHANGED btnVars => ButtonType' BY DEF ButtonType
<1>9. UNCHANGED <<rstIrq, btnIrq, is_CM4_in_USB_Boot_mode>> => EdgeType' BY DEF EdgeType
<1> QED BY <1>1, <1>2, <1>3, <1>4, <1>5, <1>6, <1>7, <1>8, <1>9

\* A move of the main loop goes from label to label.
LEMMA GotoType ==
    ASSUME TypeOK, NEW from, NEW to \in Labels, Goto(from, to), looped' \in BOOLEAN
    PROVE  LoopType'
BY DEF TypeOK, Goto, LoopType

\* A pulse of RUN, in an ISR or in the main loop, keeps the types.
LEMMA PulseTypes ==
    ASSUME TypeOK, PulseRun
    PROVE  /\ Cm4Type'
           /\ UNCHANGED <<btnIrq, is_CM4_in_USB_Boot_mode>> \/
              (btnIrq' = {} /\ UNCHANGED is_CM4_in_USB_Boot_mode) => EdgeType'
BY DEF TypeOK, PulseRun, Cm4Type, EdgeType, Edges

\* Main loop steps outside pkt_watchdog keep the types.
LEMMA LoopTypes ==
    ASSUME TypeOK,
           \/ Top \/ SendShutdownRequest \/ ClearShutdownRequest
           \/ HardResetRails \/ HardResetPulse \/ ClearHardReset
           \/ Poll \/ Discard \/ BlinkEnds \/ ExecStatus \/ PktShutdown \/ Reply
    PROVE  TypeOK'
<1>0. /\ {"top", "send", "sent", "rails", "pulse", "pulsed", "poll", "dispatch",
          "reply", "blink"} \subseteq Labels
      /\ looped \in BOOLEAN /\ quiet \in 0 .. MaxQuiet /\ allowance \in Int
  BY DEF Labels, TypeOK, LoopType
<1>1. CASE Top BY <1>0, <1>1, Kept, GotoType DEF Top, TypeOK
<1>2. CASE SendShutdownRequest
  BY <1>0, <1>2, Kept, GotoType DEF SendShutdownRequest, TypeOK, Cm4Type
<1>3. CASE ClearShutdownRequest
  BY <1>0, <1>3, Kept, GotoType DEF ClearShutdownRequest, TypeOK, FlagType
<1>4. CASE HardResetRails
  BY <1>0, <1>4, Kept, GotoType DEF HardResetRails, RailsOn, TypeOK, PowerType
<1>5. CASE HardResetPulse
  BY <1>0, <1>5, Kept, GotoType, PulseTypes DEF HardResetPulse, StalePulse, TypeOK, PowerType
<1>6. CASE ClearHardReset
  BY <1>0, <1>6, Kept, GotoType DEF ClearHardReset, TypeOK, FlagType
<1>7. CASE Poll BY <1>0, <1>7, Kept, GotoType DEF Poll, TypeOK, PktType
<1>8. CASE Discard
  <2>1. LoopType' /\ PktType'
    <3>1. LoopType' BY <1>0, <1>8, Bounds DEF Discard, LoopType
    <3>2. PktType' BY <1>8 DEF Discard, PktType, Packet
    <3> QED BY <3>1, <3>2
  <2> QED BY <1>0, <1>8, <2>1, Kept DEF Discard, TypeOK
<1>9. CASE BlinkEnds BY <1>0, <1>9, Kept, GotoType DEF BlinkEnds, TypeOK
<1>10. CASE ExecStatus BY <1>0, <1>10, Kept, GotoType DEF ExecStatus, TypeOK
<1>11. CASE PktShutdown
  BY <1>0, <1>11, Kept, GotoType DEF PktShutdown, TypeOK, PowerType
<1>12. CASE Reply BY <1>0, <1>12, Kept, GotoType DEF Reply, TypeOK
<1> QED BY <1>1, <1>2, <1>3, <1>4, <1>5, <1>6, <1>7, <1>8, <1>9, <1>10, <1>11, <1>12

\* Every body that is unpacked has the fields of a watchdog request.
LEMMA BodyFields ==
    ASSUME NEW b \in WatchdogRequests \cup {Zero}
    PROVE  b.retries \in Nat /\ b.timeout \in 0 .. MaxQuiet
<1>1. CASE b \in WatchdogRequests BY <1>1, ConstantsAssumption DEF Body
<1>2. CASE b = Zero BY <1>2, ConstantsAssumption DEF Zero
<1> QED BY <1>1, <1>2

\* The steps of pkt_watchdog keep the types.
LEMMA WatchdogTypes ==
    ASSUME TypeOK,
           \/ WatchdogUnpack \/ SetRetries \/ SetTimeout \/ TestEnabled
           \/ AddTimer \/ Arm \/ CancelTimer
    PROVE  TypeOK'
<1>0. /\ {"retries", "timeout", "switch", "add", "arm", "cancel", "reply"} \subseteq Labels
      /\ looped \in BOOLEAN /\ quiet \in 0 .. MaxQuiet /\ allowance \in Int
      /\ max_retries \in Nat
      /\ s.retries \in Nat /\ s.timeout \in 0 .. MaxQuiet
  BY BodyFields DEF Labels, TypeOK, LoopType, ConfType
<1>1. CASE WatchdogUnpack
  <2>1. req.body \in WatchdogRequests \cup {Zero} BY DEF TypeOK, PktType, Packet
  <2> QED BY <1>0, <1>1, <2>1, Kept, GotoType DEF WatchdogUnpack, TypeOK, ConfType
<1>2. CASE SetRetries BY <1>0, <1>2, Kept, GotoType DEF SetRetries, TypeOK, ConfType
<1>3. CASE SetTimeout BY <1>0, <1>3, Kept, GotoType DEF SetTimeout, TypeOK, ConfType
<1>4. CASE TestEnabled BY <1>0, <1>4, Kept, GotoType DEF TestEnabled, TypeOK
<1>5. CASE AddTimer
  <2>1. ArmType' BY <1>5 DEF AddTimer, TypeOK, ArmType
  <2>2. LoopType' BY <1>0, <1>5, GotoType DEF AddTimer
  <2> QED BY <1>0, <1>5, <2>1, <2>2, Kept DEF AddTimer, TypeOK
<1>6. CASE Arm
  <2>1. ArmType' BY <1>6 DEF Arm, TypeOK, ArmType
  <2>2. allowance' \in Int BY <1>0, <1>6 DEF Arm
  <2> QED BY <1>0, <1>6, <2>1, <2>2, Kept, GotoType DEF Arm, TypeOK
<1>7. CASE CancelTimer
  <2>1. ArmType' BY <1>7 DEF CancelTimer, Goto, IrqPending, TypeOK, ArmType
  <2> QED BY <1>0, <1>7, <2>1, Kept, GotoType DEF CancelTimer, TypeOK
<1> QED BY <1>1, <1>2, <1>3, <1>4, <1>5, <1>6, <1>7

\* Interrupt handlers keep the types.
LEMMA IsrTypes ==
    ASSUME TypeOK, AlarmIsr \/ GpioIsr
    PROVE  TypeOK'
<1>0. quiet \in 0 .. MaxQuiet /\ allowance \in Int BY DEF TypeOK
<1>1. ASSUME NEW a \in Alarms, WatchdogTimerCallback(a) PROVE TypeOK'
  <2>0. LoopType' /\ PktType' /\ ButtonType' /\ quiet' \in 0 .. MaxQuiet
    BY <1>0, <1>1, Kept DEF WatchdogTimerCallback
  <2>1. CASE DropAlarm(a)
    <3>1. ArmType' BY <1>1, <2>1 DEF WatchdogTimerCallback, DropAlarm, TypeOK, ArmType
    <3> QED BY <1>0, <1>1, <2>0, <2>1, <3>1, Kept DEF WatchdogTimerCallback, DropAlarm, TypeOK
  <2>2. CASE WatchdogReset(a)
    <3>1. ArmType'
      BY <1>1, <2>2
      DEF WatchdogTimerCallback, WatchdogReset, TakeRetry, KeepAlarm, TypeOK, ArmType
    <3>2. ConfType'
      <4>1. max_retries \in Nat BY DEF TypeOK, ConfType
      <4>2. IF max_retries > 0 THEN max_retries' = max_retries - 1
                               ELSE max_retries' = max_retries
        BY <2>2 DEF WatchdogReset, TakeRetry
      <4>3. max_retries' \in Nat BY <4>1, <4>2
      <4> QED BY <1>1, <4>3 DEF WatchdogTimerCallback, TypeOK, ConfType
    <3>3. PowerType'
      BY <2>2 DEF WatchdogReset, ResetInIsr, RailsOn, StalePulse, TypeOK, PowerType
    <3>4. FlagType'
      BY <1>1, <2>2
      DEF WatchdogTimerCallback, WatchdogReset, TakeRetry, KeepAlarm, TypeOK, FlagType
    <3>5. Cm4Type' /\ EdgeType'
      BY <1>1, <2>2, PulseTypes DEF WatchdogTimerCallback, WatchdogReset, ResetInIsr
    <3>6. allowance' \in Int BY <1>0, <2>2 DEF WatchdogReset, TakeRetry
    <3> QED BY <2>0, <3>1, <3>2, <3>3, <3>4, <3>5, <3>6 DEF TypeOK
  <2>3. CASE WatchdogWaits(a)
    <3>1. ArmType'
      BY <1>1, <2>3 DEF WatchdogTimerCallback, WatchdogWaits, KeepAlarm, TypeOK, ArmType
    <3> QED BY <1>0, <1>1, <2>0, <2>3, <3>1, Kept
            DEF WatchdogTimerCallback, WatchdogWaits, KeepAlarm, TypeOK
  <2> QED BY <1>1, <2>1, <2>2, <2>3 DEF WatchdogTimerCallback
<1>2. CASE ButtonPressed
  <2>1. ButtonType' BY <1>2, Bounds DEF ButtonPressed, TypeOK, ButtonType
  <2> QED BY <1>0, <1>2, <2>1, Kept DEF ButtonPressed, TypeOK, EdgeType
<1>3. CASE ButtonStartsCm4
  <2>1. PowerType'
    BY <1>3 DEF ButtonStartsCm4, ResetInIsr, RailsOn, StalePulse, TypeOK, PowerType
  <2>2. Cm4Type' /\ EdgeType' BY <1>3, PulseTypes DEF ButtonStartsCm4, ResetInIsr
  <2> QED BY <1>0, <1>3, <2>1, <2>2, Kept DEF ButtonStartsCm4, TypeOK
<1>4. CASE ButtonReleased
  <2>1. FlagType' BY <1>4 DEF ButtonReleased, TypeOK, FlagType
  <2> QED BY <1>0, <1>4, <2>1, Kept DEF ButtonReleased, TypeOK, EdgeType
<1>5. CASE Cm4Fell BY <1>0, <1>5, Kept DEF Cm4Fell, TypeOK, EdgeType, PowerType
<1>6. CASE Cm4Rose BY <1>0, <1>6, Kept DEF Cm4Rose, TypeOK, EdgeType, PowerType
<1> QED BY <1>1, <1>2, <1>3, <1>4, <1>5, <1>6 DEF GpioIsr, AlarmIsr

\* Latching an edge keeps the type of the latches.
LEMMA LatchType ==
    ASSUME TypeOK, NEW e \in Edges
    PROVE  rstIrq \cup Latch(e) \subseteq Edges /\ btnIrq \cup Latch(e) \subseteq Edges
BY DEF Latch, TypeOK, EdgeType

\* A packet that arrives is a packet.
LEMMA ReceiveTypes ==
    ASSUME TypeOK, NEW p \in Packet, Receive(p)
    PROVE  /\ LoopType' /\ PktType' /\ ConfType' /\ ArmType' /\ FlagType' /\ PowerType'
           /\ ButtonType' /\ EdgeType' /\ quiet' \in 0 .. MaxQuiet /\ allowance' \in Int
BY Kept, Bounds DEF Receive, TypeOK, PktType

\* The environment and the clock keep the types.
LEMMA WorldTypes ==
    ASSUME TypeOK, Environment \/ Tick
    PROVE  TypeOK'
<1>0. /\ quiet \in 0 .. MaxQuiet /\ allowance \in Int
      /\ cm4 \in {"off", "reset", "linux", "picod"}
      /\ "FALL" \in Edges /\ "RISE" \in Edges
  BY DEF TypeOK, Cm4Type, Edges
<1>1. CASE HostRequests
  <2>1. PICK p \in Packet : Receive(p) BY <1>1 DEF HostRequests, Packet
  <2> QED BY <1>0, <1>1, <2>1, ReceiveTypes DEF HostRequests, Receive, TypeOK, Cm4Type
<1>2. CASE HostConfirms
  <2>1. PICK p \in Packet : Receive(p) BY <1>2 DEF HostConfirms, Packet
  <2> QED BY <1>0, <1>2, <2>1, ReceiveTypes DEF HostConfirms, Receive, TypeOK, Cm4Type
<1>3. ASSUME NEW to \in {"off", "reset"}, Cm4GoesDown(to), stale' \in BOOLEAN PROVE TypeOK'
  <2>1. EdgeType' BY <1>0, <1>3, LatchType DEF Cm4GoesDown, TypeOK, EdgeType
  <2>2. Cm4Type' BY <1>3 DEF Cm4GoesDown, Cm4Type
  <2>3. PowerType' BY <1>3 DEF Cm4GoesDown, TypeOK, PowerType
  <2> QED BY <1>0, <1>3, <2>1, <2>2, <2>3, Kept DEF Cm4GoesDown, TypeOK
<1>4. CASE Cm4PowersOff BY <1>3, <1>4 DEF Cm4PowersOff, TypeOK, PowerType
<1>5. CASE Cm4Reboots BY <1>3, <1>5 DEF Cm4Reboots, TypeOK, PowerType
<1>6. CASE Cm4Boots
  <2>1. EdgeType' BY <1>0, <1>6, LatchType DEF Cm4Boots, TypeOK, EdgeType
  <2> QED BY <1>0, <1>6, <2>1, Kept DEF Cm4Boots, TypeOK, Cm4Type
<1>7. ASSUME NEW from, NEW to \in {"up", "down"}, NEW e \in Edges, MoveButton(from, to, e)
      PROVE  TypeOK'
  <2>1. EdgeType' BY <1>7, LatchType DEF MoveButton, TypeOK, EdgeType
  <2>2. ButtonType' BY <1>7, Bounds DEF MoveButton, TypeOK, ButtonType
  <2> QED BY <1>0, <1>7, <2>1, <2>2, Kept DEF MoveButton, TypeOK
<1>8. CASE PressButton BY <1>0, <1>7, <1>8 DEF PressButton
<1>9. CASE ReleaseButton BY <1>0, <1>7, <1>9 DEF ReleaseButton
<1>10. CASE Tick
  <2>1. LoopType'
    <3>1. blinkLeft \in 0 .. BlinkTicks BY DEF TypeOK, LoopType
    <3>2. blinkLeft' \in 0 .. BlinkTicks BY <1>10, <3>1, Bounds DEF Tick
    <3> QED BY <1>10, <3>2 DEF Tick, TypeOK, LoopType
  <2>2. ButtonType' BY <1>10, Bounds DEF Tick, CapAt, TypeOK, ButtonType
  <2>3. ArmType' BY <1>10 DEF Tick, TypeOK, ArmType
  <2>4. quiet' \in 0 .. MaxQuiet BY <1>0, <1>10, Bounds DEF Tick, CapAt
  <2>5. Cm4Type' BY <1>0, <1>10 DEF Tick, Cm4Type
  <2> QED BY <1>0, <1>10, <2>1, <2>2, <2>3, <2>4, <2>5, Kept DEF Tick, TypeOK
<1> QED BY <1>1, <1>2, <1>4, <1>5, <1>6, <1>8, <1>9, <1>10 DEF Environment

\* Every reachable state of the controller is well typed.
THEOREM TypeCorrect == Spec => []TypeOK
<1>1. Init => TypeOK
  <2> SUFFICES ASSUME Init PROVE TypeOK OBVIOUS
  <2>1. LoopType
    <3>1. pc = "top" /\ looped = FALSE /\ blinkLeft = 0 BY DEF Init
    <3>2. pc \in Labels BY <3>1 DEF Labels
    <3>3. blinkLeft \in 0 .. BlinkTicks BY <3>1, Bounds
    <3> QED BY <3>1, <3>2, <3>3 DEF LoopType
  <2>2. PktType BY DEF Init, PktType, Packet
  <2>3. ConfType BY Bounds DEF Init, ConfType
  <2>7. ArmType BY DEF Init, ArmType
  <2>4. FlagType /\ PowerType /\ Cm4Type BY DEF Init, FlagType, PowerType, Cm4Type
  <2>5. ButtonType /\ EdgeType BY Bounds DEF Init, ButtonType, EdgeType
  <2>6. quiet \in 0 .. MaxQuiet /\ allowance \in Int BY Bounds DEF Init
  <2> QED BY <2>1, <2>2, <2>3, <2>4, <2>5, <2>6, <2>7 DEF TypeOK
<1>2. TypeOK /\ [Next]_vars => TypeOK'
  <2> SUFFICES ASSUME TypeOK, [Next]_vars PROVE TypeOK' OBVIOUS
  <2>1. CASE MainLoop BY <2>1, LoopTypes, WatchdogTypes DEF MainLoop
  <2>2. CASE AlarmIsr \/ GpioIsr BY <2>2, IsrTypes
  <2>3. CASE Environment \/ Tick BY <2>3, WorldTypes
  <2>4. CASE UNCHANGED vars BY <2>4, Kept DEF vars, TypeOK
  <2> QED BY <2>1, <2>2, <2>3, <2>4 DEF Next
<1> QED BY <1>1, <1>2, PTL DEF Spec

-----------------------------------------------------------------------------
(* The watchdog resets the CM4 at most max_retries + 1 times *)

\* The resets still to come are covered by the allowance: an enabled watchdog
\* with r retries left resets the CM4 r + 1 times more, a disabled one never.
Budget ==
    /\ max_retries <= allowance
    /\ is_cm4_watchdog_enabled => max_retries + 1 <= allowance

\* A step that changes neither the settings nor the flag keeps the budget.
LEMMA BudgetKept ==
    ASSUME Budget,
           UNCHANGED <<max_retries, is_cm4_watchdog_enabled, allowance>>
    PROVE  Budget'
BY DEF Budget

\* The watchdog's own steps keep it too.
LEMMA BudgetWatchdog ==
    ASSUME TypeOK, Budget,
           NEW a,
           \/ SetRetries \/ Arm \/ CancelTimer \/ WatchdogReset(a)
    PROVE  Budget'
<1>0. max_retries \in Nat /\ allowance \in Int /\ s.retries \in Nat
  BY BodyFields DEF TypeOK, ConfType
<1>1. CASE SetRetries
  <2>1. max_retries' = s.retries /\ allowance' = s.retries + 1 BY <1>1 DEF SetRetries
  <2> QED BY <1>0, <2>1 DEF Budget
<1>2. CASE Arm
  <2>1. max_retries' = max_retries /\ allowance' = max_retries + 1 BY <1>2 DEF Arm
  <2> QED BY <1>0, <2>1 DEF Budget
<1>3. CASE CancelTimer
  <2>1. max_retries' = max_retries /\ allowance' = allowance BY <1>3 DEF CancelTimer
  <2>2. is_cm4_watchdog_enabled' => is_cm4_watchdog_enabled BY <1>3 DEF CancelTimer
  <2> QED BY <2>1, <2>2 DEF Budget
<1>4. CASE WatchdogReset(a)
  <2>1. is_cm4_watchdog_enabled /\ allowance' = allowance - 1
    BY <1>4 DEF WatchdogReset, TakeRetry
  <2>2. CASE max_retries > 0
    <3>1. max_retries' = max_retries - 1 BY <1>4, <2>2 DEF WatchdogReset, TakeRetry
    <3> QED BY <1>0, <2>1, <3>1 DEF Budget
  <2>3. CASE ~(max_retries > 0)
    <3>1. max_retries' = max_retries /\ ~is_cm4_watchdog_enabled'
      BY <1>4, <2>3 DEF WatchdogReset, TakeRetry
    <3> QED BY <1>0, <2>1, <3>1 DEF Budget
  <2> QED BY <2>2, <2>3
<1> QED BY <1>1, <1>2, <1>3, <1>4

\* No step breaks the budget.
LEMMA BudgetStep == TypeOK /\ Budget /\ [Next]_vars => Budget'
<1> SUFFICES ASSUME TypeOK, Budget, [Next]_vars PROVE Budget' OBVIOUS
<1>1. CASE MainLoop
  <2>1. CASE Top \/ SendShutdownRequest \/ ClearShutdownRequest \/ HardResetRails
    BY <2>1, BudgetKept
    DEF Top, SendShutdownRequest, ClearShutdownRequest, HardResetRails
  <2>2. CASE HardResetPulse \/ ClearHardReset \/ Poll \/ Discard
    BY <2>2, BudgetKept DEF HardResetPulse, ClearHardReset, Poll, Discard
  <2>3. CASE BlinkEnds \/ ExecStatus \/ PktShutdown \/ Reply
    BY <2>3, BudgetKept DEF BlinkEnds, ExecStatus, PktShutdown, Reply
  <2>4. CASE WatchdogUnpack \/ SetTimeout \/ TestEnabled \/ AddTimer
    BY <2>4, BudgetKept DEF WatchdogUnpack, SetTimeout, TestEnabled, AddTimer
  <2> QED BY <1>1, <2>1, <2>2, <2>3, <2>4, BudgetWatchdog DEF MainLoop
<1>2. CASE AlarmIsr
  <2>1. PICK a \in Alarms : WatchdogTimerCallback(a) BY <1>2 DEF AlarmIsr
  <2>2. CASE DropAlarm(a) BY <2>2, BudgetKept DEF DropAlarm
  <2>3. CASE WatchdogWaits(a) BY <2>3, BudgetKept DEF WatchdogWaits
  <2> QED BY <2>1, <2>2, <2>3, BudgetWatchdog DEF WatchdogTimerCallback
<1>3. CASE GpioIsr
  BY <1>3, BudgetKept
  DEF GpioIsr, ButtonPressed, ButtonStartsCm4, ButtonReleased, Cm4Fell, Cm4Rose
<1>4. CASE HostRequests \/ HostConfirms
  BY <1>4, BudgetKept DEF HostRequests, HostConfirms, Receive
<1>5. CASE Cm4PowersOff \/ Cm4Reboots \/ Cm4Boots
  BY <1>5, BudgetKept DEF Cm4PowersOff, Cm4Reboots, Cm4Boots, Cm4GoesDown
<1>6. CASE PressButton \/ ReleaseButton \/ Tick
  BY <1>6, BudgetKept DEF PressButton, ReleaseButton, MoveButton, Tick
<1>7. CASE UNCHANGED vars BY <1>7, BudgetKept DEF vars
<1> QED BY <1>1, <1>2, <1>3, <1>4, <1>5, <1>6, <1>7 DEF Next, Environment

\* After any settings the watchdog resets the CM4 at most max_retries + 1 times.
THEOREM WatchdogBudget == Spec => []NoExtraResets
<1>1. Init => Budget BY DEF Init, Budget
<1>2. TypeOK /\ Budget => NoExtraResets
  BY DEF TypeOK, ConfType, Budget, NoExtraResets
<1> QED BY <1>1, <1>2, BudgetStep, TypeCorrect, PTL DEF Spec

-----------------------------------------------------------------------------
(* An enabled watchdog has an alarm *)

\* Between add_repeating_timer_ms and the store of its result the flag is still
\* false, and an orphaned alarm of an earlier arming may clear alarm_id; the new
\* alarm is not due before the flag is set.
ArmingSafe ==
    pc = "arm" =>
        /\ due # {} => ~looped
        /\ \E a \in alarms : a \notin due
        /\ (handle \in alarms /\ handle \notin due) \/ ~looped

BlinkOnlyInBlink == blinkLeft > 0 => pc = "blink"

AliveInv == WatchdogAlive /\ ArmingSafe /\ BlinkOnlyInBlink

\* Steps that leave the alarms alone and do not reach or stay at "arm".
LEMMA AliveKept ==
    ASSUME AliveInv, pc' # "arm", BlinkOnlyInBlink',
           UNCHANGED <<is_cm4_watchdog_enabled, alarms>>
    PROVE  AliveInv'
BY DEF AliveInv, WatchdogAlive, ArmingSafe

\* Steps that run beside the main loop.
LEMMA AliveBeside ==
    ASSUME AliveInv,
           UNCHANGED <<loopVars, is_cm4_watchdog_enabled, alarms, handle, due>>
    PROVE  AliveInv'
BY DEF AliveInv, WatchdogAlive, ArmingSafe, BlinkOnlyInBlink

\* A step of the main loop keeps the blink counter where it belongs.
LEMMA BlinkKept ==
    ASSUME AliveInv, TypeOK, NEW from, NEW to, Goto(from, to), from # "blink" \/ blinkLeft = 0
    PROVE  BlinkOnlyInBlink'
BY DEF Goto, AliveInv, BlinkOnlyInBlink

\* No step leaves an enabled watchdog without an alarm.
LEMMA AliveStep == TypeOK /\ AliveInv /\ [Next]_vars => AliveInv'
<1> SUFFICES ASSUME TypeOK, AliveInv, [Next]_vars PROVE AliveInv' OBVIOUS
<1>1. CASE MainLoop
  <2>1. CASE Top \/ SendShutdownRequest \/ ClearShutdownRequest \/ HardResetRails
    <3>1. BlinkOnlyInBlink'
      BY <2>1, BlinkKept
      DEF Top, SendShutdownRequest, ClearShutdownRequest, HardResetRails
    <3> QED
      BY <2>1, <3>1, AliveKept
      DEF Top, SendShutdownRequest, ClearShutdownRequest, HardResetRails, Goto
  <2>2. CASE HardResetPulse \/ ClearHardReset \/ Poll
    <3>1. BlinkOnlyInBlink' BY <2>2, BlinkKept DEF HardResetPulse, ClearHardReset, Poll
    <3> QED BY <2>2, <3>1, AliveKept DEF HardResetPulse, ClearHardReset, Poll, Goto
  <2>3. CASE Discard
    BY <2>3, AliveKept DEF Discard, BlinkOnlyInBlink
  <2>4. CASE BlinkEnds \/ ExecStatus \/ PktShutdown \/ Reply
    <3>1. BlinkOnlyInBlink'
      BY <2>4, BlinkKept DEF BlinkEnds, ExecStatus, PktShutdown, Reply
    <3> QED BY <2>4, <3>1, AliveKept DEF BlinkEnds, ExecStatus, PktShutdown, Reply, Goto
  <2>5. CASE WatchdogUnpack \/ SetRetries \/ SetTimeout \/ TestEnabled
    <3>1. BlinkOnlyInBlink'
      BY <2>5, BlinkKept DEF WatchdogUnpack, SetRetries, SetTimeout, TestEnabled
    <3> QED
      BY <2>5, <3>1, AliveKept DEF WatchdogUnpack, SetRetries, SetTimeout, TestEnabled, Goto
  <2>6. CASE AddTimer
    <3>1. BlinkOnlyInBlink' BY <2>6, BlinkKept DEF AddTimer
    <3>2. due = {} /\ due' = {} BY <2>6 DEF AddTimer, Goto, IrqPending
    <3>3. UNCHANGED is_cm4_watchdog_enabled BY <2>6 DEF AddTimer
    <3>4. CASE alarms = Alarms /\ Goto("add", "reply") /\ UNCHANGED alarms
      BY <3>1, <3>3, <3>4, AliveKept DEF Goto
    <3>5. ASSUME NEW a \in Alarms \ alarms, alarms' = alarms \cup {a}, handle' = a
          PROVE  AliveInv'
      BY <3>1, <3>2, <3>3, <3>5 DEF AliveInv, WatchdogAlive, ArmingSafe
    <3> QED BY <2>6, <3>4, <3>5 DEF AddTimer
  <2>7. CASE Arm
    <3>1. BlinkOnlyInBlink' BY <2>7, BlinkKept DEF Arm
    <3>2. pc = "arm" /\ pc' = "reply" /\ alarms' = alarms BY <2>7 DEF Arm, Goto
    <3>3. alarms' # {} BY <3>2 DEF AliveInv, ArmingSafe
    <3> QED BY <3>1, <3>2, <3>3 DEF AliveInv, WatchdogAlive, ArmingSafe
  <2>8. CASE CancelTimer
    <3>1. BlinkOnlyInBlink' BY <2>8, BlinkKept DEF CancelTimer
    <3>2. pc' = "reply" BY <2>8 DEF CancelTimer, Goto
    <3>3. WatchdogAlive' BY <2>8 DEF CancelTimer, AliveInv, WatchdogAlive
    <3> QED BY <3>1, <3>2, <3>3 DEF AliveInv, ArmingSafe
  <2> QED BY <1>1, <2>1, <2>2, <2>3, <2>4, <2>5, <2>6, <2>7, <2>8 DEF MainLoop
<1>2. CASE AlarmIsr
  <2>1. PICK a \in Alarms : WatchdogTimerCallback(a) BY <1>2 DEF AlarmIsr
  <2>2. a \in due /\ due' = due \ {a} /\ UNCHANGED loopVars
    BY <2>1 DEF WatchdogTimerCallback
  <2>3. BlinkOnlyInBlink' BY <2>2 DEF AliveInv, BlinkOnlyInBlink
  <2>4. CASE DropAlarm(a)
    <3>1. /\ ~is_cm4_watchdog_enabled /\ ~is_cm4_watchdog_enabled'
          /\ alarms' = alarms \ {a} /\ handle' = NoAlarm
      BY <2>4 DEF DropAlarm
    <3>2. ArmingSafe' BY <2>2, <3>1 DEF AliveInv, ArmingSafe
    <3> QED BY <2>3, <3>1, <3>2 DEF AliveInv, WatchdogAlive
  <2>5. CASE WatchdogReset(a) \/ WatchdogWaits(a)
    <3>1. UNCHANGED <<alarms, handle>>
      BY <2>5 DEF WatchdogReset, WatchdogWaits, TakeRetry, KeepAlarm
    <3>2. is_cm4_watchdog_enabled' => is_cm4_watchdog_enabled
      BY <2>5 DEF WatchdogReset, WatchdogWaits, TakeRetry, KeepAlarm
    <3>3. ArmingSafe' BY <2>2, <3>1 DEF AliveInv, ArmingSafe
    <3> QED BY <2>3, <3>1, <3>2, <3>3 DEF AliveInv, WatchdogAlive
  <2> QED BY <2>1, <2>4, <2>5 DEF WatchdogTimerCallback
<1>3. CASE GpioIsr
  BY <1>3, AliveBeside
  DEF GpioIsr, ButtonPressed, ButtonStartsCm4, ButtonReleased, Cm4Fell, Cm4Rose
<1>4. CASE HostRequests \/ HostConfirms
  BY <1>4, AliveBeside DEF HostRequests, HostConfirms, Receive
<1>5. CASE Cm4PowersOff \/ Cm4Reboots \/ Cm4Boots
  BY <1>5, AliveBeside DEF Cm4PowersOff, Cm4Reboots, Cm4Boots, Cm4GoesDown
<1>6. CASE PressButton \/ ReleaseButton
  BY <1>6, AliveBeside DEF PressButton, ReleaseButton, MoveButton
<1>7. CASE Tick
  <2>1. UNCHANGED <<pc, is_cm4_watchdog_enabled, alarms, handle>> /\ ~looped'
    BY <1>7 DEF Tick
  <2>2. BlinkOnlyInBlink'
    <3>1. blinkLeft \in Nat BY Bounds DEF TypeOK, LoopType
    <3>2. blinkLeft' = IF blinkLeft > 0 THEN blinkLeft - 1 ELSE 0 BY <1>7 DEF Tick
    <3> QED BY <2>1, <3>1, <3>2 DEF AliveInv, BlinkOnlyInBlink
  <2>3. CASE pc = "arm"
    <3>1. looped BY <1>7, <2>3 DEF Tick, AliveInv, BlinkOnlyInBlink
    <3>2. handle \in alarms BY <2>3, <3>1 DEF AliveInv, ArmingSafe
    <3>3. due' = alarms \ {handle} BY <1>7, <2>3 DEF Tick
    <3> QED BY <2>1, <2>2, <3>2, <3>3 DEF AliveInv, WatchdogAlive, ArmingSafe
  <2>4. CASE pc # "arm"
    BY <2>1, <2>2, <2>4, AliveKept
  <2> QED BY <2>3, <2>4
<1>8. CASE UNCHANGED vars BY <1>8, AliveBeside DEF vars
<1> QED BY <1>1, <1>2, <1>3, <1>4, <1>5, <1>6, <1>7, <1>8 DEF Next, Environment

\* An enabled watchdog always has a live alarm in the pool.
THEOREM WatchdogStaysAlive == Spec => []WatchdogAlive
<1>1. Init => AliveInv BY DEF Init, AliveInv, WatchdogAlive, ArmingSafe, BlinkOnlyInBlink
<1>2. AliveInv => WatchdogAlive BY DEF AliveInv
<1> QED BY <1>1, <1>2, AliveStep, TypeCorrect, PTL DEF Spec

-----------------------------------------------------------------------------
(* The rails of a CM4 that is not off *)

\* A falling edge that will cut the rails of a CM4 that is not off, rails that
\* are already cut, and a confirmation withdrawn with the rails cut, all have a
\* stale confirmation behind them; a lone rising edge means that the CM4 is up.
RailsInv ==
    /\ "FALL" \in rstIrq /\ is_cm4_graceful_shutdown /\ cm4 # "off" => stale
    /\ RailsOnWhileUp
    /\ ~rails /\ ~is_cm4_graceful_shutdown => stale
    /\ rstIrq = {"RISE"} => Up
    /\ is_CM4_in_USB_Boot_mode => rstIrq = {}

\* Steps that touch neither power, nor the CM4's level, nor its edges.
LEMMA RailsKept ==
    ASSUME RailsInv, UNCHANGED <<powerVars, cm4, rstIrq, is_CM4_in_USB_Boot_mode>>
    PROVE  RailsInv'
BY DEF RailsInv, RailsOnWhileUp, Up

\* A pulse of RUN keeps the invariant, from an ISR or from the main loop.
LEMMA RailsPulse ==
    ASSUME TypeOK, RailsInv, PulseRun,
           \/ rails' = TRUE /\ stale' = StalePulse
           \/ /\ rails' = rails
              /\ stale' = (StalePulse \/ (~rails /\ (is_cm4_graceful_shutdown \/ stale))),
           UNCHANGED <<is_cm4_graceful_shutdown, is_CM4_in_USB_Boot_mode>>
    PROVE  RailsInv'
<1>1. cm4' = "reset" BY DEF PulseRun
<1>2. CASE Up /\ ~is_CM4_in_USB_Boot_mode
  <2>1. "FALL" \in rstIrq' /\ rstIrq' # {"RISE"} BY <1>2 DEF PulseRun
  <2> QED BY <1>1, <1>2, <2>1 DEF StalePulse, RailsInv, RailsOnWhileUp, TypeOK, PowerType
<1>3. CASE ~(Up /\ ~is_CM4_in_USB_Boot_mode)
  <2>1. rstIrq' = rstIrq BY <1>3 DEF PulseRun
  <2>2. rstIrq # {"RISE"} BY <1>3 DEF RailsInv
  <2> QED BY <1>1, <2>1, <2>2 DEF StalePulse, RailsInv, RailsOnWhileUp, TypeOK, PowerType
<1> QED BY <1>2, <1>3

\* No step gives a CM4 that is not off cut rails without a stale confirmation.
LEMMA RailsStep == TypeOK /\ RailsInv /\ [Next]_vars => RailsInv'
<1> SUFFICES ASSUME TypeOK, RailsInv, [Next]_vars PROVE RailsInv' OBVIOUS
<1>1. CASE MainLoop
  <2>1. CASE Top \/ SendShutdownRequest \/ ClearShutdownRequest \/ ClearHardReset
    BY <2>1, RailsKept DEF Top, SendShutdownRequest, ClearShutdownRequest, ClearHardReset
  <2>2. CASE HardResetRails
    BY <2>2 DEF HardResetRails, RailsOn, RailsInv, RailsOnWhileUp, Up
  <2>3. CASE HardResetPulse
    BY <2>3, RailsPulse DEF HardResetPulse
  <2>4. CASE Poll \/ Discard \/ BlinkEnds \/ ExecStatus \/ Reply
    BY <2>4, RailsKept DEF Poll, Discard, BlinkEnds, ExecStatus, Reply
  <2>5. CASE PktShutdown
    <3>1. rstIrq = {} /\ rstIrq' = {} BY <2>5 DEF PktShutdown, Goto, IrqPending
    <3>2. is_cm4_graceful_shutdown' = TRUE /\
          UNCHANGED <<rails, stale, cm4, is_CM4_in_USB_Boot_mode>>
      BY <2>5 DEF PktShutdown
    <3> QED BY <3>1, <3>2 DEF RailsInv, RailsOnWhileUp
  <2>6. CASE WatchdogUnpack \/ SetRetries \/ SetTimeout \/ TestEnabled
    BY <2>6, RailsKept DEF WatchdogUnpack, SetRetries, SetTimeout, TestEnabled
  <2>7. CASE AddTimer \/ Arm \/ CancelTimer
    BY <2>7, RailsKept DEF AddTimer, Arm, CancelTimer
  <2> QED BY <1>1, <2>1, <2>2, <2>3, <2>4, <2>5, <2>6, <2>7 DEF MainLoop
<1>2. CASE AlarmIsr
  <2>1. PICK a \in Alarms : WatchdogTimerCallback(a) BY <1>2 DEF AlarmIsr
  <2>2. UNCHANGED is_CM4_in_USB_Boot_mode BY <2>1 DEF WatchdogTimerCallback
  <2>3. CASE DropAlarm(a) BY <2>2, <2>3, RailsKept DEF DropAlarm
  <2>4. CASE WatchdogReset(a)
    BY <2>2, <2>4, RailsPulse DEF WatchdogReset, ResetInIsr, RailsOn
  <2>5. CASE WatchdogWaits(a) BY <2>2, <2>5, RailsKept DEF WatchdogWaits
  <2> QED BY <2>1, <2>3, <2>4, <2>5 DEF WatchdogTimerCallback
<1>3. CASE ButtonPressed \/ ButtonReleased
  BY <1>3, RailsKept DEF ButtonPressed, ButtonReleased
<1>4. CASE ButtonStartsCm4 BY <1>4, RailsPulse DEF ButtonStartsCm4, ResetInIsr, RailsOn
<1>5. CASE Cm4Fell
  <2>1. /\ "FALL" \in rstIrq /\ rstIrq' = {}
        /\ rails' = (rails /\ ~is_cm4_graceful_shutdown)
        /\ UNCHANGED <<cm4, is_cm4_graceful_shutdown, stale>>
    BY <1>5 DEF Cm4Fell
  <2> QED BY <2>1 DEF RailsInv, RailsOnWhileUp
<1>6. CASE Cm4Rose
  <2>1. /\ rstIrq = {"RISE"} /\ rstIrq' = {}
        /\ UNCHANGED <<cm4, rails, stale>>
    BY <1>6 DEF Cm4Rose
  <2>2. cm4 # "off" BY <2>1 DEF RailsInv, Up
  <2> QED BY <2>1, <2>2 DEF RailsInv, RailsOnWhileUp
<1>7. CASE HostRequests \/ HostConfirms
  BY <1>7, RailsKept DEF HostRequests, HostConfirms, Receive
<1>8. CASE Cm4PowersOff \/ Cm4Reboots
  <2>1. PICK to \in {"off", "reset"} : Cm4GoesDown(to) BY <1>8 DEF Cm4PowersOff, Cm4Reboots
  <2>2. /\ cm4 = "picod" /\ cm4' = to /\ rstIrq' = rstIrq \cup Latch("FALL")
        /\ UNCHANGED <<rails, is_cm4_graceful_shutdown, is_CM4_in_USB_Boot_mode>>
    BY <2>1 DEF Cm4GoesDown
  <2>3. stale' = stale \/ (stale' = (stale \/ is_cm4_graceful_shutdown) /\ cm4' = "reset")
    BY <1>8 DEF Cm4PowersOff, Cm4Reboots, Cm4GoesDown
  <2>4. is_cm4_graceful_shutdown /\ cm4' # "off" => stale'
    BY <1>8, <2>2 DEF Cm4PowersOff, Cm4Reboots, Cm4GoesDown
  <2>5. stale => stale' BY <2>3
  <2>6. IF is_CM4_in_USB_Boot_mode THEN rstIrq' = {} ELSE "FALL" \in rstIrq'
    BY <2>2 DEF Latch, RailsInv
  <2> QED BY <2>2, <2>4, <2>5, <2>6 DEF RailsInv, RailsOnWhileUp
<1>9. CASE Cm4Boots
  <2>1. /\ cm4 = "reset" /\ cm4' = "linux" /\ rstIrq' = rstIrq \cup Latch("RISE")
        /\ UNCHANGED <<rails, is_cm4_graceful_shutdown, is_CM4_in_USB_Boot_mode, stale>>
    BY <1>9 DEF Cm4Boots
  <2>2. "FALL" \in rstIrq' => "FALL" \in rstIrq BY <2>1 DEF Latch
  <2>3. is_CM4_in_USB_Boot_mode => rstIrq' = {} BY <2>1 DEF Latch, RailsInv
  <2> QED BY <2>1, <2>2, <2>3 DEF RailsInv, RailsOnWhileUp, Up
<1>10. CASE PressButton \/ ReleaseButton
  BY <1>10, RailsKept DEF PressButton, ReleaseButton, MoveButton
<1>11. CASE Tick
  <2>1. UNCHANGED <<powerVars, rstIrq, is_CM4_in_USB_Boot_mode>> BY <1>11 DEF Tick
  <2>2. cm4' = cm4 \/ (cm4 = "linux" /\ cm4' = "picod") BY <1>11 DEF Tick
  <2> QED BY <2>1, <2>2 DEF RailsInv, RailsOnWhileUp, Up
<1>12. CASE UNCHANGED vars BY <1>12, RailsKept DEF vars
<1> QED
  BY <1>1, <1>2, <1>3, <1>4, <1>5, <1>6, <1>7, <1>8, <1>9, <1>10, <1>11, <1>12
  DEF Next, GpioIsr, Environment

\* A CM4 that is not off has its rails, whatever presses, resets, shutdowns and
\* reboots came before, unless one of them met a confirmation that still stood.
THEOREM RailsFollowConfirmation == Spec => []RailsOnWhileUp
<1>1. Init => RailsInv BY DEF Init, RailsInv, RailsOnWhileUp
<1>2. RailsInv => RailsOnWhileUp BY DEF RailsInv
<1> QED BY <1>1, <1>2, RailsStep, TypeCorrect, PTL DEF Spec
-----------------------------------------------------------------------------
(* The firmware keeps PowerContract *)

\* What PowerContract sees.
OutsideView == <<IF Up THEN "up" ELSE cm4, rails, is_cm4_graceful_shutdown, ButtonWaits,
                 allowance>>

\* The main loop resets the CM4 for a long press that still waits.
PressWaits == pc \in {"rails", "pulse", "pulsed"} => is_host_hard_reset_request_pending

\* Only ClearHardReset takes the flag back.
LEMMA PressKept ==
    ASSUME PressWaits, pc' \notin {"rails", "pulse", "pulsed"}
    PROVE  PressWaits'
BY DEF PressWaits

LEMMA PressStep == PressWaits /\ [Next]_vars => PressWaits'
<1> SUFFICES ASSUME PressWaits, [Next]_vars PROVE PressWaits' OBVIOUS
<1>1. CASE MainLoop
  <2>1. CASE Top BY <2>1 DEF Top, Goto, PressWaits
  <2>2. CASE HardResetRails \/ HardResetPulse
    BY <2>2 DEF HardResetRails, HardResetPulse, Goto, PressWaits
  <2>3. CASE SendShutdownRequest \/ ClearShutdownRequest \/ ClearHardReset \/ Poll \/ Discard
    BY <2>3, PressKept
    DEF SendShutdownRequest, ClearShutdownRequest, ClearHardReset, Poll, Discard, Goto
  <2>4. CASE BlinkEnds \/ ExecStatus \/ PktShutdown \/ Reply \/ WatchdogUnpack
    BY <2>4, PressKept DEF BlinkEnds, ExecStatus, PktShutdown, Reply, WatchdogUnpack, Goto
  <2>5. CASE SetRetries \/ SetTimeout \/ TestEnabled \/ AddTimer \/ Arm \/ CancelTimer
    BY <2>5, PressKept DEF SetRetries, SetTimeout, TestEnabled, AddTimer, Arm, CancelTimer, Goto
  <2> QED BY <1>1, <2>1, <2>2, <2>3, <2>4, <2>5 DEF MainLoop
<1>2. CASE AlarmIsr
  BY <1>2 DEF AlarmIsr, WatchdogTimerCallback, PressWaits
<1>3. CASE GpioIsr
  BY <1>3
  DEF GpioIsr, ButtonPressed, ButtonStartsCm4, ButtonReleased, Cm4Fell, Cm4Rose, PressWaits
<1>4. CASE Environment
  BY <1>4
  DEF Environment, HostRequests, HostConfirms, Receive, Cm4PowersOff, Cm4Reboots, Cm4Boots,
      Cm4GoesDown, PressButton, ReleaseButton, MoveButton, PressWaits
<1>5. CASE Tick \/ UNCHANGED vars BY <1>5 DEF Tick, vars, PressWaits
<1> QED BY <1>1, <1>2, <1>3, <1>4, <1>5 DEF Next

\* A step that touches neither power, nor the CM4, nor the button's requests, nor the
\* allowance is not seen from outside.
LEMMA Unseen ==
    ASSUME UNCHANGED <<rails, is_cm4_graceful_shutdown, cm4, btnIrq,
                       is_host_hard_reset_request_pending, allowance>>
    PROVE  UNCHANGED OutsideView
BY DEF OutsideView, Up, ButtonWaits

LEMMA PulseSeen ==
    ASSUME PulseRun
    PROVE  (IF Up THEN "up" ELSE cm4)' = "reset"
BY DEF PulseRun, Up

LEMMA MainLoopSeen ==
    ASSUME TypeOK, PressWaits, MainLoop
    PROVE  [Contract!Next]_OutsideView
<1>1. CASE Top \/ SendShutdownRequest \/ ClearShutdownRequest \/ Poll \/ Discard
  BY <1>1, Unseen DEF Top, SendShutdownRequest, ClearShutdownRequest, Poll, Discard
<1>2. CASE BlinkEnds \/ ExecStatus \/ Reply \/ WatchdogUnpack \/ SetTimeout \/ TestEnabled
  BY <1>2, Unseen DEF BlinkEnds, ExecStatus, Reply, WatchdogUnpack, SetTimeout, TestEnabled
<1>3. CASE AddTimer \/ CancelTimer
  BY <1>3, Unseen DEF AddTimer, CancelTimer
<1>4. CASE HardResetRails
  <2>1. /\ ButtonWaits /\ rails' = TRUE
        /\ UNCHANGED <<IF Up THEN "up" ELSE cm4, is_cm4_graceful_shutdown, ButtonWaits, allowance>>
    BY <1>4 DEF HardResetRails, RailsOn, Goto, PressWaits, ButtonWaits, Up
  <2>2. Contract!RailsBack BY <2>1 DEF Contract!RailsBack
  <2> QED BY <2>2 DEF Contract!Next
<1>5. CASE HardResetPulse
  <2>1. /\ ButtonWaits /\ rails' = rails
        /\ UNCHANGED <<is_cm4_graceful_shutdown, ButtonWaits, allowance>>
    BY <1>5 DEF HardResetPulse, Goto, PressWaits, ButtonWaits
  <2>2. (IF Up THEN "up" ELSE cm4)' = "reset" BY <1>5, PulseSeen DEF HardResetPulse
  <2>3. ButtonWaits' \in BOOLEAN BY DEF ButtonWaits, TypeOK, FlagType
  <2>4. Contract!ButtonResets BY <2>1, <2>2, <2>3 DEF Contract!ButtonResets, Contract!Pulse
  <2> QED BY <2>4 DEF Contract!Next
<1>6. CASE ClearHardReset
  <2>1. /\ UNCHANGED <<IF Up THEN "up" ELSE cm4, rails, is_cm4_graceful_shutdown, allowance>>
        /\ btnIrq = {} /\ btnIrq' = {} /\ is_host_hard_reset_request_pending' = FALSE
    BY <1>6 DEF ClearHardReset, Goto, IrqPending, Up
  <2>2. ButtonWaits' = FALSE BY <2>1 DEF ButtonWaits
  <2>3. Contract!Dismiss BY <2>1, <2>2 DEF Contract!Dismiss
  <2> QED BY <2>3 DEF Contract!Next
<1>7. CASE PktShutdown
  <2>1. /\ is_cm4_graceful_shutdown' = TRUE
        /\ UNCHANGED <<IF Up THEN "up" ELSE cm4, rails, ButtonWaits, allowance>>
    BY <1>7 DEF PktShutdown, Up, ButtonWaits
  <2>2. Contract!Agree BY <2>1 DEF Contract!Agree
  <2> QED BY <2>2 DEF Contract!Next
<1>8. CASE SetRetries \/ Arm
  <2>1. UNCHANGED <<IF Up THEN "up" ELSE cm4, rails, is_cm4_graceful_shutdown, ButtonWaits>>
    BY <1>8 DEF SetRetries, Arm, Up, ButtonWaits
  <2>2. allowance' = s.retries + 1 \/ allowance' = max_retries + 1
    BY <1>8 DEF SetRetries, Arm
  <2>3. allowance' \in Nat BY <2>2, BodyFields DEF TypeOK, ConfType
  <2>4. Contract!HostAllows BY <2>1, <2>3 DEF Contract!HostAllows
  <2> QED BY <2>4 DEF Contract!Next
<1> QED BY <1>1, <1>2, <1>3, <1>4, <1>5, <1>6, <1>7, <1>8 DEF MainLoop

LEMMA AlarmSeen ==
    ASSUME TypeOK, Budget', TypeOK', AlarmIsr
    PROVE  [Contract!Next]_OutsideView
<1>1. PICK a \in Alarms : WatchdogTimerCallback(a) BY DEF AlarmIsr
<1>2. UNCHANGED <<btnIrq, is_host_hard_reset_request_pending>>
  BY <1>1 DEF WatchdogTimerCallback
<1>3. CASE DropAlarm(a) BY <1>2, <1>3, Unseen DEF DropAlarm
<1>4. CASE WatchdogWaits(a) BY <1>2, <1>4, Unseen DEF WatchdogWaits
<1>5. CASE WatchdogReset(a)
  <2>1. /\ allowance' = allowance - 1 /\ rails' = TRUE
        /\ UNCHANGED <<is_cm4_graceful_shutdown, ButtonWaits>>
    BY <1>2, <1>5 DEF WatchdogReset, ResetInIsr, RailsOn, ButtonWaits
  <2>2. (IF Up THEN "up" ELSE cm4)' = "reset"
    BY <1>5, PulseSeen DEF WatchdogReset, ResetInIsr
  <2>3. allowance \in Int /\ max_retries' \in Nat /\ max_retries' <= allowance'
    BY DEF TypeOK, ConfType, Budget
  <2>4. allowance > 0 BY <2>1, <2>3
  <2>5. Contract!WatchdogResets
    BY <2>1, <2>2, <2>4 DEF Contract!WatchdogResets, Contract!Pulse
  <2> QED BY <2>5 DEF Contract!Next
<1> QED BY <1>1, <1>3, <1>4, <1>5 DEF WatchdogTimerCallback

LEMMA GpioSeen ==
    ASSUME TypeOK, GpioIsr
    PROVE  [Contract!Next]_OutsideView
<1>1. CASE ButtonPressed
  <2>1. /\ UNCHANGED <<IF Up THEN "up" ELSE cm4, rails, is_cm4_graceful_shutdown, allowance>>
        /\ UNCHANGED is_host_hard_reset_request_pending
        /\ btnIrq' = {}
    BY <1>1 DEF ButtonPressed, Up
  <2>2. CASE is_host_hard_reset_request_pending
    BY <2>1, <2>2 DEF ButtonWaits, OutsideView
  <2>3. CASE ~is_host_hard_reset_request_pending
    <3>1. ButtonWaits' = FALSE BY <2>1, <2>3 DEF ButtonWaits
    <3>2. Contract!Dismiss BY <2>1, <3>1 DEF Contract!Dismiss
    <3> QED BY <3>2 DEF Contract!Next
  <2> QED BY <2>2, <2>3
<1>2. CASE ButtonStartsCm4
  <2>1. /\ ButtonWaits /\ rails' = TRUE
        /\ UNCHANGED <<is_cm4_graceful_shutdown, allowance, is_host_hard_reset_request_pending>>
        /\ btnIrq' = {}
    BY <1>2 DEF ButtonStartsCm4, ResetInIsr, RailsOn, ButtonWaits
  <2>2. (IF Up THEN "up" ELSE cm4)' = "reset" BY <1>2, PulseSeen DEF ButtonStartsCm4, ResetInIsr
  <2>3. ButtonWaits' \in BOOLEAN BY DEF ButtonWaits
  <2>4. Contract!ButtonResets BY <2>1, <2>2, <2>3 DEF Contract!ButtonResets, Contract!Pulse
  <2> QED BY <2>4 DEF Contract!Next
<1>3. CASE ButtonReleased
  <2>1. /\ UNCHANGED <<IF Up THEN "up" ELSE cm4, rails, is_cm4_graceful_shutdown, allowance>>
        /\ "RISE" \in btnIrq /\ btnIrq' = {}
    BY <1>3 DEF ButtonReleased, Up
  <2>2. CASE is_host_hard_reset_request_pending'
    <3>1. ButtonWaits' = TRUE BY <2>2 DEF ButtonWaits
    <3>2. Contract!LetGo BY <2>1, <3>1 DEF Contract!LetGo
    <3> QED BY <3>2 DEF Contract!Next
  <2>3. CASE ~is_host_hard_reset_request_pending'
    <3>1. ButtonWaits' = FALSE BY <2>1, <2>3 DEF ButtonWaits
    <3>2. Contract!Dismiss BY <2>1, <3>1 DEF Contract!Dismiss
    <3> QED BY <3>2 DEF Contract!Next
  <2> QED BY <2>2, <2>3
<1>4. CASE Cm4Fell
  <2>1. /\ rails' = (rails /\ ~is_cm4_graceful_shutdown)
        /\ UNCHANGED <<IF Up THEN "up" ELSE cm4, is_cm4_graceful_shutdown, ButtonWaits, allowance>>
        /\ rails \in BOOLEAN
    BY <1>4 DEF Cm4Fell, Up, ButtonWaits, TypeOK, PowerType
  <2>2. CASE is_cm4_graceful_shutdown
    <3>1. rails' = FALSE BY <2>1, <2>2
    <3>2. Contract!Cut BY <2>1, <2>2, <3>1 DEF Contract!Cut
    <3> QED BY <3>2 DEF Contract!Next
  <2>3. CASE ~is_cm4_graceful_shutdown
    <3>1. rails' = rails BY <2>1, <2>3
    <3> QED BY <2>1, <3>1 DEF OutsideView
  <2> QED BY <2>2, <2>3
<1>5. CASE Cm4Rose
  <2>1. /\ is_cm4_graceful_shutdown' = FALSE
        /\ UNCHANGED <<IF Up THEN "up" ELSE cm4, rails, ButtonWaits, allowance>>
    BY <1>5 DEF Cm4Rose, Up, ButtonWaits
  <2>2. Contract!ComesUp BY <2>1 DEF Contract!ComesUp
  <2> QED BY <2>2 DEF Contract!Next
<1> QED BY <1>1, <1>2, <1>3, <1>4, <1>5 DEF GpioIsr

LEMMA WorldSeen ==
    ASSUME TypeOK, Environment \/ Tick
    PROVE  [Contract!Next]_OutsideView
<1>1. CASE HostRequests \/ HostConfirms
  BY <1>1, Unseen DEF HostRequests, HostConfirms, Receive
<1>2. CASE Cm4PowersOff \/ Cm4Reboots \/ Cm4Boots
  <2>1. /\ UNCHANGED <<rails, is_cm4_graceful_shutdown, ButtonWaits, allowance>>
        /\ \/ cm4 = "picod" /\ cm4' \in {"off", "reset"}
           \/ cm4 = "reset" /\ cm4' = "linux"
    BY <1>2 DEF Cm4PowersOff, Cm4Reboots, Cm4Boots, Cm4GoesDown, ButtonWaits
  <2>2. Contract!Cm4Moves BY <2>1 DEF Contract!Cm4Moves, Up
  <2> QED BY <2>2 DEF Contract!Next
<1>3. CASE PressButton \/ ReleaseButton
  <2>1. PICK edge \in Edges : btnIrq' = btnIrq \cup Latch(edge)
    BY <1>3 DEF PressButton, ReleaseButton, MoveButton, Edges
  <2>2. UNCHANGED <<IF Up THEN "up" ELSE cm4, rails, is_cm4_graceful_shutdown, allowance,
                    is_host_hard_reset_request_pending>>
    BY <1>3 DEF PressButton, ReleaseButton, MoveButton, Up
  <2>3. CASE "RISE" \in btnIrq'
    <3>1. ButtonWaits' = TRUE BY <2>3 DEF ButtonWaits
    <3>2. Contract!LetGo BY <2>2, <3>1 DEF Contract!LetGo
    <3> QED BY <3>2 DEF Contract!Next
  <2>4. CASE "RISE" \notin btnIrq'
    <3>1. "RISE" \notin btnIrq BY <2>1, <2>4
    <3>2. UNCHANGED ButtonWaits BY <2>2, <2>4, <3>1 DEF ButtonWaits
    <3> QED BY <2>2, <3>2 DEF OutsideView
  <2> QED BY <2>3, <2>4
<1>4. CASE Tick
  <2>1. cm4' = cm4 \/ (cm4 = "linux" /\ cm4' = "picod") BY <1>4 DEF Tick
  <2>2. (IF Up THEN "up" ELSE cm4)' = IF Up THEN "up" ELSE cm4 BY <2>1 DEF Up
  <2>3. UNCHANGED <<rails, is_cm4_graceful_shutdown, ButtonWaits, allowance>>
    BY <1>4 DEF Tick, ButtonWaits
  <2> QED BY <2>2, <2>3 DEF OutsideView
<1> QED BY <1>1, <1>2, <1>3, <1>4 DEF Environment

LEMMA ContractStep ==
    TypeOK /\ TypeOK' /\ Budget' /\ PressWaits /\ [Next]_vars => [Contract!Next]_OutsideView
<1> SUFFICES ASSUME TypeOK, TypeOK', Budget', PressWaits, [Next]_vars
             PROVE  [Contract!Next]_OutsideView
  OBVIOUS
<1>1. CASE UNCHANGED vars BY <1>1, Unseen DEF vars
<1> QED BY <1>1, MainLoopSeen, AlarmSeen, GpioSeen, WorldSeen DEF Next

\* PicoControl implements PowerContract: for any settings, alarms and presses, the
\* firmware starts, resets and cuts off the CM4 only as the contract allows.
THEOREM ContractKept == Spec => KeepsContract
<1>1. Init => Contract!Init
  BY DEF Init, Contract!Init, Up, ButtonWaits
<1>2. Init => Budget /\ PressWaits BY DEF Init, Budget, PressWaits
<1>3. Spec => [](TypeOK /\ Budget /\ PressWaits)
  BY <1>2, BudgetStep, PressStep, TypeCorrect, PTL DEF Spec
<1> QED
  BY <1>1, <1>3, ContractStep, PTL DEF Spec, KeepsContract, Contract!Spec, OutsideView
================================================================================
