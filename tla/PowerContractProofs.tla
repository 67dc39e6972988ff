------------------------ MODULE PowerContractProofs ------------------------
(***************************************************************************)
(* The power manager and the acquisition machine together implement the    *)
(* contract of the DevicePowerState register (PowerContract), for every    *)
(* camera; and the three action properties that follow from the invariant  *)
(* of CameraPowerProofs.                                                   *)
(***************************************************************************)
EXTENDS CameraPowerProofs

Target == IF devPower = "InTransition" THEN setpoint ELSE devPower
Energised == (IF cooler THEN {"cooler"} ELSE {}) \cup (IF adc THEN {"adc"} ELSE {})
Same == UNCHANGED <<devPower, Target, Energised>>

(* A step that leaves the power state and the channels alone, and does not *)
(* turn the setpoint round in transition, is not seen by the contract.     *)
LEMMA Unseen ==
  ASSUME UNCHANGED <<devPower, channels>>,
         devPower = "InTransition" => setpoint' = setpoint
  PROVE  Same
BY DEF Same, Target, Energised, channels

(* A step of the power sequences that switches channels is a Switch.       *)
LEMMA SwitchSteps ==
  ASSUME IInv, UNCHANGED powerVars,
         TurnOn \/ WaitingForCoolerVoltage \/ WaitingForGlobalDone \/ PowerReset,
         acqState = "STOPPED" \/ acqState \notin AcquisitionStates
  PROVE  Contract!Switch \/ Same
<1> USE DEF IInv, PowerViewsAgree, OneTransition, Same, Target, Energised, powerVars,
            Contract!Channels
<1>1. acqPower = "InTransition" => devPower = "InTransition"
  OBVIOUS
<1>2. CASE TurnOn
  <2>1. devPower = "InTransition" /\ setpoint = "On"
    BY <1>2 DEF TurnOn
  <2>2. cooler' = cooler /\ adc' = TRUE
    BY <1>2 DEF TurnOn
  <2>3. Energised' = Energised \cup {"adc"}
    BY <2>2
  <2> QED
    BY <2>1, <2>3 DEF Contract!Switch
<1>3. CASE WaitingForCoolerVoltage
  <2>1. acqState = "WAITING_FOR_COOLER_VOLTAGE" /\ adc' = adc
    BY <1>3 DEF WaitingForCoolerVoltage
  <2>2. devPower = "InTransition" /\ setpoint = "On" /\ ~cooler
    BY <2>1 DEF AcquisitionStates, PowerOnStates, ChannelsFollowState
  <2>3. CASE cooler'
    <3>1. Energised' = Energised \cup {"cooler"}
      BY <2>1, <2>3
    <3> QED
      BY <2>2, <3>1 DEF Contract!Switch
  <2>4. CASE ~cooler'
    BY <2>1, <2>2, <2>4
  <2> QED
    BY <2>3, <2>4
<1>4. CASE WaitingForGlobalDone
  <2>1. acqState = "WAITING_FOR_GLOBAL_DONE"
    BY <1>4 DEF WaitingForGlobalDone, PowerStep
  <2>2. devPower = "InTransition"
    BY <2>1 DEF AcquisitionStates
  <2>3. CASE UNCHANGED channels
    BY <2>3 DEF channels
  <2>4. CASE adc' = FALSE /\ cooler' = FALSE
    BY <2>2, <2>4 DEF Contract!Switch
  <2> QED
    BY <1>4, <2>3, <2>4 DEF WaitingForGlobalDone
<1>5. CASE PowerReset
  <2>1. acqState = "POWER_RESET" /\ adc' = FALSE /\ cooler' = FALSE
    BY <1>5 DEF PowerReset
  <2>2. devPower = "InTransition"
    BY <2>1 DEF AcquisitionStates
  <2> QED
    BY <2>1, <2>2 DEF Contract!Switch
<1> QED
  BY <1>2, <1>3, <1>4, <1>5

(* One call of Acquisition_SM.                                             *)
LEMMA AcquisitionRefines ==
  ASSUME IInv, Acquire \/ Cooldown
  PROVE  Contract!Switch \/ Same
<1> USE DEF powerVars
<1>1. UNCHANGED <<devPower, setpoint>>
  BY DEF Acquire, Cooldown
<1>2. CASE Stopped
  <2>1. acqState = "STOPPED"
    BY <1>2 DEF Stopped
  <2>2. CASE TurnOn
    BY <2>1, <2>2, SwitchSteps DEF Acquire, Cooldown
  <2>3. CASE TurnOff \/ ArmOrIdle
    BY <1>1, <2>3, Unseen DEF TurnOff, ArmOrIdle
  <2> QED
    BY <1>2, <2>2, <2>3 DEF Stopped
<1>3. CASE WaitingForSensorReady \/ SensorReady \/ Started \/ WaitScdTrigModeTransition
  BY <1>1, <1>3, Unseen
     DEF WaitingForSensorReady, SensorReady, Started, WaitScdTrigModeTransition
<1>4. CASE WaitingForAdcDdcPresence \/ WaitingForCoolerPowerOn \/ WaitingForSensorTemp
  BY <1>1, <1>4, Unseen
     DEF WaitingForAdcDdcPresence, WaitingForCoolerPowerOn, WaitingForSensorTemp
<1>5. CASE WaitScdSpecificInitSeq \/ WaitingForFpaInit \/ FinalizePowerOn
  BY <1>1, <1>5, Unseen DEF WaitScdSpecificInitSeq, WaitingForFpaInit, FinalizePowerOn
<1>6. CASE WaitingForCoolerPowerOff \/ Cooldown
  BY <1>1, <1>6, Unseen DEF WaitingForCoolerPowerOff, Cooldown, WaitingForSensorCooldown
<1>7. CASE WaitingForCoolerVoltage
  BY <1>7, SwitchSteps DEF WaitingForCoolerVoltage, Acquire, Cooldown, AcquisitionStates
<1>8. CASE WaitingForGlobalDone
  BY <1>8, SwitchSteps DEF WaitingForGlobalDone, PowerStep, Acquire, Cooldown, AcquisitionStates
<1>9. CASE PowerReset
  BY <1>9, SwitchSteps DEF PowerReset, Acquire, Cooldown, AcquisitionStates
<1> QED
  BY <1>2, <1>3, <1>4, <1>5, <1>6, <1>7, <1>8, <1>9 DEF Acquire, Acquisition_SM

(* One call of Power_SM begins a transition, gives up on one or finishes   *)
(* one.                                                                    *)
LEMMA PowerRefines ==
  ASSUME IInv, Power_SM \/ PowerOnFailedEnd
  PROVE  Contract!Begin \/ Contract!GiveUp \/ Contract!Finish \/ Same
<1> USE DEF IInv, PowerViewsAgree, StandbyMeansDark, Same, Target, Energised
<1>0. devPower \in PowerStates /\ setpoint \in Setpoints
  BY DEF TypeOK, PowerTypeOK
<1>1. CASE PowerStandby
  <2>1. devPower = "Standby" /\ UNCHANGED <<cooler, adc>>
    BY <1>1 DEF PowerStandby, channels
  <2>2. devPower' = devPower \/ (devPower' = "InTransition" /\ setpoint' = "On")
    BY <1>1 DEF PowerStandby
  <2> QED
    BY <2>1, <2>2 DEF Contract!Begin
<1>2. CASE PowerOn
  <2>1. devPower = "On" /\ devPower' = "InTransition" /\ UNCHANGED <<cooler, adc>>
    BY <1>2 DEF PowerOn, channels
  <2>2. setpoint = "Standby" /\ setpoint' = "Standby"
    BY <1>2 DEF PowerOn
  <2> QED
    BY <2>1, <2>2 DEF Contract!Begin
<1>3. CASE PowerTurnedOff
  <2>1. devPower = "InTransition" /\ setpoint = "Standby" /\ acqPower = "Standby"
    BY <1>3 DEF PowerTurnedOff
  <2>2. devPower' = "Standby" /\ UNCHANGED <<cooler, adc, setpoint>>
    BY <1>3 DEF PowerTurnedOff, channels
  <2> QED
    BY <2>1, <2>2 DEF Contract!Finish
<1>4. CASE PowerOnFailed
  <2>1. devPower = "InTransition" /\ setpoint = "On" /\ acqPower = "Standby"
    BY <1>4 DEF PowerOnFailed
  <2>2. setpoint' = "Standby" /\ UNCHANGED <<cooler, adc, devPower>>
    BY <1>4 DEF PowerOnFailed, acqVars, channels
  <2> QED
    BY <2>1, <2>2 DEF Contract!GiveUp
<1>5. CASE PowerOnFailedEnd
  <2>1. devPower = "InTransition" /\ setpoint = "Standby" /\ acqPower = "Standby"
    BY <1>5 DEF PowerOnFailedEnd
  <2>2. devPower' = "Standby" /\ UNCHANGED <<cooler, adc, setpoint>>
    BY <1>5 DEF PowerOnFailedEnd, channels
  <2> QED
    BY <2>1, <2>2 DEF Contract!Finish
<1>6. CASE PowerTurnedOn
  <2>1. devPower = "InTransition" /\ setpoint = "On" /\ acqPower = "On"
    BY <1>6 DEF PowerTurnedOn
  <2>2. devPower' = "On" /\ UNCHANGED <<cooler, adc, setpoint>>
    BY <1>6 DEF PowerTurnedOn, channels
  <2>3. cooler /\ adc
    BY <2>1 DEF ChannelsFollowState
  <2> QED
    BY <2>1, <2>2, <2>3 DEF Contract!Finish, Contract!Channels
<1> QED
  BY <1>1, <1>2, <1>3, <1>4, <1>5, <1>6 DEF Power_SM

(* The host, the button and the rest of the firmware are not seen.         *)
LEMMA EnvironmentRefines ==
  ASSUME Host \/ ButtonReleased \/ Correct \/ Motors \/ DataPath \/ ValidateKey
  PROVE  Same
<1> USE DEF powerUnchanged, channels
<1>1. CASE HostSetpoint
  BY <1>1, Unseen DEF HostSetpoint, acqVars
<1>2. CASE HostStart \/ HostStop \/ HostArm
  BY <1>2, Unseen DEF HostStart, HostStop, HostArm
<1>3. CASE HostTestImage \/ HostDownloadMode \/ HostFrameRate
  BY <1>3, Unseen DEF HostTestImage, HostDownloadMode, HostFrameRate
<1>4. CASE ButtonReleased
  BY <1>4, Unseen DEF ButtonReleased, acqVars
<1>5. CASE Correct
  BY <1>5, Unseen DEF Correct
<1>6. CASE Motors \/ DataPath \/ ValidateKey
  BY <1>6, Unseen DEF Motors, DataPath, ValidateKey, acqVars
<1> QED
  BY <1>1, <1>2, <1>3, <1>4, <1>5, <1>6 DEF Host

(* The camera keeps the contract of its power register: the channels are   *)
(* switched only in transition, On is reported only with both of them on,  *)
(* Standby only with both off, and no transition turns round except from a *)
(* failed power-on.                                                        *)
THEOREM ImplementsContract == Spec => KeepsContract
<1>1. Init => Contract!Init
  BY DEF Init, AcqInit, Contract!Init
<1>2. IInv /\ [Next]_vars => [Contract!Next]_(Contract!vars)
  <2> SUFFICES ASSUME IInv, [Next]_vars
               PROVE  Contract!Next \/ Same
    BY DEF Contract!vars, Same, Target, Energised
  <2>1. CASE UNCHANGED vars
    BY <2>1, Unseen DEF vars, acqVars, powerVars
  <2>2. CASE Next
    BY <2>2, AcquisitionRefines, PowerRefines, EnvironmentRefines
       DEF Next, MainLoop, Contract!Next
  <2> QED
    BY <2>1, <2>2
<1> QED
  BY <1>1, <1>2, Invariance, PTL DEF Spec, KeepsContract, Contract!Spec

-----------------------------------------------------------------------------
(* A step outside Acquisition_SM touches neither the trigger nor, except   *)
(* to set it, the stop command.                                            *)
LEMMA OnlyAcquisitionStops ==
  ASSUME IInv, [Next]_vars, ~Acquire
  PROVE  trig' = trig /\ (stop => stop')
<1>1. CASE Cooldown
  BY <1>1 DEF Cooldown, WaitingForSensorCooldown, PowerStep, commands
<1>2. CASE PowerStandby \/ PowerOn
  <2>1. trig' = trig
    BY <1>2 DEF PowerStandby, PowerOn
  <2>2. SetPowerState("On") \/ SetPowerState("Standby") \/ stop' = stop
    BY <1>2 DEF PowerStandby, PowerOn
  <2>3. stop => stop'
    BY <2>2, Zenon DEF SetPowerState
  <2> QED
    BY <2>1, <2>3
<1>3. CASE PowerTurnedOff \/ PowerOnFailed \/ PowerTurnedOn \/ PowerOnFailedEnd
  BY <1>3 DEF PowerTurnedOff, PowerOnFailed, PowerTurnedOn, PowerOnFailedEnd,
       commands, acqVars
<1>4. CASE Host \/ ButtonReleased \/ UNCHANGED vars
  BY <1>4 DEF Host, HostSetpoint, HostStart, HostStop, HostArm, HostTestImage,
       HostDownloadMode, HostFrameRate, ButtonReleased, commands, acqVars, vars
<1>5. CASE Correct
  <2>1. trig' = trig
    BY <1>5 DEF Correct
  <2>2. stop => stop'
    BY <1>5, EnvironmentTypes DEF Correct
  <2> QED
    BY <2>1, <2>2
<1>6. CASE Motors \/ DataPath \/ ValidateKey
  BY <1>6 DEF Motors, DataPath, ValidateKey, commands, acqVars
<1> QED
  BY <1>1, <1>2, <1>3, <1>4, <1>5, <1>6 DEF Next, MainLoop, Power_SM

(* The two calls that consume a stop or open the trigger window.           *)
LEMMA QuietStates ==
  ASSUME IInv, Acquire,
         ~SensorReady, ~Started, ~WaitScdTrigModeTransition
  PROVE  trig' = trig /\ (stop /\ ~stop' => trig = "ExtraTrig")
<1>1. trig \in {"ExtraTrig", "Normal"} /\ (acqState = "STOPPED" => trig = "ExtraTrig")
  BY DEF IInv, TypeOK, AcqTypeOK, ControlTypeOK, TriggerFollowsState
<1>2. CASE Stopped
  BY <1>1, <1>2 DEF Stopped, TurnOn, TurnOff, ArmOrIdle
<1>3. CASE WaitingForSensorReady
  BY <1>3 DEF WaitingForSensorReady
<1>4. CASE WaitingForAdcDdcPresence \/ WaitingForCoolerPowerOn \/ WaitingForSensorTemp
  BY <1>4 DEF WaitingForAdcDdcPresence, WaitingForCoolerPowerOn,
       WaitingForSensorTemp, PowerStep, commands
<1>5. CASE WaitScdSpecificInitSeq \/ WaitingForFpaInit \/ WaitingForGlobalDone
  BY <1>5 DEF WaitScdSpecificInitSeq, WaitingForFpaInit, WaitingForGlobalDone,
       PowerStep, commands
<1>6. CASE WaitingForCoolerVoltage \/ FinalizePowerOn \/ WaitingForCoolerPowerOff \/ PowerReset
  BY <1>6 DEF WaitingForCoolerVoltage, FinalizePowerOn, WaitingForCoolerPowerOff,
       PowerReset, commands
<1> QED
  BY <1>2, <1>3, <1>4, <1>5, <1>6 DEF Acquire, Acquisition_SM

(* No stop command is dropped while images are being taken.                *)
THEOREM StopsAreHonoured == Spec => StopIsHonoured
<1>1. IInv /\ [Next]_vars => [stop /\ ~stop' => trig' = "ExtraTrig"]_vars
  <2> SUFFICES ASSUME IInv, [Next]_vars, stop, ~stop'
               PROVE  trig' = "ExtraTrig"
    OBVIOUS
  <2>1. Acquire
    BY OnlyAcquisitionStops
  <2>2. trig \in {"ExtraTrig", "Normal"}
    BY DEF IInv, TypeOK, AcqTypeOK, ControlTypeOK
  <2>3. CASE SensorReady
    BY <2>3 DEF SensorReady, HaltAcquisition
  <2>4. CASE Started
    BY <2>4 DEF Started, HaltAcquisition
  <2>5. CASE WaitScdTrigModeTransition
    BY <2>2, <2>5 DEF WaitScdTrigModeTransition, IInv, TriggerFollowsState
  <2> QED
    BY <2>1, <2>3, <2>4, <2>5, QuietStates
<1> QED
  BY <1>1, Invariance, PTL DEF Spec, StopIsHonoured

(* The trigger is not started while a power transition is in progress.     *)
THEOREM NoStartInTransition == Spec => NoStartDuringTransition
<1>1. IInv /\ [Next]_vars =>
        [trig = "ExtraTrig" /\ trig' = "Normal" /\ ~BypassChecks => "Power" \notin tdc]_vars
  <2> SUFFICES ASSUME IInv, [Next]_vars, trig = "ExtraTrig", trig' = "Normal", ~BypassChecks
               PROVE  "Power" \notin tdc
    OBVIOUS
  <2>1. Acquire
    BY OnlyAcquisitionStops
  <2>2. CASE SensorReady
    <3>1. PICK valid \in BOOLEAN :
            LET t == IF start THEN Verified(tdc, valid) ELSE tdc
            IN AllowAcquisitionStart(t) \/ actualisationAcqStartReady(t)
      BY <2>2 DEF SensorReady, HaltAcquisition
    <3>2. CASE AllowAcquisitionStart(IF start THEN Verified(tdc, valid) ELSE tdc)
      BY <3>2 DEF AllowAcquisitionStart, AllowAcquisitionArm, Verified,
           SensorArmMask, TestImageArmMask
    <3>3. CASE actualisationAcqStartReady(IF start THEN Verified(tdc, valid) ELSE tdc)
      BY <3>3 DEF actualisationAcqStartReady, Verified
    <3> QED
      BY <3>1, <3>2, <3>3
  <2>3. CASE Started
    BY <2>3 DEF Started, HaltAcquisition
  <2>4. CASE WaitScdTrigModeTransition
    BY <2>4 DEF WaitScdTrigModeTransition, IInv, StopPendingInTransition
  <2> QED
    BY <2>1, <2>2, <2>3, <2>4, QuietStates
<1> QED
  BY <1>1, Invariance, PTL DEF Spec, NoStartDuringTransition

(* The power manager does not undo a request to power on made in standby.  *)
THEOREM RequestsAreNotUndone == Spec => RequestNotUndone
<1>1. [Next]_vars =>
        [(Power_SM \/ PowerOnFailedEnd) /\ devPower = "Standby" /\ setpoint = "On"
           /\ setpoint' = "Standby" => ~powerAllowed]_vars
  BY DEF Power_SM, PowerStandby, PowerOn, PowerTurnedOff, PowerOnFailed,
       PowerTurnedOn, PowerOnFailedEnd
<1> QED
  BY <1>1, PTL DEF Spec, RequestNotUndone

-----------------------------------------------------------------------------
(* The contract of the acquisition commands.  What a step may do to them.  *)
Obeyed == Commands!Next \/ UNCHANGED Commands!vars

CommandTypes ==
  /\ acqState \in AcqStates
  /\ start \in BOOLEAN /\ stop \in BOOLEAN

(* How a command that is given, or dropped, is seen.                       *)
LEMMA AskIsObeyed ==
  ASSUME start => start', stop => stop', AcqRun' = AcqRun,
         ("Started" \in tdc') <=> ("Started" \in tdc)
  PROVE  Obeyed
<1>1. ("Started" \in tdc') = ("Started" \in tdc)
  OBVIOUS
<1>2. <<AcqRun, "Started" \in tdc>>' = <<AcqRun, "Started" \in tdc>>
  BY <1>1, Zenon
<1>3. Commands!Ask
  BY <1>2, Zenon DEF Commands!Ask
<1> QED
  BY <1>3, Zenon DEF Obeyed, Commands!Next

LEMMA DropIsObeyed ==
  ASSUME start' => start, stop' => stop' = stop, AcqRun = "off", AcqRun' = "off",
         ("Started" \in tdc') => ("Started" \in tdc)
  PROVE  Obeyed
<1>1. ~("Started" \in tdc)' \/ ("Started" \in tdc)' = ("Started" \in tdc)
  OBVIOUS
<1>2. Commands!Drop
  BY <1>1 DEF Commands!Drop
<1> QED
  BY <1>2, Zenon DEF Obeyed, Commands!Next

(* Outside Acquisition_SM a command is given, or nothing is seen.          *)
LEMMA OthersAsk ==
  ASSUME CommandTypes, CommandTypes', UNCHANGED acqState,
         ("Started" \in tdc') <=> ("Started" \in tdc),
         \/ UNCHANGED start /\ (stop => stop')
         \/ UNCHANGED stop /\ (start => start')
  PROVE  Obeyed
<1> USE DEF CommandTypes, Obeyed, Commands!Next, Commands!vars
<1>1. CASE UNCHANGED stop
  <2>1. UNCHANGED AcqRun
    BY <1>1 DEF AcqRun
  <2> QED
    BY <1>1, <2>1 DEF Commands!Ask
<1>2. CASE UNCHANGED start /\ ~stop /\ stop'
  <2>1. CASE acqState = "WAIT_SCD_TRIG_MODE_TRANSITION"
    <3>1. AcqRun = "paused" /\ AcqRun' = "off"
      BY <1>2, <2>1 DEF AcqRun
    <3> QED
      BY <1>2, <3>1 DEF Commands!Halt
  <2>2. CASE acqState # "WAIT_SCD_TRIG_MODE_TRANSITION"
    <3>1. UNCHANGED AcqRun
      BY <2>2 DEF AcqRun
    <3> QED
      BY <1>2, <3>1, AskIsObeyed
  <2> QED
    BY <2>1, <2>2
<1> QED
  BY <1>1, <1>2

LEMMA PowerAsks ==
  ASSUME CommandTypes, CommandTypes', Power_SM \/ PowerOnFailedEnd
  PROVE  Obeyed
<1>1. UNCHANGED acqState
  BY DEF Power_SM, PowerStandby, PowerOn, PowerTurnedOff, PowerOnFailed, PowerTurnedOn,
         PowerOnFailedEnd, acqVars
<1>2. ("Started" \in tdc') <=> ("Started" \in tdc)
  BY FeatureAssumption DEF Power_SM, PowerStandby, PowerOn, PowerTurnedOff, PowerOnFailed,
         PowerTurnedOn, PowerOnFailedEnd, acqVars
<1>3. UNCHANGED start /\ (stop => stop')
  <2>1. CASE PowerStandby \/ PowerOn
    <3>1. SetPowerState("On") \/ SetPowerState("Standby") \/ UNCHANGED stop
      BY <2>1 DEF PowerStandby, PowerOn
    <3> QED
      BY <2>1, <3>1 DEF PowerStandby, PowerOn, SetPowerState, CommandTypes
  <2>2. CASE PowerTurnedOff \/ PowerOnFailed \/ PowerTurnedOn \/ PowerOnFailedEnd
    BY <2>2 DEF PowerTurnedOff, PowerOnFailed, PowerTurnedOn, PowerOnFailedEnd, acqVars, commands
  <2> QED
    BY <2>1, <2>2 DEF Power_SM
<1> QED
  BY <1>1, <1>2, <1>3, OthersAsk

LEMMA EnvironmentAsks ==
  ASSUME CommandTypes, CommandTypes',
         \/ Host \/ ButtonReleased \/ Correct \/ Motors \/ DataPath \/ ValidateKey
         \/ UNCHANGED vars
  PROVE  Obeyed
<1> USE DEF acqVars, commands, vars
<1>1. CASE Host
  BY <1>1, OthersAsk DEF Host, HostSetpoint, HostStart, HostStop, HostArm, HostTestImage,
     HostDownloadMode, HostFrameRate
<1>2. CASE ButtonReleased \/ ValidateKey \/ UNCHANGED vars
  BY <1>2, OthersAsk DEF ButtonReleased, ValidateKey
<1>3. CASE Motors \/ DataPath
  BY <1>3, OthersAsk DEF Motors, DataPath
<1>4. CASE Correct
  <2>1. UNCHANGED acqState /\ (("Started" \in tdc') <=> ("Started" \in tdc))
    BY <1>4 DEF Correct
  <2>2. \/ UNCHANGED start /\ (stop => stop')
        \/ UNCHANGED stop /\ (start => start')
    BY <1>4 DEF Correct, CommandTypes
  <2> QED
    BY <2>1, <2>2, OthersAsk
<1> QED
  BY <1>1, <1>2, <1>3, <1>4

(* The states outside an acquisition: what is dropped or asked there.      *)
LEMMA OffStatesObey ==
  ASSUME CommandTypes, CommandTypes', Acquire \/ Cooldown,
         acqState \notin AcquisitionStates
  PROVE  Obeyed
<1> USE DEF AcquisitionStates, commands, PowerStep
<1>1. UNCHANGED stop /\ (start => start')
        /\ (acqState' \notin AcquisitionStates \/ acqState' = "STOPPED")
  <2>1. CASE WaitingForAdcDdcPresence \/ WaitingForCoolerPowerOn \/ WaitingForSensorTemp
             \/ WaitScdSpecificInitSeq \/ WaitingForFpaInit \/ WaitingForGlobalDone
    BY <2>1 DEF WaitingForAdcDdcPresence, WaitingForCoolerPowerOn, WaitingForSensorTemp,
                WaitScdSpecificInitSeq, WaitingForFpaInit, WaitingForGlobalDone
  <2>2. CASE Cooldown
    BY <2>2, BuildAssumption DEF Cooldown, WaitingForSensorCooldown
  <2>3. CASE WaitingForCoolerVoltage \/ WaitingForCoolerPowerOff \/ PowerReset \/ FinalizePowerOn
    BY <2>3 DEF WaitingForCoolerVoltage, WaitingForCoolerPowerOff, PowerReset, FinalizePowerOn,
                CommandTypes
  <2>4. CASE Stopped \/ WaitingForSensorReady \/ SensorReady \/ Started \/ WaitScdTrigModeTransition
    BY <2>4 DEF Stopped, WaitingForSensorReady, SensorReady, Started, WaitScdTrigModeTransition
  <2> QED
    BY <2>1, <2>2, <2>3, <2>4 DEF Acquire, Acquisition_SM
<1>2. ("Started" \in tdc') <=> ("Started" \in tdc)
  <2>1. CASE WaitingForAdcDdcPresence \/ WaitingForCoolerPowerOn \/ WaitingForSensorTemp
             \/ WaitScdSpecificInitSeq \/ WaitingForFpaInit \/ WaitingForGlobalDone
    BY <2>1 DEF WaitingForAdcDdcPresence, WaitingForCoolerPowerOn, WaitingForSensorTemp,
                WaitScdSpecificInitSeq, WaitingForFpaInit, WaitingForGlobalDone
  <2>2. CASE Cooldown
    BY <2>2 DEF Cooldown, WaitingForSensorCooldown
  <2>3. CASE WaitingForCoolerVoltage \/ WaitingForCoolerPowerOff \/ PowerReset \/ FinalizePowerOn
    BY <2>3 DEF WaitingForCoolerVoltage, WaitingForCoolerPowerOff, PowerReset, FinalizePowerOn
  <2>4. CASE Stopped \/ WaitingForSensorReady \/ SensorReady \/ Started \/ WaitScdTrigModeTransition
    BY <2>4 DEF Stopped, WaitingForSensorReady, SensorReady, Started, WaitScdTrigModeTransition
  <2> QED
    BY <2>1, <2>2, <2>3, <2>4 DEF Acquire, Acquisition_SM
<1>3. AcqRun = "off" /\ AcqRun' = "off"
  BY <1>1 DEF AcqRun
<1> QED
  BY <1>1, <1>2, <1>3 DEF Obeyed, Commands!Next, Commands!Ask

(* The states of an acquisition.                                           *)
LEMMA AcquisitionObeys ==
  ASSUME IInv, CommandTypes, CommandTypes', Acquire, acqState \in AcquisitionStates
  PROVE  Obeyed
<1> USE DEF AcqRun, Obeyed, Commands!Next, Commands!vars, commands, AcquisitionStates
<1>1. CASE Stopped
  <2>1. CASE TurnOn \/ TurnOff
    BY <1>1, <2>1 DEF Stopped, TurnOn, TurnOff, Commands!Drop
  <2>2. CASE ArmOrIdle
    <3>1. CASE ~start /\ ~arm
      BY <1>1, <2>2, <3>1 DEF Stopped, ArmOrIdle, Arm, Commands!Drop
    <3>2. CASE start \/ arm
      <4>1. PICK valid \in BOOLEAN : Arm(valid)
        BY <2>2, <3>2 DEF ArmOrIdle
      <4>2. CASE valid
        BY <1>1, <4>1, <4>2 DEF Stopped, Arm, Verified, Commands!Arm
      <4>3. CASE ~valid
        BY <1>1, <4>1, <4>3 DEF Stopped, Arm, Verified, Commands!Drop
      <4> QED
        BY <4>2, <4>3
    <3> QED
      BY <3>1, <3>2
  <2> QED
    BY <1>1, <2>1, <2>2 DEF Stopped
<1>2. CASE WaitingForSensorReady
  <2>1. CASE playback
    BY <1>2, <2>1 DEF WaitingForSensorReady, Commands!Disarm
  <2>2. CASE ~playback
    BY <1>2, <2>2 DEF WaitingForSensorReady
  <2> QED
    BY <2>1, <2>2
<1>3. CASE SensorReady
  <2>1. CASE stop
    <3>1. ~start' /\ (("Started" \in tdc') <=> ("Started" \in tdc))
      BY <1>3, <2>1 DEF SensorReady, HaltAcquisition, Verified
    <3>2. acqState = "SENSOR_READY"
            /\ (acqState' = "STOPPED" \/ (acqState' = "WAIT_SCD_TRIG_MODE_TRANSITION" /\ stop'))
      BY <1>3, <2>1 DEF SensorReady, HaltAcquisition
    <3> QED
      BY <3>1, <3>2 DEF Commands!Disarm
  <2>2. CASE ~stop
    <3>1. UNCHANGED stop /\ ~start' /\ (("Started" \in tdc') <=> ("Started" \in tdc))
      BY <1>3, <2>2 DEF SensorReady, Verified
    <3>2. acqState = "SENSOR_READY" /\ (acqState' = "SENSOR_READY" \/ (start /\ acqState' = "STARTED"))
      BY <1>3, <2>2 DEF SensorReady
    <3> QED
      BY <2>2, <3>1, <3>2 DEF Commands!Refuse, Commands!Begin
  <2> QED
    BY <2>1, <2>2
<1>4. CASE Started
  <2>1. CASE stop \/ arm
    <3>1. UNCHANGED start /\ (("Started" \in tdc') <=> ("Started" \in tdc))
      BY <1>4, <2>1 DEF Started, HaltAcquisition
    <3>2. acqState = "STARTED"
            /\ (acqState' = "STOPPED" \/ (acqState' = "WAIT_SCD_TRIG_MODE_TRANSITION" /\ stop'))
      BY <1>4, <2>1 DEF Started, HaltAcquisition
    <3> QED
      BY <3>1, <3>2 DEF Commands!Halt
  <2>2. CASE ~stop /\ ~arm
    BY <1>4, <2>2 DEF Started, Commands!Report
  <2> QED
    BY <2>1, <2>2
<1>5. CASE WaitScdTrigModeTransition
  <2>1. CASE stop
    <3>1. UNCHANGED start /\ ~stop' /\ (("Started" \in tdc') <=> ("Started" \in tdc))
      BY <1>5, <2>1 DEF WaitScdTrigModeTransition
    <3>2. acqState = "WAIT_SCD_TRIG_MODE_TRANSITION" /\ acqState' = "STOPPED"
      BY <1>5, <2>1 DEF WaitScdTrigModeTransition
    <3>3. AcqRun = "off" /\ AcqRun' = "off"
      BY <2>1, <3>2
    <3> QED
      BY <3>1, <3>3, DropIsObeyed
  <2>2. CASE ~stop
    BY <1>5, <2>2 DEF WaitScdTrigModeTransition, Commands!Resume
  <2> QED
    BY <2>1, <2>2
<1>6. CASE WaitingForAdcDdcPresence \/ WaitingForCoolerPowerOn \/ WaitingForSensorTemp
           \/ WaitScdSpecificInitSeq \/ WaitingForFpaInit \/ WaitingForGlobalDone
           \/ WaitingForCoolerVoltage \/ WaitingForCoolerPowerOff \/ PowerReset \/ FinalizePowerOn
  BY <1>6 DEF WaitingForAdcDdcPresence, WaitingForCoolerPowerOn, WaitingForSensorTemp,
              WaitScdSpecificInitSeq, WaitingForFpaInit, WaitingForGlobalDone,
              WaitingForCoolerVoltage, WaitingForCoolerPowerOff, PowerReset, FinalizePowerOn,
              PowerStep
<1> QED
  BY <1>1, <1>2, <1>3, <1>4, <1>5, <1>6 DEF Acquire, Acquisition_SM

(* Through power transitions, changes of the frame rate and the commands   *)
(* of three writers, a start is obeyed once and never against a pending    *)
(* stop, and a stop is pending until nothing is armed or acquired          *)
(* (Acquisition.c).                                                        *)
THEOREM CommandsAreObeyed == Spec => ObeysCommands
<1>1. Init => Commands!Init
  BY DEF Init, AcqInit, Commands!Init, AcqRun
<1>2. IInv /\ IInv' /\ [Next]_vars => [Commands!Next]_(Commands!vars)
  <2> SUFFICES ASSUME IInv, IInv', [Next]_vars
               PROVE  Obeyed
    BY DEF Obeyed
  <2>1. CommandTypes /\ CommandTypes'
    BY DEF CommandTypes, IInv, TypeOK, AcqTypeOK, ControlTypeOK, FlagTypeOK
  <2>2. CASE Acquire \/ Cooldown
    <3>1. CASE acqState \in AcquisitionStates /\ Acquire
      BY <2>1, <3>1, AcquisitionObeys
    <3>2. CASE acqState \notin AcquisitionStates
      BY <2>1, <2>2, <3>2, OffStatesObey
    <3>3. CASE acqState \in AcquisitionStates /\ Cooldown
      BY <3>3 DEF Cooldown, WaitingForSensorCooldown, PowerStep, AcquisitionStates
    <3> QED
      BY <2>2, <3>1, <3>2, <3>3
  <2> QED
    BY <2>1, <2>2, PowerAsks, EnvironmentAsks DEF Next, MainLoop
<1> QED
  BY <1>1, <1>2, Invariance, PTL DEF Spec, ObeysCommands, Commands!Spec
=============================================================================
