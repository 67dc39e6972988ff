------------------------- MODULE CameraPowerProofs -------------------------
(***************************************************************************)
(* Proofs about CameraPower for every build and every feature set: IInv is *)
(* an inductive invariant, and the safety properties follow from it.       *)
(*                                                                         *)
(* Every step is one of three kinds.  A step of the environment leaves     *)
(* alone everything IInv relates (EnvironmentPreserves); a write of the    *)
(* setpoint register has no effect in transition (SetpointPreserves); and  *)
(* each call of the two state machines is examined on its own.             *)
(***************************************************************************)
EXTENDS CameraPower, TLAPS

USE DEF statics, commands, channels, inputs, powerVars,
        AcquisitionStates, PowerOnStates, PowerOffStates

(* The initial state, in which the power is off and no test has run,       *)
(* satisfies the invariant.                                                *)
LEMMA InitIInv == Init => IInv
<1> SUFFICES ASSUME Init PROVE IInv
  OBVIOUS
<1>1. TypeOK
  <2>1. ControlTypeOK /\ StatusTypeOK
    BY DEF Init, AcqInit, ControlTypeOK, StatusTypeOK, AcqStates, PowerStates,
         TDCBits, BITResults
  <2>2. FlagTypeOK /\ InputTypeOK /\ PowerTypeOK
    BY DEF Init, AcqInit, FlagTypeOK, InputTypeOK, PowerTypeOK, PowerStates,
         Setpoints
  <2> QED
    BY <2>1, <2>2 DEF TypeOK, AcqTypeOK
<1>2. PowerViewsAgree /\ OneTransition /\ TriggerFollowsState /\ NoInvalidPowerState
  BY DEF Init, AcqInit, PowerViewsAgree, OneTransition, TriggerFollowsState,
       NoInvalidPowerState
<1>3. NoAcquisitionWhilePowering /\ StopPendingInTransition /\ ChannelsFollowState
  BY DEF Init, AcqInit, NoAcquisitionWhilePowering, StopPendingInTransition,
       ChannelsFollowState
<1>4. TestsFollowState /\ StandbyMeansDark /\ ResetIsExplained
  BY DEF Init, AcqInit, TestsFollowState, StandbyMeansDark, ResetIsExplained
<1> QED
  BY <1>1, <1>2, <1>3, <1>4 DEF IInv

(* What the invariant says of the variables the environment writes.        *)
LEMMA EnvironmentTypes ==
  ASSUME IInv
  PROVE  /\ start \in BOOLEAN /\ stop \in BOOLEAN /\ arm \in BOOLEAN
         /\ powerAllowed \in BOOLEAN /\ tdc \subseteq TDCBits /\ InputTypeOK
  BY DEF IInv, TypeOK, AcqTypeOK, FlagTypeOK, StatusTypeOK, PowerTypeOK

(* A step that changes only commands, inputs and status bits other than    *)
(* the power and cooler bits, and drops no stop command, preserves IInv.   *)
LEMMA EnvironmentPreserves ==
  ASSUME IInv,
         UNCHANGED <<acqState, statics, bit, channels, trig, config,
                     devPower, setpoint, powerStartup, pc>>,
         start' \in BOOLEAN, stop' \in BOOLEAN, arm' \in BOOLEAN,
         powerAllowed' \in BOOLEAN, tdc' \subseteq TDCBits, InputTypeOK',
         stop => stop',
         "Power" \in tdc' <=> "Power" \in tdc,
         "Cooler" \in tdc' <=> "Cooler" \in tdc
  PROVE  IInv'
<1> USE DEF IInv
<1>1. ControlTypeOK' /\ StatusTypeOK'
  BY DEF TypeOK, AcqTypeOK, ControlTypeOK, StatusTypeOK
<1>2. FlagTypeOK'
  BY DEF TypeOK, AcqTypeOK, FlagTypeOK
<1>3. PowerTypeOK'
  BY DEF TypeOK, PowerTypeOK
<1>4. (PowerViewsAgree /\ OneTransition /\ NoInvalidPowerState)'
  BY DEF PowerViewsAgree, OneTransition, NoInvalidPowerState
<1>5. (TriggerFollowsState /\ NoAcquisitionWhilePowering /\ StopPendingInTransition)'
  BY DEF TriggerFollowsState, NoAcquisitionWhilePowering,
       StopPendingInTransition
<1>6. (ChannelsFollowState /\ TestsFollowState)'
  BY DEF ChannelsFollowState, TestsFollowState
<1>7. (StandbyMeansDark /\ ResetIsExplained)'
  BY DEF StandbyMeansDark, ResetIsExplained
<1> QED
  BY <1>1, <1>2, <1>3, <1>4, <1>5, <1>6, <1>7 DEF TypeOK, AcqTypeOK

(* A write of the setpoint register that has no effect in transition       *)
(* preserves IInv: the host's, and the button's.                           *)
LEMMA SetpointPreserves ==
  ASSUME IInv, UNCHANGED <<acqVars, devPower, powerStartup, powerAllowed, pc>>,
         setpoint' \in Setpoints,
         devPower = "InTransition" => setpoint' = setpoint
  PROVE  IInv'
<1> USE DEF IInv, acqVars
<1>1. ControlTypeOK' /\ StatusTypeOK'
  BY DEF TypeOK, AcqTypeOK, ControlTypeOK, StatusTypeOK
<1>2. FlagTypeOK' /\ InputTypeOK'
  BY DEF TypeOK, AcqTypeOK, FlagTypeOK, InputTypeOK
<1>3. PowerTypeOK'
  BY DEF TypeOK, PowerTypeOK
<1>4. (PowerViewsAgree /\ OneTransition /\ NoInvalidPowerState)'
  BY DEF PowerViewsAgree, OneTransition, NoInvalidPowerState
<1>5. (TriggerFollowsState /\ NoAcquisitionWhilePowering /\ StopPendingInTransition)'
  BY DEF TriggerFollowsState, NoAcquisitionWhilePowering,
       StopPendingInTransition
<1>6. (ChannelsFollowState /\ TestsFollowState)'
  BY DEF ChannelsFollowState, TestsFollowState
<1>7. (StandbyMeansDark /\ ResetIsExplained)'
  BY DEF StandbyMeansDark, ResetIsExplained
<1> QED
  BY <1>1, <1>2, <1>3, <1>4, <1>5, <1>6, <1>7 DEF TypeOK, AcqTypeOK

(* A register write of the host preserves the invariant.                   *)
LEMMA HostPreserves ==
  ASSUME IInv, Host
  PROVE  IInv'
<1> USE DEF powerUnchanged, acqVars
<1>1. CASE HostSetpoint
  BY <1>1, SetpointPreserves DEF HostSetpoint, IInv, TypeOK, PowerTypeOK
<1>2. CASE HostStart
  BY <1>2, EnvironmentTypes, EnvironmentPreserves DEF HostStart, InputTypeOK
<1>3. CASE HostStop
  BY <1>3, EnvironmentTypes, EnvironmentPreserves DEF HostStop, InputTypeOK
<1>4. CASE HostArm
  BY <1>4, EnvironmentTypes, EnvironmentPreserves DEF HostArm, InputTypeOK
<1>5. CASE HostTestImage
  BY <1>5, EnvironmentTypes, EnvironmentPreserves DEF HostTestImage,
       InputTypeOK
<1>6. CASE HostDownloadMode
  BY <1>6, EnvironmentTypes, EnvironmentPreserves DEF HostDownloadMode,
       InputTypeOK
<1>7. CASE HostFrameRate
  <2>1. waitFW' \in BOOLEAN
    <3>1. PICK sync \in {FALSE, SyncFilterWheel} : waitFW' = (waitFW \/ sync)
      BY <1>7 DEF HostFrameRate
    <3>2. waitFW \in BOOLEAN /\ sync \in BOOLEAN
      BY EnvironmentTypes, FeatureAssumption DEF InputTypeOK
    <3>3. (waitFW \/ sync) \in BOOLEAN
      BY <3>2
    <3> QED
      BY <3>1, <3>3
  <2>2. frPostponed' \in BOOLEAN
    <3>1. PICK applied \in BOOLEAN :
            frPostponed' = IF applied THEN "Started" \in tdc ELSE frPostponed
      BY <1>7 DEF HostFrameRate
    <3>2. frPostponed \in BOOLEAN /\ ("Started" \in tdc) \in BOOLEAN
      BY EnvironmentTypes DEF InputTypeOK
    <3> QED
      BY <3>1, <3>2
  <2>3. InputTypeOK'
    BY <1>7, <2>1, <2>2, EnvironmentTypes DEF HostFrameRate, InputTypeOK
  <2> QED
    BY <1>7, <2>3, EnvironmentTypes, EnvironmentPreserves DEF HostFrameRate
<1> QED
  BY <1>1, <1>2, <1>3, <1>4, <1>5, <1>6, <1>7 DEF Host

(* So does a step of the image correction process, which may start and     *)
(* stop acquisitions but never drops a stop command.                       *)
LEMMA CorrectPreserves ==
  ASSUME IInv, Correct
  PROVE  IInv'
<1> USE DEF powerUnchanged
<1>1. InputTypeOK'
  BY EnvironmentTypes, FeatureAssumption, BuildAssumption DEF Correct,
       InputTypeOK
<1>2. start' \in BOOLEAN
  BY EnvironmentTypes DEF Correct
<1>3. stop' \in BOOLEAN
  BY EnvironmentTypes DEF Correct
<1>4. stop => stop'
  BY EnvironmentTypes DEF Correct
<1>5. /\ tdc' \subseteq TDCBits
      /\ "Power" \in tdc' <=> "Power" \in tdc
      /\ "Cooler" \in tdc' <=> "Cooler" \in tdc
  BY EnvironmentTypes DEF Correct, TDCBits
<1>6. UNCHANGED <<acqState, statics, arm, bit, channels, trig, config,
                  devPower, setpoint, powerStartup, powerAllowed, pc>>
  BY DEF Correct
<1> QED
  BY <1>1, <1>2, <1>3, <1>4, <1>5, <1>6, EnvironmentTypes,
       EnvironmentPreserves

(* So do the motors, the data path, the device key, and a stuttering step. *)
LEMMA OthersPreserve ==
  ASSUME IInv, Motors \/ DataPath \/ ValidateKey \/ UNCHANGED vars
  PROVE  IInv'
<1> USE DEF powerUnchanged, acqVars
<1>1. CASE Motors
  BY <1>1, EnvironmentTypes, EnvironmentPreserves DEF Motors, InputTypeOK,
       TDCBits
<1>2. CASE DataPath
  BY <1>2, EnvironmentTypes, EnvironmentPreserves DEF DataPath, InputTypeOK,
       TDCBits
<1>3. CASE ValidateKey
  BY <1>3, EnvironmentTypes, EnvironmentPreserves DEF ValidateKey, InputTypeOK
<1>4. CASE UNCHANGED vars
  BY <1>4, EnvironmentTypes, EnvironmentPreserves DEF vars, InputTypeOK
<1> QED
  BY <1>1, <1>2, <1>3, <1>4

(* So does a release of the power button.                                  *)
LEMMA ButtonPreserves ==
  ASSUME IInv, ButtonReleased
  PROVE  IInv'
  BY SetpointPreserves DEF ButtonReleased, Setpoints, IInv, TypeOK,
       PowerTypeOK

(* The camera turns on: the running acquisition has been stopped, and the  *)
(* tests restart.                                                          *)
LEMMA TurnOnPreserves ==
  ASSUME IInv, acqState = "STOPPED", TurnOn, UNCHANGED powerVars
  PROVE  IInv'
<1> USE DEF IInv, TurnOn
<1>1. ControlTypeOK'
  BY DEF TypeOK, AcqTypeOK, ControlTypeOK, AcqStates
<1>2. StatusTypeOK'
  BY DEF TypeOK, AcqTypeOK, StatusTypeOK, BITResults
<1>3. FlagTypeOK'
  BY DEF TypeOK, AcqTypeOK, FlagTypeOK
<1>4. InputTypeOK' /\ PowerTypeOK'
  BY DEF TypeOK, AcqTypeOK, InputTypeOK, PowerTypeOK
<1>5. (PowerViewsAgree /\ OneTransition /\ NoInvalidPowerState)'
  BY DEF PowerViewsAgree, OneTransition, NoInvalidPowerState
<1>6. (TriggerFollowsState /\ NoAcquisitionWhilePowering /\ StopPendingInTransition)'
  BY DEF TypeOK, AcqTypeOK, ControlTypeOK, TriggerFollowsState,
       NoAcquisitionWhilePowering, StopPendingInTransition
<1>7. (ChannelsFollowState /\ TestsFollowState)'
  BY DEF ChannelsFollowState, TestsFollowState, BITs
<1>8. (StandbyMeansDark /\ ResetIsExplained)'
  BY DEF StandbyMeansDark, ResetIsExplained, OneTransition
<1> QED
  BY <1>1, <1>2, <1>3, <1>4, <1>5, <1>6, <1>7, <1>8 DEF TypeOK, AcqTypeOK

(* The camera turns off.                                                   *)
LEMMA TurnOffPreserves ==
  ASSUME IInv, acqState = "STOPPED", TurnOff, UNCHANGED powerVars
  PROVE  IInv'
<1> USE DEF IInv, TurnOff
<1>1. ControlTypeOK'
  BY DEF TypeOK, AcqTypeOK, ControlTypeOK, AcqStates
<1>2. StatusTypeOK'
  BY DEF TypeOK, AcqTypeOK, StatusTypeOK, BITResults
<1>3. FlagTypeOK'
  BY DEF TypeOK, AcqTypeOK, FlagTypeOK
<1>4. InputTypeOK' /\ PowerTypeOK'
  BY DEF TypeOK, AcqTypeOK, InputTypeOK, PowerTypeOK
<1>5. (PowerViewsAgree /\ OneTransition /\ NoInvalidPowerState)'
  BY DEF PowerViewsAgree, OneTransition, NoInvalidPowerState
<1>6. (TriggerFollowsState /\ NoAcquisitionWhilePowering /\ StopPendingInTransition)'
  BY DEF TypeOK, AcqTypeOK, ControlTypeOK, TriggerFollowsState,
       NoAcquisitionWhilePowering, StopPendingInTransition
<1>7. (ChannelsFollowState /\ TestsFollowState)'
  BY DEF ChannelsFollowState, TestsFollowState, OneTransition
<1>8. (StandbyMeansDark /\ ResetIsExplained)'
  BY DEF ChannelsFollowState, StandbyMeansDark, ResetIsExplained
<1> QED
  BY <1>1, <1>2, <1>3, <1>4, <1>5, <1>6, <1>7, <1>8 DEF TypeOK, AcqTypeOK

(* An arm command, or a call that finds nothing to do in ACQ_STOPPED.      *)
LEMMA ArmOrIdlePreserves ==
  ASSUME IInv, acqState = "STOPPED", ArmOrIdle, UNCHANGED powerVars
  PROVE  IInv'
<1> USE DEF IInv, ArmOrIdle, Arm, Verified
<1>1. ControlTypeOK'
  BY DEF TypeOK, AcqTypeOK, ControlTypeOK, AcqStates
<1>2. StatusTypeOK'
  BY DEF TypeOK, AcqTypeOK, StatusTypeOK, TDCBits
<1>3. FlagTypeOK'
  BY DEF TypeOK, AcqTypeOK, FlagTypeOK
<1>4. InputTypeOK' /\ PowerTypeOK'
  BY DEF TypeOK, AcqTypeOK, InputTypeOK, PowerTypeOK
<1>5. (PowerViewsAgree /\ OneTransition /\ NoInvalidPowerState)'
  BY DEF PowerViewsAgree, OneTransition, NoInvalidPowerState
<1>6. (TriggerFollowsState /\ NoAcquisitionWhilePowering /\ StopPendingInTransition)'
  BY DEF TriggerFollowsState, NoAcquisitionWhilePowering,
       StopPendingInTransition, OneTransition
<1>7. (ChannelsFollowState /\ TestsFollowState)'
  BY DEF ChannelsFollowState, TestsFollowState
<1>8. (StandbyMeansDark /\ ResetIsExplained)'
  BY DEF StandbyMeansDark, ResetIsExplained
<1> QED
  BY <1>1, <1>2, <1>3, <1>4, <1>5, <1>6, <1>7, <1>8 DEF TypeOK, AcqTypeOK

(* The end of ACQ_WAITING_FOR_SENSOR_READY.                                *)
LEMMA WaitingForSensorReadyPreserves ==
  ASSUME IInv, WaitingForSensorReady, UNCHANGED powerVars
  PROVE  IInv'
<1> USE DEF IInv, WaitingForSensorReady
<1>1. ControlTypeOK'
  BY DEF TypeOK, AcqTypeOK, ControlTypeOK, AcqStates
<1>2. StatusTypeOK'
  BY DEF TypeOK, AcqTypeOK, StatusTypeOK
<1>3. FlagTypeOK'
  BY DEF TypeOK, AcqTypeOK, FlagTypeOK
<1>4. InputTypeOK' /\ PowerTypeOK'
  BY DEF TypeOK, AcqTypeOK, InputTypeOK, PowerTypeOK
<1>5. (PowerViewsAgree /\ OneTransition /\ NoInvalidPowerState)'
  BY DEF PowerViewsAgree, OneTransition, NoInvalidPowerState
<1>6. (TriggerFollowsState /\ NoAcquisitionWhilePowering /\ StopPendingInTransition)'
  BY DEF TriggerFollowsState, NoAcquisitionWhilePowering,
       StopPendingInTransition
<1>7. (ChannelsFollowState /\ TestsFollowState)'
  BY DEF ChannelsFollowState, TestsFollowState
<1>8. (StandbyMeansDark /\ ResetIsExplained)'
  BY DEF StandbyMeansDark, ResetIsExplained
<1> QED
  BY <1>1, <1>2, <1>3, <1>4, <1>5, <1>6, <1>7, <1>8 DEF TypeOK, AcqTypeOK

(* A start is refused while the power bit is set, so that a transition     *)
(* finds no acquisition without a stop pending.                            *)
LEMMA SensorReadyPreserves ==
  ASSUME IInv, SensorReady, UNCHANGED powerVars
  PROVE  IInv'
<1> USE DEF IInv, SensorReady, HaltAcquisition, Verified,
            AllowAcquisitionStart, AllowAcquisitionArm, SensorArmMask,
            TestImageArmMask, actualisationAcqStartReady
<1>1. ControlTypeOK'
  BY DEF TypeOK, AcqTypeOK, ControlTypeOK, AcqStates
<1>2. StatusTypeOK'
  BY DEF TypeOK, AcqTypeOK, StatusTypeOK, TDCBits
<1>3. FlagTypeOK'
  BY DEF TypeOK, AcqTypeOK, FlagTypeOK
<1>4. InputTypeOK' /\ PowerTypeOK'
  BY DEF TypeOK, AcqTypeOK, InputTypeOK, PowerTypeOK
<1>5. (PowerViewsAgree /\ OneTransition /\ NoInvalidPowerState)'
  BY DEF PowerViewsAgree, OneTransition, NoInvalidPowerState
<1>6. (TriggerFollowsState /\ NoAcquisitionWhilePowering /\ StopPendingInTransition)'
  BY DEF TriggerFollowsState, NoAcquisitionWhilePowering,
       StopPendingInTransition
<1>7. (ChannelsFollowState /\ TestsFollowState)'
  BY DEF ChannelsFollowState, TestsFollowState
<1>8. (StandbyMeansDark /\ ResetIsExplained)'
  BY DEF StandbyMeansDark, ResetIsExplained
<1> QED
  BY <1>1, <1>2, <1>3, <1>4, <1>5, <1>6, <1>7, <1>8 DEF TypeOK, AcqTypeOK

(* ACQ_STARTED leaves the normal trigger before it leaves the state.       *)
LEMMA StartedPreserves ==
  ASSUME IInv, Started, UNCHANGED powerVars
  PROVE  IInv'
<1> USE DEF IInv, Started, HaltAcquisition
<1>1. ControlTypeOK'
  BY DEF TypeOK, AcqTypeOK, ControlTypeOK, AcqStates
<1>2. StatusTypeOK'
  BY DEF TypeOK, AcqTypeOK, StatusTypeOK, TDCBits
<1>3. FlagTypeOK'
  BY DEF TypeOK, AcqTypeOK, FlagTypeOK
<1>4. InputTypeOK' /\ PowerTypeOK'
  BY DEF TypeOK, AcqTypeOK, InputTypeOK, PowerTypeOK
<1>5. (PowerViewsAgree /\ OneTransition /\ NoInvalidPowerState)'
  BY DEF PowerViewsAgree, OneTransition, NoInvalidPowerState
<1>6. (TriggerFollowsState /\ NoAcquisitionWhilePowering /\ StopPendingInTransition)'
  BY DEF TriggerFollowsState, NoAcquisitionWhilePowering,
       StopPendingInTransition
<1>7. (ChannelsFollowState /\ TestsFollowState)'
  BY DEF ChannelsFollowState, TestsFollowState
<1>8. (StandbyMeansDark /\ ResetIsExplained)'
  BY DEF StandbyMeansDark, ResetIsExplained
<1> QED
  BY <1>1, <1>2, <1>3, <1>4, <1>5, <1>6, <1>7, <1>8 DEF TypeOK, AcqTypeOK

(* An acquisition resumes after a frame rate change only if no stop is     *)
(* pending.                                                                *)
LEMMA WaitScdTrigModeTransitionPreserves ==
  ASSUME IInv, WaitScdTrigModeTransition, UNCHANGED powerVars
  PROVE  IInv'
<1> USE DEF IInv, WaitScdTrigModeTransition
<1>1. ControlTypeOK'
  BY DEF TypeOK, AcqTypeOK, ControlTypeOK, AcqStates
<1>2. StatusTypeOK'
  BY DEF TypeOK, AcqTypeOK, StatusTypeOK, TDCBits
<1>3. FlagTypeOK'
  BY DEF TypeOK, AcqTypeOK, FlagTypeOK
<1>4. InputTypeOK' /\ PowerTypeOK'
  BY DEF TypeOK, AcqTypeOK, InputTypeOK, PowerTypeOK
<1>5. (PowerViewsAgree /\ OneTransition /\ NoInvalidPowerState)'
  BY DEF PowerViewsAgree, OneTransition, NoInvalidPowerState
<1>6. (TriggerFollowsState /\ NoAcquisitionWhilePowering /\ StopPendingInTransition)'
  BY DEF TriggerFollowsState, NoAcquisitionWhilePowering,
       StopPendingInTransition
<1>7. (ChannelsFollowState /\ TestsFollowState)'
  BY DEF ChannelsFollowState, TestsFollowState
<1>8. (StandbyMeansDark /\ ResetIsExplained)'
  BY DEF StandbyMeansDark, ResetIsExplained
<1> QED
  BY <1>1, <1>2, <1>3, <1>4, <1>5, <1>6, <1>7, <1>8 DEF TypeOK, AcqTypeOK

(* The detector electronics are found, or not.                             *)
LEMMA WaitingForAdcDdcPresencePreserves ==
  ASSUME IInv, WaitingForAdcDdcPresence, UNCHANGED powerVars
  PROVE  IInv'
<1> USE DEF IInv, WaitingForAdcDdcPresence, PowerStep
<1>1. ControlTypeOK'
  BY DEF TypeOK, AcqTypeOK, ControlTypeOK, AcqStates
<1>2. StatusTypeOK'
  BY DEF TypeOK, AcqTypeOK, StatusTypeOK, BITResults
<1>3. FlagTypeOK'
  BY DEF TypeOK, AcqTypeOK, FlagTypeOK
<1>4. InputTypeOK' /\ PowerTypeOK'
  BY DEF TypeOK, AcqTypeOK, InputTypeOK, PowerTypeOK
<1>5. (PowerViewsAgree /\ OneTransition /\ NoInvalidPowerState)'
  BY DEF PowerViewsAgree, OneTransition, NoInvalidPowerState
<1>6. (TriggerFollowsState /\ NoAcquisitionWhilePowering /\ StopPendingInTransition)'
  BY DEF TriggerFollowsState, NoAcquisitionWhilePowering,
       StopPendingInTransition
<1>7. (ChannelsFollowState /\ TestsFollowState)'
  BY DEF TypeOK, AcqTypeOK, StatusTypeOK, ChannelsFollowState,
       TestsFollowState, BITs
<1>8. (StandbyMeansDark /\ ResetIsExplained)'
  BY DEF TypeOK, AcqTypeOK, StatusTypeOK, StandbyMeansDark, ResetIsExplained,
       BITs
<1> QED
  BY <1>1, <1>2, <1>3, <1>4, <1>5, <1>6, <1>7, <1>8 DEF TypeOK, AcqTypeOK

(* The cooler is switched on only with its supply in range.                *)
LEMMA WaitingForCoolerVoltagePreserves ==
  ASSUME IInv, WaitingForCoolerVoltage, UNCHANGED powerVars
  PROVE  IInv'
<1> USE DEF IInv, WaitingForCoolerVoltage
<1>1. ControlTypeOK'
  BY DEF TypeOK, AcqTypeOK, ControlTypeOK, AcqStates
<1>2. StatusTypeOK'
  BY DEF TypeOK, AcqTypeOK, StatusTypeOK, BITResults
<1>3. FlagTypeOK'
  BY DEF TypeOK, AcqTypeOK, FlagTypeOK
<1>4. InputTypeOK' /\ PowerTypeOK'
  BY DEF TypeOK, AcqTypeOK, InputTypeOK, PowerTypeOK
<1>5. (PowerViewsAgree /\ OneTransition /\ NoInvalidPowerState)'
  BY DEF PowerViewsAgree, OneTransition, NoInvalidPowerState
<1>6. (TriggerFollowsState /\ NoAcquisitionWhilePowering /\ StopPendingInTransition)'
  BY DEF TriggerFollowsState, NoAcquisitionWhilePowering,
       StopPendingInTransition
<1>7. (ChannelsFollowState /\ TestsFollowState)'
  BY DEF TypeOK, AcqTypeOK, StatusTypeOK, ChannelsFollowState,
       TestsFollowState, BITs
<1>8. (StandbyMeansDark /\ ResetIsExplained)'
  BY DEF TypeOK, AcqTypeOK, StatusTypeOK, ChannelsFollowState,
       TestsFollowState, StandbyMeansDark, ResetIsExplained
<1> QED
  BY <1>1, <1>2, <1>3, <1>4, <1>5, <1>6, <1>7, <1>8 DEF TypeOK, AcqTypeOK

(* The cooler draws current, or not.                                       *)
LEMMA WaitingForCoolerPowerOnPreserves ==
  ASSUME IInv, WaitingForCoolerPowerOn, UNCHANGED powerVars
  PROVE  IInv'
<1> USE DEF IInv, WaitingForCoolerPowerOn, PowerStep
<1>1. ControlTypeOK'
  BY DEF TypeOK, AcqTypeOK, ControlTypeOK, AcqStates
<1>2. StatusTypeOK'
  BY DEF TypeOK, AcqTypeOK, StatusTypeOK, BITResults
<1>3. FlagTypeOK'
  BY DEF TypeOK, AcqTypeOK, FlagTypeOK
<1>4. InputTypeOK' /\ PowerTypeOK'
  BY DEF TypeOK, AcqTypeOK, InputTypeOK, PowerTypeOK
<1>5. (PowerViewsAgree /\ OneTransition /\ NoInvalidPowerState)'
  BY DEF PowerViewsAgree, OneTransition, NoInvalidPowerState
<1>6. (TriggerFollowsState /\ NoAcquisitionWhilePowering /\ StopPendingInTransition)'
  BY DEF TriggerFollowsState, NoAcquisitionWhilePowering,
       StopPendingInTransition
<1>7. (ChannelsFollowState /\ TestsFollowState)'
  BY DEF TypeOK, AcqTypeOK, StatusTypeOK, ChannelsFollowState,
       TestsFollowState, OneTransition, BITs
<1>8. (StandbyMeansDark /\ ResetIsExplained)'
  BY DEF TypeOK, AcqTypeOK, StatusTypeOK, StandbyMeansDark, ResetIsExplained,
       BITs
<1> QED
  BY <1>1, <1>2, <1>3, <1>4, <1>5, <1>6, <1>7, <1>8 DEF TypeOK, AcqTypeOK

(* The sensor temperature is available, or not.                            *)
LEMMA WaitingForSensorTempPreserves ==
  ASSUME IInv, WaitingForSensorTemp, UNCHANGED powerVars
  PROVE  IInv'
<1> USE DEF IInv, WaitingForSensorTemp, PowerStep
<1>1. ControlTypeOK'
  BY DEF TypeOK, AcqTypeOK, ControlTypeOK, AcqStates
<1>2. StatusTypeOK'
  BY DEF TypeOK, AcqTypeOK, StatusTypeOK, BITResults
<1>3. FlagTypeOK'
  BY DEF TypeOK, AcqTypeOK, FlagTypeOK
<1>4. InputTypeOK' /\ PowerTypeOK'
  BY DEF TypeOK, AcqTypeOK, InputTypeOK, PowerTypeOK
<1>5. (PowerViewsAgree /\ OneTransition /\ NoInvalidPowerState)'
  BY DEF PowerViewsAgree, OneTransition, NoInvalidPowerState
<1>6. (TriggerFollowsState /\ NoAcquisitionWhilePowering /\ StopPendingInTransition)'
  BY DEF TriggerFollowsState, NoAcquisitionWhilePowering,
       StopPendingInTransition
<1>7. (ChannelsFollowState /\ TestsFollowState)'
  BY DEF TypeOK, AcqTypeOK, StatusTypeOK, ChannelsFollowState,
       TestsFollowState, OneTransition
<1>8. (StandbyMeansDark /\ ResetIsExplained)'
  BY DEF TypeOK, AcqTypeOK, StatusTypeOK, StandbyMeansDark, ResetIsExplained,
       BITs
<1> QED
  BY <1>1, <1>2, <1>3, <1>4, <1>5, <1>6, <1>7, <1>8 DEF TypeOK, AcqTypeOK

(* The sensor is cold and stable.                                          *)
LEMMA WaitingForSensorCooldownPreserves ==
  ASSUME IInv, WaitingForSensorCooldown, UNCHANGED powerVars
  PROVE  IInv'
<1> USE DEF IInv, WaitingForSensorCooldown, PowerStep
<1>1. ControlTypeOK'
  BY DEF TypeOK, AcqTypeOK, ControlTypeOK, AcqStates
<1>2. StatusTypeOK'
  BY DEF TypeOK, AcqTypeOK, StatusTypeOK, BITResults
<1>3. FlagTypeOK'
  BY DEF TypeOK, AcqTypeOK, FlagTypeOK
<1>4. InputTypeOK' /\ PowerTypeOK'
  BY DEF TypeOK, AcqTypeOK, InputTypeOK, PowerTypeOK
<1>5. (PowerViewsAgree /\ OneTransition /\ NoInvalidPowerState)'
  BY DEF PowerViewsAgree, OneTransition, NoInvalidPowerState
<1>6. (TriggerFollowsState /\ NoAcquisitionWhilePowering /\ StopPendingInTransition)'
  BY DEF TriggerFollowsState, NoAcquisitionWhilePowering,
       StopPendingInTransition
<1>7. (ChannelsFollowState /\ TestsFollowState)'
  BY DEF TypeOK, AcqTypeOK, StatusTypeOK, ChannelsFollowState,
       TestsFollowState, BITs
<1>8. (StandbyMeansDark /\ ResetIsExplained)'
  BY DEF ChannelsFollowState, StandbyMeansDark, ResetIsExplained
<1> QED
  BY <1>1, <1>2, <1>3, <1>4, <1>5, <1>6, <1>7, <1>8 DEF TypeOK, AcqTypeOK

(* The SCD initialization sequence ends or fails.                          *)
LEMMA WaitScdSpecificInitSeqPreserves ==
  ASSUME IInv, WaitScdSpecificInitSeq, UNCHANGED powerVars
  PROVE  IInv'
<1> USE DEF IInv, WaitScdSpecificInitSeq, PowerStep
<1>1. ControlTypeOK'
  BY DEF TypeOK, AcqTypeOK, ControlTypeOK, AcqStates
<1>2. StatusTypeOK'
  BY DEF TypeOK, AcqTypeOK, StatusTypeOK, BITResults
<1>3. FlagTypeOK'
  BY DEF TypeOK, AcqTypeOK, FlagTypeOK
<1>4. InputTypeOK' /\ PowerTypeOK'
  BY DEF TypeOK, AcqTypeOK, InputTypeOK, PowerTypeOK
<1>5. (PowerViewsAgree /\ OneTransition /\ NoInvalidPowerState)'
  BY DEF PowerViewsAgree, OneTransition, NoInvalidPowerState
<1>6. (TriggerFollowsState /\ NoAcquisitionWhilePowering /\ StopPendingInTransition)'
  BY DEF TriggerFollowsState, NoAcquisitionWhilePowering,
       StopPendingInTransition
<1>7. (ChannelsFollowState /\ TestsFollowState)'
  BY DEF TypeOK, AcqTypeOK, StatusTypeOK, ChannelsFollowState,
       TestsFollowState, OneTransition
<1>8. (StandbyMeansDark /\ ResetIsExplained)'
  BY DEF TypeOK, AcqTypeOK, StatusTypeOK, StandbyMeansDark, ResetIsExplained,
       BITs
<1> QED
  BY <1>1, <1>2, <1>3, <1>4, <1>5, <1>6, <1>7, <1>8 DEF TypeOK, AcqTypeOK

(* The detector is initialized, or not.                                    *)
LEMMA WaitingForFpaInitPreserves ==
  ASSUME IInv, WaitingForFpaInit, UNCHANGED powerVars
  PROVE  IInv'
<1> USE DEF IInv, WaitingForFpaInit, PowerStep
<1>1. ControlTypeOK'
  BY DEF TypeOK, AcqTypeOK, ControlTypeOK, AcqStates
<1>2. StatusTypeOK'
  BY DEF TypeOK, AcqTypeOK, StatusTypeOK, BITResults
<1>3. FlagTypeOK'
  BY DEF TypeOK, AcqTypeOK, FlagTypeOK
<1>4. InputTypeOK' /\ PowerTypeOK'
  BY DEF TypeOK, AcqTypeOK, InputTypeOK, PowerTypeOK
<1>5. (PowerViewsAgree /\ OneTransition /\ NoInvalidPowerState)'
  BY DEF PowerViewsAgree, OneTransition, NoInvalidPowerState
<1>6. (TriggerFollowsState /\ NoAcquisitionWhilePowering /\ StopPendingInTransition)'
  BY DEF TriggerFollowsState, NoAcquisitionWhilePowering,
       StopPendingInTransition
<1>7. (ChannelsFollowState /\ TestsFollowState)'
  BY DEF TypeOK, AcqTypeOK, StatusTypeOK, ChannelsFollowState,
       TestsFollowState, OneTransition, BITs
<1>8. (StandbyMeansDark /\ ResetIsExplained)'
  BY DEF TypeOK, AcqTypeOK, StatusTypeOK, StandbyMeansDark, ResetIsExplained,
       BITs
<1> QED
  BY <1>1, <1>2, <1>3, <1>4, <1>5, <1>6, <1>7, <1>8 DEF TypeOK, AcqTypeOK

(* The power-on ends: every test has passed.                               *)
LEMMA FinalizePowerOnPreserves ==
  ASSUME IInv, FinalizePowerOn, UNCHANGED powerVars
  PROVE  IInv'
<1> USE DEF IInv, FinalizePowerOn
<1>1. ControlTypeOK'
  BY DEF TypeOK, AcqTypeOK, ControlTypeOK, AcqStates, PowerStates
<1>2. StatusTypeOK'
  BY DEF TypeOK, AcqTypeOK, StatusTypeOK
<1>3. FlagTypeOK'
  BY DEF TypeOK, AcqTypeOK, FlagTypeOK
<1>4. InputTypeOK' /\ PowerTypeOK'
  BY DEF TypeOK, AcqTypeOK, InputTypeOK, PowerTypeOK
<1>5. (PowerViewsAgree /\ OneTransition /\ NoInvalidPowerState)'
  BY DEF PowerViewsAgree, OneTransition, NoInvalidPowerState
<1>6. (TriggerFollowsState /\ NoAcquisitionWhilePowering /\ StopPendingInTransition)'
  BY DEF TriggerFollowsState, NoAcquisitionWhilePowering,
       StopPendingInTransition
<1>7. (ChannelsFollowState /\ TestsFollowState)'
  BY DEF ChannelsFollowState, TestsFollowState, BITs
<1>8. (StandbyMeansDark /\ ResetIsExplained)'
  BY DEF StandbyMeansDark, ResetIsExplained
<1> QED
  BY <1>1, <1>2, <1>3, <1>4, <1>5, <1>6, <1>7, <1>8 DEF TypeOK, AcqTypeOK

(* Both channels are cut once the detector is idle.                        *)
LEMMA WaitingForGlobalDonePreserves ==
  ASSUME IInv, WaitingForGlobalDone, UNCHANGED powerVars
  PROVE  IInv'
<1> USE DEF IInv, WaitingForGlobalDone, PowerStep
<1>1. ControlTypeOK'
  BY DEF TypeOK, AcqTypeOK, ControlTypeOK, AcqStates
<1>2. StatusTypeOK'
  BY DEF TypeOK, AcqTypeOK, StatusTypeOK, BITResults
<1>3. FlagTypeOK'
  BY DEF TypeOK, AcqTypeOK, FlagTypeOK
<1>4. InputTypeOK' /\ PowerTypeOK'
  BY DEF TypeOK, AcqTypeOK, InputTypeOK, PowerTypeOK
<1>5. (PowerViewsAgree /\ OneTransition /\ NoInvalidPowerState)'
  BY DEF PowerViewsAgree, OneTransition, NoInvalidPowerState
<1>6. (TriggerFollowsState /\ NoAcquisitionWhilePowering /\ StopPendingInTransition)'
  BY DEF TriggerFollowsState, NoAcquisitionWhilePowering,
       StopPendingInTransition
<1>7. (ChannelsFollowState /\ TestsFollowState)'
  <2>1. CASE adc' = FALSE /\ cooler' = FALSE
    BY <2>1 DEF TypeOK, AcqTypeOK, StatusTypeOK, ChannelsFollowState,
         TestsFollowState, OneTransition
  <2>2. CASE UNCHANGED channels
    BY <2>2 DEF ChannelsFollowState, TestsFollowState, OneTransition
  <2> QED
    BY <2>1, <2>2
<1>8. (StandbyMeansDark /\ ResetIsExplained)'
  BY DEF TypeOK, AcqTypeOK, StatusTypeOK, StandbyMeansDark, ResetIsExplained,
       BITs
<1> QED
  BY <1>1, <1>2, <1>3, <1>4, <1>5, <1>6, <1>7, <1>8 DEF TypeOK, AcqTypeOK

(* The cooler draws no current any more, or still does.                    *)
LEMMA WaitingForCoolerPowerOffPreserves ==
  ASSUME IInv, WaitingForCoolerPowerOff, UNCHANGED powerVars
  PROVE  IInv'
<1> USE DEF IInv, WaitingForCoolerPowerOff
<1>1. ControlTypeOK'
  BY DEF TypeOK, AcqTypeOK, ControlTypeOK, AcqStates, PowerStates
<1>2. StatusTypeOK'
  BY DEF TypeOK, AcqTypeOK, StatusTypeOK, TDCBits, BITResults
<1>3. FlagTypeOK'
  BY DEF TypeOK, AcqTypeOK, FlagTypeOK
<1>4. InputTypeOK' /\ PowerTypeOK'
  BY DEF TypeOK, AcqTypeOK, InputTypeOK, PowerTypeOK
<1>5. (PowerViewsAgree /\ OneTransition /\ NoInvalidPowerState)'
  BY DEF PowerViewsAgree, OneTransition, NoInvalidPowerState
<1>6. (TriggerFollowsState /\ NoAcquisitionWhilePowering /\ StopPendingInTransition)'
  BY DEF TriggerFollowsState, NoAcquisitionWhilePowering,
       StopPendingInTransition
<1>7. (ChannelsFollowState /\ TestsFollowState)'
  BY DEF TypeOK, AcqTypeOK, StatusTypeOK, ChannelsFollowState,
       TestsFollowState
<1>8. (StandbyMeansDark /\ ResetIsExplained)'
  BY DEF TypeOK, AcqTypeOK, StatusTypeOK, ChannelsFollowState,
       TestsFollowState, StandbyMeansDark, ResetIsExplained, BITs
<1> QED
  BY <1>1, <1>2, <1>3, <1>4, <1>5, <1>6, <1>7, <1>8 DEF TypeOK, AcqTypeOK

(* The reset cuts both channels and closes the pending tests.              *)
LEMMA PowerResetPreserves ==
  ASSUME IInv, PowerReset, UNCHANGED powerVars
  PROVE  IInv'
<1> USE DEF IInv, PowerReset
<1>1. ControlTypeOK'
  BY DEF TypeOK, AcqTypeOK, ControlTypeOK, AcqStates, PowerStates
<1>2. StatusTypeOK'
  BY DEF TypeOK, AcqTypeOK, StatusTypeOK, TDCBits, BITResults
<1>3. FlagTypeOK'
  BY DEF TypeOK, AcqTypeOK, FlagTypeOK
<1>4. InputTypeOK' /\ PowerTypeOK'
  BY DEF TypeOK, AcqTypeOK, InputTypeOK, PowerTypeOK
<1>5. (PowerViewsAgree /\ OneTransition /\ NoInvalidPowerState)'
  BY DEF PowerViewsAgree, OneTransition, NoInvalidPowerState
<1>6. (TriggerFollowsState /\ NoAcquisitionWhilePowering /\ StopPendingInTransition)'
  BY DEF TriggerFollowsState, NoAcquisitionWhilePowering,
       StopPendingInTransition
<1>7. (ChannelsFollowState /\ TestsFollowState)'
  BY DEF ChannelsFollowState, TestsFollowState, OneTransition
<1>8. (StandbyMeansDark /\ ResetIsExplained)'
  BY DEF StandbyMeansDark, ResetIsExplained
<1> QED
  BY <1>1, <1>2, <1>3, <1>4, <1>5, <1>6, <1>7, <1>8 DEF TypeOK, AcqTypeOK

(* A request to power on is handed to the acquisition machine, or refused. *)
LEMMA PowerStandbyPreserves ==
  ASSUME IInv, pc = "loop", PowerStandby
  PROVE  IInv'
<1> USE DEF IInv, PowerStandby, SetPowerState, Setpoints
<1>1. ControlTypeOK'
  BY DEF TypeOK, AcqTypeOK, ControlTypeOK, PowerStates
<1>2. StatusTypeOK'
  BY FeatureAssumption DEF TypeOK, AcqTypeOK, StatusTypeOK, TDCBits
<1>3. FlagTypeOK'
  BY DEF TypeOK, AcqTypeOK, FlagTypeOK
<1>4. InputTypeOK' /\ PowerTypeOK'
  BY DEF TypeOK, AcqTypeOK, InputTypeOK, PowerTypeOK, PowerStates
<1>5. (PowerViewsAgree /\ OneTransition /\ NoInvalidPowerState)'
  BY FeatureAssumption DEF PowerViewsAgree, OneTransition, NoInvalidPowerState
<1>6. (TriggerFollowsState /\ NoAcquisitionWhilePowering /\ StopPendingInTransition)'
  BY FeatureAssumption DEF TriggerFollowsState, NoAcquisitionWhilePowering,
       StopPendingInTransition, PowerViewsAgree
<1>7. (ChannelsFollowState /\ TestsFollowState)'
  BY FeatureAssumption DEF ChannelsFollowState, TestsFollowState,
       StandbyMeansDark, PowerViewsAgree
<1>8. (StandbyMeansDark /\ ResetIsExplained)'
  BY FeatureAssumption DEF StandbyMeansDark, ResetIsExplained
<1> QED
  BY <1>1, <1>2, <1>3, <1>4, <1>5, <1>6, <1>7, <1>8 DEF TypeOK, AcqTypeOK

(* A request for standby is handed to the acquisition machine.             *)
LEMMA PowerOnPreserves ==
  ASSUME IInv, pc = "loop", PowerOn
  PROVE  IInv'
<1> USE DEF IInv, PowerOn, SetPowerState, Setpoints
<1>1. ControlTypeOK'
  BY DEF TypeOK, AcqTypeOK, ControlTypeOK, PowerStates
<1>2. StatusTypeOK'
  BY FeatureAssumption DEF TypeOK, AcqTypeOK, StatusTypeOK, TDCBits
<1>3. FlagTypeOK'
  BY DEF TypeOK, AcqTypeOK, FlagTypeOK
<1>4. InputTypeOK' /\ PowerTypeOK'
  BY DEF TypeOK, AcqTypeOK, InputTypeOK, PowerTypeOK, PowerStates
<1>5. (PowerViewsAgree /\ OneTransition /\ NoInvalidPowerState)'
  BY FeatureAssumption DEF PowerViewsAgree, OneTransition, NoInvalidPowerState
<1>6. (TriggerFollowsState /\ NoAcquisitionWhilePowering /\ StopPendingInTransition)'
  BY FeatureAssumption DEF TriggerFollowsState, NoAcquisitionWhilePowering,
       StopPendingInTransition, PowerViewsAgree
<1>7. (ChannelsFollowState /\ TestsFollowState)'
  BY FeatureAssumption DEF ChannelsFollowState, TestsFollowState,
       PowerViewsAgree
<1>8. (StandbyMeansDark /\ ResetIsExplained)'
  BY FeatureAssumption DEF StandbyMeansDark, ResetIsExplained
<1> QED
  BY <1>1, <1>2, <1>3, <1>4, <1>5, <1>6, <1>7, <1>8 DEF TypeOK, AcqTypeOK

(* The acquisition machine is in standby.                                  *)
LEMMA PowerTurnedOffPreserves ==
  ASSUME IInv, pc = "loop", PowerTurnedOff
  PROVE  IInv'
<1> USE DEF IInv, PowerTurnedOff
<1>1. ControlTypeOK'
  BY DEF TypeOK, AcqTypeOK, ControlTypeOK
<1>2. StatusTypeOK'
  BY FeatureAssumption DEF TypeOK, AcqTypeOK, StatusTypeOK
<1>3. FlagTypeOK'
  BY DEF TypeOK, AcqTypeOK, FlagTypeOK
<1>4. InputTypeOK' /\ PowerTypeOK'
  BY DEF TypeOK, AcqTypeOK, InputTypeOK, PowerTypeOK, PowerStates
<1>5. (PowerViewsAgree /\ OneTransition /\ NoInvalidPowerState)'
  BY FeatureAssumption DEF PowerViewsAgree, OneTransition, NoInvalidPowerState
<1>6. (TriggerFollowsState /\ NoAcquisitionWhilePowering /\ StopPendingInTransition)'
  BY FeatureAssumption DEF TriggerFollowsState, NoAcquisitionWhilePowering,
       StopPendingInTransition
<1>7. (ChannelsFollowState /\ TestsFollowState)'
  BY FeatureAssumption DEF ChannelsFollowState, TestsFollowState
<1>8. (StandbyMeansDark /\ ResetIsExplained)'
  BY FeatureAssumption DEF StandbyMeansDark, ResetIsExplained
<1> QED
  BY <1>1, <1>2, <1>3, <1>4, <1>5, <1>6, <1>7, <1>8 DEF TypeOK, AcqTypeOK

(* The first half of a failed power-on.                                    *)
LEMMA PowerOnFailedPreserves ==
  ASSUME IInv, pc = "loop", PowerOnFailed
  PROVE  IInv'
<1> USE DEF IInv, PowerOnFailed, acqVars, Setpoints
<1>1. ControlTypeOK'
  BY DEF TypeOK, AcqTypeOK, ControlTypeOK
<1>2. StatusTypeOK'
  BY FeatureAssumption DEF TypeOK, AcqTypeOK, StatusTypeOK
<1>3. FlagTypeOK'
  BY DEF TypeOK, AcqTypeOK, FlagTypeOK
<1>4. InputTypeOK' /\ PowerTypeOK'
  BY DEF TypeOK, AcqTypeOK, InputTypeOK, PowerTypeOK
<1>5. (PowerViewsAgree /\ OneTransition /\ NoInvalidPowerState)'
  BY FeatureAssumption DEF PowerViewsAgree, OneTransition, NoInvalidPowerState
<1>6. (TriggerFollowsState /\ NoAcquisitionWhilePowering /\ StopPendingInTransition)'
  BY FeatureAssumption DEF TriggerFollowsState, NoAcquisitionWhilePowering,
       StopPendingInTransition
<1>7. (ChannelsFollowState /\ TestsFollowState)'
  BY FeatureAssumption DEF ChannelsFollowState, TestsFollowState
<1>8. (StandbyMeansDark /\ ResetIsExplained)'
  BY FeatureAssumption DEF StandbyMeansDark, ResetIsExplained
<1> QED
  BY <1>1, <1>2, <1>3, <1>4, <1>5, <1>6, <1>7, <1>8 DEF TypeOK, AcqTypeOK

(* The second half of a failed power-on.                                   *)
LEMMA PowerOnFailedEndPreserves ==
  ASSUME IInv, PowerOnFailedEnd
  PROVE  IInv'
<1> USE DEF IInv, PowerOnFailedEnd
<1>1. ControlTypeOK'
  BY DEF TypeOK, AcqTypeOK, ControlTypeOK
<1>2. StatusTypeOK'
  BY FeatureAssumption DEF TypeOK, AcqTypeOK, StatusTypeOK
<1>3. FlagTypeOK'
  BY DEF TypeOK, AcqTypeOK, FlagTypeOK
<1>4. InputTypeOK' /\ PowerTypeOK'
  BY DEF TypeOK, AcqTypeOK, InputTypeOK, PowerTypeOK, PowerStates
<1>5. (PowerViewsAgree /\ OneTransition /\ NoInvalidPowerState)'
  BY FeatureAssumption DEF PowerViewsAgree, OneTransition, NoInvalidPowerState
<1>6. (TriggerFollowsState /\ NoAcquisitionWhilePowering /\ StopPendingInTransition)'
  BY FeatureAssumption DEF TriggerFollowsState, NoAcquisitionWhilePowering,
       StopPendingInTransition
<1>7. (ChannelsFollowState /\ TestsFollowState)'
  BY FeatureAssumption DEF ChannelsFollowState, TestsFollowState
<1>8. (StandbyMeansDark /\ ResetIsExplained)'
  BY FeatureAssumption DEF StandbyMeansDark, ResetIsExplained
<1> QED
  BY <1>1, <1>2, <1>3, <1>4, <1>5, <1>6, <1>7, <1>8 DEF TypeOK, AcqTypeOK

(* The acquisition machine is on.                                          *)
LEMMA PowerTurnedOnPreserves ==
  ASSUME IInv, pc = "loop", PowerTurnedOn
  PROVE  IInv'
<1> USE DEF IInv, PowerTurnedOn
<1>1. ControlTypeOK'
  BY DEF TypeOK, AcqTypeOK, ControlTypeOK
<1>2. StatusTypeOK'
  BY FeatureAssumption DEF TypeOK, AcqTypeOK, StatusTypeOK, TDCBits
<1>3. FlagTypeOK'
  BY DEF TypeOK, AcqTypeOK, FlagTypeOK
<1>4. InputTypeOK' /\ PowerTypeOK'
  BY DEF TypeOK, AcqTypeOK, InputTypeOK, PowerTypeOK, PowerStates
<1>5. (PowerViewsAgree /\ OneTransition /\ NoInvalidPowerState)'
  BY FeatureAssumption DEF PowerViewsAgree, OneTransition, NoInvalidPowerState
<1>6. (TriggerFollowsState /\ NoAcquisitionWhilePowering /\ StopPendingInTransition)'
  BY FeatureAssumption DEF TriggerFollowsState, NoAcquisitionWhilePowering,
       StopPendingInTransition
<1>7. (ChannelsFollowState /\ TestsFollowState)'
  BY FeatureAssumption DEF ChannelsFollowState, TestsFollowState
<1>8. (StandbyMeansDark /\ ResetIsExplained)'
  BY FeatureAssumption DEF StandbyMeansDark, ResetIsExplained
<1> QED
  BY <1>1, <1>2, <1>3, <1>4, <1>5, <1>6, <1>7, <1>8 DEF TypeOK, AcqTypeOK

(* IInv is inductive.                                                      *)
LEMMA NextPreserves ==
  ASSUME IInv, [Next]_vars
  PROVE  IInv'
<1>1. ASSUME Acquire PROVE IInv'
  <2>1. UNCHANGED powerVars
    BY <1>1 DEF Acquire
  <2>2. CASE Stopped
    BY <2>1, <2>2, TurnOnPreserves, TurnOffPreserves, ArmOrIdlePreserves
         DEF Stopped
  <2>3. CASE WaitingForSensorReady \/ SensorReady \/ Started
    BY <2>1, <2>3, WaitingForSensorReadyPreserves, SensorReadyPreserves,
         StartedPreserves
  <2>4. CASE WaitScdTrigModeTransition \/ WaitingForAdcDdcPresence \/ WaitingForCoolerVoltage
    BY <2>1, <2>4, WaitScdTrigModeTransitionPreserves,
         WaitingForAdcDdcPresencePreserves, WaitingForCoolerVoltagePreserves
  <2>5. CASE WaitingForCoolerPowerOn \/ WaitingForSensorTemp \/ WaitScdSpecificInitSeq
    BY <2>1, <2>5, WaitingForCoolerPowerOnPreserves,
         WaitingForSensorTempPreserves, WaitScdSpecificInitSeqPreserves
  <2>6. CASE WaitingForFpaInit \/ FinalizePowerOn \/ WaitingForGlobalDone
    BY <2>1, <2>6, WaitingForFpaInitPreserves, FinalizePowerOnPreserves,
         WaitingForGlobalDonePreserves
  <2>7. CASE WaitingForCoolerPowerOff \/ PowerReset
    BY <2>1, <2>7, WaitingForCoolerPowerOffPreserves, PowerResetPreserves
  <2> QED
    BY <1>1, <2>2, <2>3, <2>4, <2>5, <2>6, <2>7 DEF Acquire, Acquisition_SM
<1>2. ASSUME Cooldown PROVE IInv'
  BY <1>2, WaitingForSensorCooldownPreserves DEF Cooldown
<1>3. ASSUME pc = "loop", Power_SM PROVE IInv'
  BY <1>3, PowerStandbyPreserves, PowerOnPreserves, PowerTurnedOffPreserves,
       PowerOnFailedPreserves, PowerTurnedOnPreserves DEF Power_SM
<1> QED
  BY <1>1, <1>2, <1>3, HostPreserves, CorrectPreserves, OthersPreserve,
       PowerOnFailedEndPreserves, ButtonPreserves DEF Next, MainLoop

(* IInv holds in every state the camera can reach, whatever the detector   *)
(* is and whichever features are implemented.                              *)
THEOREM Invariance == Spec => []IInv
<1>1. Init => IInv
  BY InitIInv
<1>2. IInv /\ [Next]_vars => IInv'
  BY NextPreserves
<1> QED
  BY <1>1, <1>2, PTL DEF Spec

(* Every variable keeps its type.                                          *)
THEOREM TypeCorrect == Spec => []TypeOK
<1>1. IInv => TypeOK
  BY DEF IInv
<1> QED
  BY <1>1, Invariance, PTL

(* The "not supposed to get there" arm of Power_SM (power_ctrl.c:417) is   *)
(* dead code.                                                              *)
THEOREM DeadArm == Spec => []NoInvalidPowerState
<1>1. IInv => NoInvalidPowerState
  BY DEF IInv
<1> QED
  BY <1>1, Invariance, PTL

(* A camera that reports On has both power channels on and has passed its  *)
(* six power-on tests since it was last off.                               *)
THEOREM OnIsVerified == Spec => []OnMeansVerified
<1>1. IInv => OnMeansVerified
  BY DEF IInv, OnMeansVerified, PowerViewsAgree, ChannelsFollowState,
       TestsFollowState
<1> QED
  BY <1>1, Invariance, PTL

(* Standby means both channels cut and no test pending, however the camera *)
(* got there.                                                              *)
THEOREM StandbyIsDark == Spec => []StandbyMeansDark
<1>1. IInv => StandbyMeansDark
  BY DEF IInv
<1> QED
  BY <1>1, Invariance, PTL

(* The detector is never switched under a running trigger.                 *)
THEOREM NeverSwitchedWhileAcquiring == Spec => []NoAcquisitionWhilePowering
<1>1. IInv => NoAcquisitionWhilePowering
  BY DEF IInv
<1> QED
  BY <1>1, Invariance, PTL

(* Every reset that follows a power transition has a failed test to show   *)
(* for it, or a cooler supply that never came.                             *)
THEOREM ResetHasAReason == Spec => []ResetIsExplained
<1>1. IInv => ResetIsExplained
  BY DEF IInv
<1> QED
  BY <1>1, Invariance, PTL

-----------------------------------------------------------------------------
(* A transition goes one way.  What a step may do to it: nothing, or take  *)
(* the acquisition module a step further.                                  *)
Onward ==
  \/ devPower' # "InTransition"
  \/ StepsLeft' < StepsLeft
  \/ UNCHANGED acqPower /\ UNCHANGED StepsLeft

LEMMA StepsTable ==
  /\ TransitionSteps["WAITING_FOR_SENSOR_READY"] = 16
  /\ TransitionSteps["SENSOR_READY"] = 15
  /\ TransitionSteps["STARTED"] = 14
  /\ TransitionSteps["WAIT_SCD_TRIG_MODE_TRANSITION"] = 13
  /\ TransitionSteps["STOPPED"] = 12
  /\ TransitionSteps["WAITING_FOR_ADC_DDC_PRESENCE"] = 11
  /\ TransitionSteps["WAITING_FOR_COOLER_VOLTAGE"] = 10
  /\ TransitionSteps["WAITING_FOR_COOLER_POWER_ON"] = 9
  /\ TransitionSteps["WAITING_FOR_SENSOR_TEMP"] = 8
  /\ TransitionSteps["WAITING_FOR_SENSOR_COOLDOWN"] = 7
  /\ TransitionSteps["WAIT_SCD_SPECIFIC_INIT_SEQ"] = 6
  /\ TransitionSteps["WAITING_FOR_FPA_INIT"] = 5
  /\ TransitionSteps["FINALIZE_POWER_ON"] = 4
  /\ TransitionSteps["WAITING_FOR_GLOBAL_DONE"] = 5
  /\ TransitionSteps["WAITING_FOR_COOLER_POWER_OFF"] = 4
  /\ TransitionSteps["POWER_RESET"] = 3
BY DEF TransitionSteps

(* Once the acquisition module has left its transition, it only takes      *)
(* another from the power manager.                                         *)
LEMMA ModuleStaysOut ==
  ASSUME IInv, Acquire \/ Cooldown, acqPower # "InTransition"
  PROVE  UNCHANGED acqPower
<1> USE DEF IInv, OneTransition, AcquisitionStates, statics
<1>1. acqState \in AcquisitionStates /\ ~turnOn /\ ~turnOff
  OBVIOUS
<1>2. CASE Stopped
  BY <1>1, <1>2 DEF Stopped, TurnOn, TurnOff, ArmOrIdle
<1>3. CASE WaitingForSensorReady \/ SensorReady \/ Started \/ WaitScdTrigModeTransition
  BY <1>3 DEF WaitingForSensorReady, SensorReady, Started, WaitScdTrigModeTransition
<1>4. CASE WaitingForAdcDdcPresence \/ WaitingForCoolerVoltage \/ WaitingForCoolerPowerOn
           \/ WaitingForSensorTemp \/ Cooldown \/ WaitScdSpecificInitSeq \/ WaitingForFpaInit
           \/ WaitingForGlobalDone
  BY <1>4 DEF WaitingForAdcDdcPresence, WaitingForCoolerVoltage, WaitingForCoolerPowerOn,
              WaitingForSensorTemp, Cooldown, WaitingForSensorCooldown, WaitScdSpecificInitSeq,
              WaitingForFpaInit, WaitingForGlobalDone, PowerStep
<1>5. CASE FinalizePowerOn \/ WaitingForCoolerPowerOff \/ PowerReset
  BY <1>1, <1>5 DEF FinalizePowerOn, WaitingForCoolerPowerOff, PowerReset
<1> QED
  BY <1>2, <1>3, <1>4, <1>5 DEF Acquire, Acquisition_SM

(* In a transition the acquisition module stops what runs, then takes its  *)
(* sequence one step further, or gives up and resets.                      *)
LEMMA ModuleAdvances ==
  ASSUME IInv, Acquire \/ Cooldown, acqPower = "InTransition"
  PROVE  StepsLeft' < StepsLeft \/ (UNCHANGED acqPower /\ UNCHANGED StepsLeft)
<1> USE StepsTable DEF StepsLeft
<1>1. acqState \in AcquisitionStates \ {"STOPPED"} => stop
  BY DEF IInv, NoAcquisitionWhilePowering
<1>2. acqState = "STOPPED" => turnOn \/ turnOff
  BY DEF IInv, OneTransition, AcquisitionStates
<1>3. CASE Stopped
  <2>1. CASE TurnOn
    BY <1>3, <2>1 DEF Stopped, TurnOn
  <2>2. CASE TurnOff
    BY <1>3, <2>2 DEF Stopped, TurnOff
  <2> QED
    BY <1>2, <1>3, <2>1, <2>2 DEF Stopped, ArmOrIdle
<1>4. CASE WaitingForSensorReady
  BY <1>4 DEF WaitingForSensorReady, statics
<1>5. CASE SensorReady
  BY <1>1, <1>5 DEF SensorReady, HaltAcquisition, AcquisitionStates, statics
<1>6. CASE Started
  BY <1>1, <1>6 DEF Started, HaltAcquisition, AcquisitionStates, statics
<1>7. CASE WaitScdTrigModeTransition
  BY <1>1, <1>7 DEF WaitScdTrigModeTransition, AcquisitionStates, statics
<1>8. CASE WaitingForAdcDdcPresence \/ WaitingForCoolerPowerOn \/ WaitingForSensorTemp
  BY <1>8 DEF WaitingForAdcDdcPresence, WaitingForCoolerPowerOn, WaitingForSensorTemp, PowerStep
<1>9. CASE WaitingForCoolerVoltage
  BY <1>9 DEF WaitingForCoolerVoltage, statics
<1>10. CASE Cooldown
  BY <1>10, BuildAssumption DEF Cooldown, WaitingForSensorCooldown, PowerStep
<1>11. CASE WaitScdSpecificInitSeq \/ WaitingForFpaInit \/ WaitingForGlobalDone
  BY <1>11 DEF WaitScdSpecificInitSeq, WaitingForFpaInit, WaitingForGlobalDone, PowerStep
<1>12. CASE FinalizePowerOn
  BY <1>12 DEF FinalizePowerOn
<1>13. CASE WaitingForCoolerPowerOff \/ PowerReset
  BY <1>13 DEF WaitingForCoolerPowerOff, PowerReset, statics
<1> QED
  BY <1>3, <1>4, <1>5, <1>6, <1>7, <1>8, <1>9, <1>10, <1>11, <1>12, <1>13
     DEF Acquire, Acquisition_SM

(* Nothing else touches the acquisition module during a transition.        *)
LEMMA OthersDoNotTurnBack ==
  ASSUME devPower = "InTransition",
         \/ Power_SM \/ PowerOnFailedEnd \/ ButtonReleased \/ Host \/ Correct
         \/ Motors \/ DataPath \/ ValidateKey \/ UNCHANGED vars
  PROVE  Onward
<1>1. UNCHANGED <<acqState, acqPower>>
  <2> USE DEF acqVars, statics
  <2>1. CASE Power_SM \/ PowerOnFailedEnd
    BY <2>1 DEF Power_SM, PowerStandby, PowerOn, PowerTurnedOff, PowerOnFailed, PowerTurnedOn,
                PowerOnFailedEnd
  <2>2. CASE Host
    BY <2>2 DEF Host, HostSetpoint, HostStart, HostStop, HostArm, HostTestImage,
                HostDownloadMode, HostFrameRate
  <2>3. CASE ButtonReleased \/ Correct \/ Motors \/ DataPath \/ ValidateKey \/ UNCHANGED vars
    BY <2>3 DEF ButtonReleased, Correct, Motors, DataPath, ValidateKey, vars
  <2> QED
    BY <2>1, <2>2, <2>3
<1> QED
  BY <1>1 DEF Onward, StepsLeft

(* Whatever the host, the button, the correction and the detector do, a    *)
(* power transition takes at most a call per step of the stop, of the      *)
(* sequence and of the reset: it never goes back, nor into an acquisition, *)
(* nor from the reset into another attempt (Acquisition.c, power_ctrl.c).  *)
THEOREM TransitionsAreFinite == Spec => TransitionIsFinite
<1>1. IInv /\ [Next]_vars =>
        [devPower = "InTransition" =>
           \/ devPower' # "InTransition" \/ StepsLeft' < StepsLeft
           \/ UNCHANGED acqPower /\ UNCHANGED StepsLeft]_vars
  <2> SUFFICES ASSUME IInv, [Next]_vars, devPower = "InTransition"
               PROVE  Onward
    BY DEF Onward
  <2>1. CASE Acquire \/ Cooldown
    BY <2>1, ModuleStaysOut, ModuleAdvances DEF Onward, StepsLeft
  <2> QED
    BY <2>1, OthersDoNotTurnBack DEF Next, MainLoop
<1> QED
  BY <1>1, Invariance, PTL DEF Spec, TransitionIsFinite
=============================================================================
