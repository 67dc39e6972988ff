---------------------------- MODULE CameraPower ----------------------------
(***************************************************************************)
(* The power manager of sw/power_ctrl.c (Power_SM and the push-button      *)
(* interrupt) composed with the acquisition state machine it drives, with  *)
(* the GenICam host writing the command registers, and with the parts of   *)
(* the firmware that set the inputs of both: the image correction process, *)
(* the filter wheel, the device key.                                       *)
(*                                                                         *)
(* The firmware is one loop calling every state machine in turn, so each   *)
(* call is one step and any call may follow any other.  Only the interrupt *)
(* may fall inside a call: Power_SM is split at the one place where it     *)
(* writes two of the variables the interrupt shares with it.               *)
(***************************************************************************)
EXTENDS Acquisition, Naturals

CONSTANTS
  MemoryBuffer,     \* the camera has a memory buffer (GC_MemoryBufferIsImplemented)
  ImageCorrection,  \* it implements image correction (ImageCorrectionIsImplementedMask)
  SyncFilterWheel   \* its filter wheel can rotate synchronously with the exposure

ASSUME FeatureAssumption ==
  /\ MemoryBuffer \in BOOLEAN
  /\ ImageCorrection \in BOOLEAN
  /\ SyncFilterWheel \in BOOLEAN

VARIABLES
  devPower,      \* gcRegsData.DevicePowerState
  setpoint,      \* gcRegsData.DevicePowerStateSetpoint
  powerStartup,  \* static startup of Power_SM
  powerAllowed,  \* gPowerOnIsAllowed
  pc             \* "loop" between calls, "failedOn" inside Power_SM

powerVars == <<devPower, setpoint, powerStartup, powerAllowed, pc>>
vars == <<acqVars, powerVars>>

Setpoints == {"Standby", "On"}

-----------------------------------------------------------------------------
(* Power_SM.                                                               *)

(* Mutant: the first call decides the setpoint, whatever was requested     *)
(* before it.                                                              *)
Bug_StartupDecides ==
  /\ devPower = "Standby"
  /\ powerStartup' = FALSE
  /\ \E atStartup \in BOOLEAN :
       LET requested == IF powerStartup
                        THEN (IF atStartup THEN "On" ELSE "Standby") ELSE setpoint
       IN IF requested = "On" /\ powerAllowed
          THEN /\ SetPowerState("On")
               /\ tdc' = tdc \cup {"Power"}
               /\ devPower' = "InTransition"
               /\ setpoint' = "On"
          ELSE /\ setpoint' = "Standby"
               /\ UNCHANGED <<stop, turnOn, turnOff, acqPower, tdc, devPower>>
  /\ UNCHANGED <<acqState, startup, start, arm, inputs, frPostponed, bit,
                 channels, trig, config, powerAllowed, pc>>

(* Mutant: a forbidden request is left in the setpoint.                    *)
Bug_ForbiddenRequestKept ==
  /\ devPower = "Standby" /\ setpoint = "On" /\ powerAllowed
  /\ powerStartup' = FALSE
  /\ SetPowerState("On")
  /\ tdc' = tdc \cup {"Power"}
  /\ devPower' = "InTransition"
  /\ UNCHANGED <<acqState, startup, start, arm, inputs, frPostponed, bit,
                 channels, trig, config, setpoint, powerAllowed, pc>>

PowerStandby ==
  /\ devPower = "Standby"
  /\ powerStartup' = FALSE
  /\ \E atStartup \in BOOLEAN :
       LET requested == IF powerStartup /\ atStartup THEN "On" ELSE setpoint
       IN IF requested = "On" /\ powerAllowed
          THEN /\ SetPowerState("On")
               /\ tdc' = tdc \cup {"Power"}
               /\ devPower' = "InTransition"
               /\ setpoint' = "On"
          ELSE /\ setpoint' = "Standby"
               /\ UNCHANGED <<stop, turnOn, turnOff, acqPower, tdc, devPower>>
  /\ UNCHANGED <<acqState, startup, start, arm, inputs, frPostponed, bit,
                 channels, trig, config, powerAllowed, pc>>

PowerOn ==
  /\ devPower = "On" /\ setpoint = "Standby"
  /\ SetPowerState("Standby")
  /\ tdc' = tdc \cup {"Power"}
  /\ devPower' = "InTransition"
  /\ UNCHANGED <<acqState, startup, start, arm, inputs, frPostponed, bit,
                 channels, trig, config, setpoint, powerStartup, powerAllowed, pc>>

PowerTurnedOff ==
  /\ devPower = "InTransition" /\ setpoint = "Standby" /\ acqPower = "Standby"
  /\ playback' = FALSE
  /\ devPower' = "Standby"
  /\ testImage' = TRUE
  /\ tdc' = tdc \ {"Power"}
  /\ UNCHANGED <<acqState, statics, commands, actAllow, waitFW, frPostponed, bit,
                 channels, trig, config, setpoint, powerStartup, powerAllowed, pc>>

(* The request failed: the setpoint goes back to standby first ...         *)
PowerOnFailed ==
  /\ devPower = "InTransition" /\ setpoint = "On" /\ acqPower = "Standby"
  /\ setpoint' = "Standby"
  /\ pc' = "failedOn"
  /\ UNCHANGED <<acqVars, devPower, powerStartup, powerAllowed>>

(* ... and the state second; an interrupt between the two finds the        *)
(* transition still running.                                               *)
PowerOnFailedEnd ==
  /\ pc = "failedOn"
  /\ devPower' = "Standby"
  /\ tdc' = tdc \ {"Power"}
  /\ pc' = "loop"
  /\ UNCHANGED <<acqState, statics, commands, inputs, frPostponed, bit, channels,
                 trig, config, setpoint, powerStartup, powerAllowed>>

(* startActualization is called when the flash settings ask for it.        *)
PowerTurnedOn ==
  /\ devPower = "InTransition" /\ setpoint = "On" /\ acqPower = "On"
  /\ devPower' = "On"
  /\ testImage' = FALSE
  /\ \E correct \in {FALSE, ImageCorrection} :
       tdc' = (tdc \ {"Power"}) \cup (IF correct THEN {"ImageCorrection"} ELSE {})
  /\ UNCHANGED <<acqState, statics, commands, playback, actAllow, waitFW,
                 frPostponed, bit, channels, trig, config, setpoint,
                 powerStartup, powerAllowed, pc>>

Power_SM ==
  PowerStandby \/ PowerOn \/ PowerTurnedOff \/ PowerOnFailed \/ PowerTurnedOn

(* Mutant: the button turns the setpoint round in transition too.          *)
Bug_ButtonInTransition ==
  /\ setpoint' = IF devPower = "Standby" \/ (devPower = "InTransition" /\ setpoint = "Standby")
                 THEN "On" ELSE "Standby"
  /\ UNCHANGED <<acqVars, devPower, powerStartup, powerAllowed, pc>>

(* The push button is released: Power_IntrHandler.                         *)
ButtonReleased ==
  /\ setpoint' = CASE devPower = "Standby" -> "On"
                   [] devPower = "On" -> "Standby"
                   [] OTHER -> setpoint
  /\ UNCHANGED <<acqVars, devPower, powerStartup, powerAllowed, pc>>

-----------------------------------------------------------------------------
(* The host writes a register between two calls.  A locked register is not *)
(* written (GC_UpdateLockedFlag); a setpoint written during a transition   *)
(* is restored by its callback.                                            *)

powerUnchanged == UNCHANGED <<devPower, powerStartup, powerAllowed, pc>>

(* Mutant: the callback does not restore the setpoint.                     *)
Bug_HostSetpointNotRestored ==
  /\ setpoint' \in Setpoints
  /\ UNCHANGED acqVars
  /\ powerUnchanged

HostSetpoint ==
  /\ \E value \in Setpoints :
       setpoint' = IF devPower = "InTransition" THEN setpoint ELSE value
  /\ UNCHANGED acqVars
  /\ powerUnchanged

HostStart ==
  /\ AllowAcquisitionArm(tdc)
  /\ start' = TRUE
  /\ UNCHANGED <<acqState, statics, stop, arm, inputs, tdc, frPostponed, bit,
                 channels, trig, config, setpoint>>
  /\ powerUnchanged

HostStop ==
  /\ "ImageCorrection" \notin tdc
  /\ stop' = TRUE
  /\ UNCHANGED <<acqState, statics, start, arm, inputs, tdc, frPostponed, bit,
                 channels, trig, config, setpoint>>
  /\ powerUnchanged

HostArm ==
  /\ tdc \cap {"ImageCorrection", "Started"} = {}
  /\ arm' = TRUE
  /\ UNCHANGED <<acqState, statics, start, stop, inputs, tdc, frPostponed, bit,
                 channels, trig, config, setpoint>>
  /\ powerUnchanged

HostTestImage ==
  /\ devPower # "InTransition"
  /\ tdc \cap {"ImageCorrection", "Started"} = {}
  /\ testImage' = ~testImage
  /\ UNCHANGED <<acqState, statics, commands, playback, actAllow, waitFW, tdc,
                 frPostponed, bit, channels, trig, config, setpoint>>
  /\ powerUnchanged

HostDownloadMode ==
  /\ MemoryBuffer
  /\ "Started" \notin tdc
  /\ playback' = ~playback
  /\ UNCHANGED <<acqState, statics, commands, testImage, actAllow, waitFW, tdc,
                 frPostponed, bit, channels, trig, config, setpoint>>
  /\ powerUnchanged

(* An SCD detector gets its new frame rate later when it is acquiring, and  *)
(* waits for a synchronous filter wheel to reach its new speed; a rate out  *)
(* of range moves the filter wheel but is not applied.                      *)
HostFrameRate ==
  /\ ScdProxy
  /\ \E sync \in {FALSE, SyncFilterWheel} : waitFW' = (waitFW \/ sync)
  /\ \E applied \in BOOLEAN :
       frPostponed' = IF applied THEN "Started" \in tdc ELSE frPostponed
  /\ UNCHANGED <<acqState, statics, commands, playback, testImage, actAllow, tdc,
                 bit, channels, trig, config, setpoint>>
  /\ powerUnchanged

Host == \/ HostSetpoint \/ HostStart \/ HostStop \/ HostArm
        \/ HostTestImage \/ HostDownloadMode \/ HostFrameRate

-----------------------------------------------------------------------------
(* The image correction process, reduced to what it does to this state: it *)
(* raises its bit early, waits for the camera to be ready, then starts and *)
(* stops acquisitions of its own until it is done or fails.                *)

Correct ==
  /\ ImageCorrection
  /\ \/ /\ "ImageCorrection" \notin tdc
        /\ tdc' = tdc \cup {"ImageCorrection"}
        /\ UNCHANGED <<start, stop, testImage, actAllow>>
     \/ /\ "ImageCorrection" \in tdc /\ ~actAllow
        /\ ~BypassChecks => tdc \cap {"Cooler", "Power"} = {}
        /\ actAllow' = TRUE
        /\ stop' = (stop \/ "Started" \in tdc)
        /\ testImage' \in {FALSE, BypassChecks}
        /\ UNCHANGED <<start, tdc>>
     \/ /\ "ImageCorrection" \in tdc /\ actAllow
        /\ ~BypassChecks => tdc \cap {"Cooler", "Power", "Motors", "Started", "Data"} = {}
        /\ start' = TRUE
        /\ UNCHANGED <<stop, testImage, actAllow, tdc>>
     \/ /\ "ImageCorrection" \in tdc /\ actAllow
        /\ stop' = TRUE
        /\ UNCHANGED <<start, testImage, actAllow, tdc>>
     \/ /\ "ImageCorrection" \in tdc /\ actAllow
        /\ tdc' = tdc \ {"ImageCorrection"}
        /\ stop' \in {stop, TRUE}
        /\ testImage' \in BOOLEAN
        /\ UNCHANGED <<start, actAllow>>
     \/ /\ "ImageCorrection" \notin tdc /\ actAllow
        /\ actAllow' = FALSE
        /\ UNCHANGED <<start, stop, testImage, tdc>>
  /\ UNCHANGED <<acqState, statics, arm, playback, waitFW, frPostponed, bit,
                 channels, trig, config, setpoint>>
  /\ powerUnchanged

(* FW_ControllerProcess and its neighbours: a motor settles or moves.      *)
Motors ==
  /\ \/ tdc' = tdc \ {"Motors"} /\ waitFW' = FALSE
     \/ tdc' = tdc \cup {"Motors"} /\ UNCHANGED waitFW
  /\ UNCHANGED <<acqState, statics, commands, playback, testImage, actAllow,
                 frPostponed, bit, channels, trig, config, setpoint>>
  /\ powerUnchanged

(* Calibration data is loaded, the output FPGA becomes ready.              *)
DataPath ==
  /\ tdc' \in {tdc \cup {"Data"}, tdc \ {"Data"}}
  /\ UNCHANGED <<acqState, statics, commands, inputs, frPostponed, bit,
                 channels, trig, config, setpoint>>
  /\ powerUnchanged

(* DeviceKey_Validate.                                                     *)
ValidateKey ==
  /\ powerAllowed' \in BOOLEAN
  /\ UNCHANGED <<acqVars, devPower, setpoint, powerStartup, pc>>

-----------------------------------------------------------------------------
Init ==
  /\ AcqInit
  /\ devPower = "Standby" /\ setpoint = "Standby"
  /\ powerStartup = TRUE
  /\ powerAllowed \in BOOLEAN
  /\ pc = "loop"

Acquire == Acquisition_SM /\ UNCHANGED powerVars

Cooldown == WaitingForSensorCooldown /\ UNCHANGED powerVars

MainLoop ==
  /\ pc = "loop"
  /\ \/ Acquire \/ Cooldown \/ Power_SM
     \/ Host \/ Correct \/ Motors \/ DataPath \/ ValidateKey

Next == MainLoop \/ PowerOnFailedEnd \/ ButtonReleased

Spec == Init /\ [][Next]_vars

(* The main loop never stops calling the two state machines; nothing says  *)
(* that the detector ever cools down.                                      *)
Fairness ==
  /\ WF_vars(pc = "loop" /\ Acquire)
  /\ WF_vars(pc = "loop" /\ Power_SM)
  /\ WF_vars(PowerOnFailedEnd)

LiveSpec == Spec /\ Fairness

-----------------------------------------------------------------------------
(* Properties.                                                             *)

(* Every variable has its type.                                            *)
PowerTypeOK ==
  /\ devPower \in PowerStates
  /\ setpoint \in Setpoints
  /\ powerStartup \in BOOLEAN /\ powerAllowed \in BOOLEAN
  /\ pc \in {"loop", "failedOn"}

TypeOK == AcqTypeOK /\ PowerTypeOK

(* A transition towards standby never meets an acquisition module that is  *)
(* on: the "not supposed to get there" arm of Power_SM (power_ctrl.c:417), *)
(* in which the camera would stay in transition for ever, is dead code.    *)
(* It is dead only as long as neither the host nor the button can turn the *)
(* setpoint round while a transition runs.                                 *)
NoInvalidPowerState ==
  devPower = "InTransition" /\ setpoint = "Standby" => acqPower # "On"

(* A camera that says it is on has its detector electronics and its cooler *)
(* powered, and has passed the six power-on tests since it was last off.   *)
OnMeansVerified ==
  devPower = "On" =>
    /\ cooler /\ adc
    /\ \A b \in BITs : bit[b] = "Passed"
    /\ "Cooler" \notin tdc

(* A camera whose acquisition module is in standby, whichever way it got   *)
(* there, has cut both channels, waits for the cooler and has left no test *)
(* pending.                                                                *)
StandbyMeansDark ==
  acqPower = "Standby" =>
    /\ ~cooler /\ ~adc
    /\ "Cooler" \in tdc
    /\ \A b \in BITs : bit[b] # "Pending"

(* The detector is never switched under a running trigger: once a power    *)
(* transition is requested, an acquisition that is still running has its   *)
(* stop command pending, and the power sequences run with the trigger in   *)
(* extra-trigger mode.                                                     *)
NoAcquisitionWhilePowering ==
  /\ acqPower = "InTransition" /\ acqState \in AcquisitionStates \ {"STOPPED"} => stop
  /\ acqState \notin AcquisitionStates => trig = "ExtraTrig"

(* A power-on that ends in a reset says why: some test has failed.  The    *)
(* one exception is the cooler supply, whose absence is reported by no     *)
(* test (Acquisition.c:501-511).                                           *)
ResetIsExplained ==
  acqState = "POWER_RESET" =>
    \/ \E b \in BITs : bit[b] = "Failed"
    \/ bit["SensorControllerDetection"] = "Passed" /\ bit["CoolerVoltageVerification"] = "Pending"

(* The trigger is not started while a power transition is in progress,     *)
(* whatever commands are pending, unless the checks are bypassed.          *)
NoStartDuringTransition ==
  [][trig = "ExtraTrig" /\ trig' = "Normal" /\ ~BypassChecks => "Power" \notin tdc]_vars

(* A stop command is consumed only by a call that leaves the trigger out   *)
(* of its normal mode: no stop is dropped while images are being taken.    *)
StopIsHonoured ==
  [][stop /\ ~stop' => trig' = "ExtraTrig"]_vars

(* The power manager does not undo a request to power on that was made in  *)
(* standby, by the button or by the host, unless powering on is forbidden: *)
(* a release of the button while Power_SM reports a failed transition is   *)
(* either ignored whole or kept.                                           *)
RequestNotUndone ==
  [][(Power_SM \/ PowerOnFailedEnd) /\ devPower = "Standby" /\ setpoint = "On"
       /\ setpoint' = "Standby" => ~powerAllowed]_vars

(* The detector has been configured by a live arm when it is declared      *)
(* ready and while it is acquiring.  No run checks it: without a memory    *)
(* buffer it says what Arm assigns, and with one it does not hold.  A host *)
(* that leaves the download mode between a playback arm and the next call  *)
(* gets a sensor that is ready and was never configured, since that call   *)
(* reads the mode again (Acquisition.c:374).                               *)
ReadyMeansArmed ==
  acqState \in {"SENSOR_READY", "STARTED"} => config = "live"

(* The inductive invariant behind the safety properties.  Each module's    *)
(* view of the other's state is tied to its own: the power manager and the *)
(* acquisition machine agree outside transitions, exactly one of the two   *)
(* flags or one of the two sequences is under way inside one, and the      *)
(* channels and test results are those of the step the sequence is at.     *)

PowerViewsAgree ==
  /\ devPower # "InTransition" => acqPower = devPower /\ pc = "loop"
  /\ acqPower = "InTransition" => devPower = "InTransition"
  /\ "Power" \in tdc <=> devPower = "InTransition"
  /\ pc = "failedOn" =>
       devPower = "InTransition" /\ setpoint = "Standby" /\ acqPower = "Standby"

OneTransition ==
  /\ acqPower # "InTransition" =>
       ~turnOn /\ ~turnOff /\ acqState \in AcquisitionStates
  /\ turnOn => setpoint = "On" /\ ~turnOff
  /\ turnOff => setpoint = "Standby"
  /\ turnOn \/ turnOff => acqState \in AcquisitionStates
  /\ acqPower = "InTransition" /\ ~turnOn /\ ~turnOff =>
       acqState \notin AcquisitionStates
  /\ acqState \in PowerOnStates => setpoint = "On"
  /\ acqState \in PowerOffStates => setpoint = "Standby"

TriggerFollowsState == trig = "Normal" => acqState = "STARTED"

StopPendingInTransition ==
  "Power" \in tdc /\ acqState \in {"STARTED", "WAIT_SCD_TRIG_MODE_TRANSITION"}
    /\ ~BypassChecks => stop

ChannelsFollowState ==
  /\ acqPower = "On" \/ turnOff => cooler /\ adc
  /\ turnOn => ~cooler /\ ~adc
  /\ acqState \in PowerOnStates => adc
  /\ acqState \in {"WAITING_FOR_ADC_DDC_PRESENCE", "WAITING_FOR_COOLER_VOLTAGE"}
       => ~cooler
  /\ acqState \in PowerOnStates \ {"WAITING_FOR_ADC_DDC_PRESENCE",
                                   "WAITING_FOR_COOLER_VOLTAGE"} => cooler
  /\ acqState = "WAITING_FOR_GLOBAL_DONE" => cooler /\ adc
  /\ acqState = "WAITING_FOR_COOLER_POWER_OFF" => ~cooler /\ ~adc

TestsFollowState ==
  /\ acqPower = "On" => (\A b \in BITs : bit[b] = "Passed") /\ "Cooler" \notin tdc
  /\ acqState \in PowerOnStates => bit["SensorControllerInitialization"] = "Passed"
  /\ IF acqState = "WAITING_FOR_ADC_DDC_PRESENCE"
     THEN bit["CoolerVoltageVerification"] = "Pending"
     ELSE acqState \in PowerOnStates => bit["SensorControllerDetection"] = "Passed"
  /\ acqState = "WAITING_FOR_COOLER_VOLTAGE" =>
       bit["CoolerVoltageVerification"] = "Pending"
  /\ acqState \in PowerOnStates \ {"WAITING_FOR_ADC_DDC_PRESENCE",
                                   "WAITING_FOR_COOLER_VOLTAGE"} =>
       bit["CoolerVoltageVerification"] = "Passed"
  /\ acqState \in {"WAITING_FOR_SENSOR_TEMP", "WAITING_FOR_SENSOR_COOLDOWN",
                   "WAIT_SCD_SPECIFIC_INIT_SEQ", "WAITING_FOR_FPA_INIT",
                   "FINALIZE_POWER_ON"} =>
       bit["CoolerCurrentVerification"] = "Passed"
  /\ acqState \in {"WAIT_SCD_SPECIFIC_INIT_SEQ", "WAITING_FOR_FPA_INIT",
                   "FINALIZE_POWER_ON"} =>
       bit["Cooldown"] = "Passed" /\ "Cooler" \notin tdc
  /\ acqState = "FINALIZE_POWER_ON" => bit["SensorInitialization"] = "Passed"
  /\ acqState \in PowerOffStates =>
       \A b \in BITs \ {"SensorControllerInitialization", "CoolerCurrentVerification"} :
         bit[b] # "Pending"
  /\ turnOn => \A b \in BITs : bit[b] # "Pending"

IInv ==
  /\ TypeOK
  /\ PowerViewsAgree
  /\ OneTransition
  /\ TriggerFollowsState
  /\ NoInvalidPowerState
  /\ NoAcquisitionWhilePowering
  /\ StopPendingInTransition
  /\ ChannelsFollowState
  /\ TestsFollowState
  /\ StandbyMeansDark
  /\ ResetIsExplained

(* Every power transition ends, unless the detector never cools down.      *)
TransitionEnds ==
  devPower = "InTransition" ~>
    (devPower # "InTransition" \/ [](acqState = "WAITING_FOR_SENSOR_COOLDOWN"))

(* A request to power on made in standby is taken up, refused or withdrawn *)
(* by the host: the setpoint register never keeps an unanswered request.   *)
RequestAnswered ==
  (devPower = "Standby" /\ setpoint = "On") ~>
    (devPower = "InTransition" \/ setpoint = "Standby")

(* A power transition is gone through once and cannot turn back: from the  *)
(* request on, each call goes on to a later step of the stop of a running  *)
(* acquisition, of the sequence and of the reset that ends one that fails, *)
(* whatever the host, the button and the image correction ask for in       *)
(* between (Acquisition.c:434-755, power_ctrl.c:397-437).                  *)
TransitionSteps ==
  [WAITING_FOR_SENSOR_READY |-> 16, SENSOR_READY |-> 15, STARTED |-> 14,
   WAIT_SCD_TRIG_MODE_TRANSITION |-> 13, STOPPED |-> 12,
   WAITING_FOR_ADC_DDC_PRESENCE |-> 11, WAITING_FOR_COOLER_VOLTAGE |-> 10,
   WAITING_FOR_COOLER_POWER_ON |-> 9, WAITING_FOR_SENSOR_TEMP |-> 8,
   WAITING_FOR_SENSOR_COOLDOWN |-> 7, WAIT_SCD_SPECIFIC_INIT_SEQ |-> 6,
   WAITING_FOR_FPA_INIT |-> 5, FINALIZE_POWER_ON |-> 4,
   WAITING_FOR_GLOBAL_DONE |-> 5, WAITING_FOR_COOLER_POWER_OFF |-> 4, POWER_RESET |-> 3]
StepsLeft == IF acqPower = "InTransition" THEN TransitionSteps[acqState] ELSE 0

TransitionIsFinite ==
  [][devPower = "InTransition" =>
       \/ devPower' # "InTransition" \/ StepsLeft' < StepsLeft
       \/ UNCHANGED acqPower /\ UNCHANGED StepsLeft]_vars

(* The acquisition machine keeps the contract of those who command it,     *)
(* through power transitions and the detour of an SCD detector.            *)
AcqRun == IF acqState = "STARTED" THEN "on"
       ELSE IF acqState \in {"WAITING_FOR_SENSOR_READY", "SENSOR_READY"} THEN "armed"
       ELSE IF acqState = "WAIT_SCD_TRIG_MODE_TRANSITION" /\ ~stop THEN "paused" ELSE "off"

Commands == INSTANCE AcquisitionContract WITH run <- AcqRun, reported <- "Started" \in tdc

ObeysCommands == Commands!Spec

(* The composition keeps the contract of the DevicePowerState register.    *)
Contract == INSTANCE PowerContract WITH
  state <- devPower,
  target <- IF devPower = "InTransition" THEN setpoint ELSE devPower,
  energised <- (IF cooler THEN {"cooler"} ELSE {}) \cup (IF adc THEN {"adc"} ELSE {})

KeepsContract == Contract!Spec
=============================================================================
