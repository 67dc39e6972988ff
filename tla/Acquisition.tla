---------------------------- MODULE Acquisition ----------------------------
(***************************************************************************)
(* The acquisition state machine of the camera processor: Acquisition_SM,  *)
(* Acquisition_SetPowerState and the two arming routines of                *)
(* sw/Acquisition.c, with the power channels of sw/power_ctrl.c they drive *)
(* and the built-in-test results they publish.                             *)
(*                                                                         *)
(* One call of Acquisition_SM from the main loop is one step.  A call that *)
(* finds nothing to do (a delay still running, a status bit not yet set)   *)
(* changes nothing and is a stuttering step; which deadline has expired    *)
(* and what the detector hardware reports are chosen by the step.          *)
(***************************************************************************)

CONSTANTS
  ScdProxy,      \* the build defines SCD_PROXY (an SCD detector)
  BypassChecks   \* gActDebugOptions.bypassChecks, set from the debug terminal

ASSUME BuildAssumption == ScdProxy \in BOOLEAN /\ BypassChecks \in BOOLEAN

VARIABLES
  acqState,      \* acquisitionState
  startup,       \* static startup of Acquisition_SM
  turnOn,        \* gAcquisitionTurnOn
  turnOff,       \* gAcquisitionTurnOff
  acqPower,      \* gAcquisitionPowerState
  start,         \* gcRegsData.AcquisitionStart
  stop,          \* gcRegsData.AcquisitionStop
  arm,           \* gcRegsData.AcquisitionArm
  playback,      \* BM_MemoryBufferRead: the memory buffer is being read
  testImage,     \* gcRegsData.TestImageSelector /= TIS_Off
  tdc,           \* the bits set in gcRegsData.TDCStatus
  actAllow,      \* gActAllowAcquisitionStart
  frPostponed,   \* gFrameRateChangePostponed
  waitFW,        \* gWaitingForFilterWheel
  bit,           \* builtInTests[...].result of the six power-on tests
  cooler, adc,   \* the power channels PC_COOLER and PC_ADC_DDC
  trig,          \* the acquisition window of the trigger generator
  config         \* the configuration last sent to the data path by an arm

statics == <<startup, turnOn, turnOff, acqPower>>
commands == <<start, stop, arm>>
inputs == <<playback, testImage, actAllow, waitFW>>
channels == <<cooler, adc>>
acqVars == <<acqState, statics, commands, inputs, tdc, frPostponed,
             bit, channels, trig, config>>

AcquisitionStates ==
  {"STOPPED", "WAITING_FOR_SENSOR_READY", "SENSOR_READY", "STARTED",
   "WAIT_SCD_TRIG_MODE_TRANSITION"}
PowerOnStates ==
  {"WAITING_FOR_ADC_DDC_PRESENCE", "WAITING_FOR_COOLER_VOLTAGE",
   "WAITING_FOR_COOLER_POWER_ON", "WAITING_FOR_SENSOR_TEMP",
   "WAITING_FOR_SENSOR_COOLDOWN", "WAIT_SCD_SPECIFIC_INIT_SEQ",
   "WAITING_FOR_FPA_INIT", "FINALIZE_POWER_ON"}
PowerOffStates == {"WAITING_FOR_GLOBAL_DONE", "WAITING_FOR_COOLER_POWER_OFF"}
AcqStates ==
  AcquisitionStates \cup PowerOnStates \cup PowerOffStates \cup {"POWER_RESET"}

(* The bits of TDCStatus.  "Motors" stands for the ICU, ND filter and       *)
(* filter wheel bits, which matter to the sensor only; "Data" for the       *)
(* calibration data and output FPGA bits, which matter to test images too.  *)
TDCBits == {"Cooler", "Power", "Arm", "Sensor", "Params", "Started",
            "ImageCorrection", "Motors", "Data"}

BITs == {"SensorControllerInitialization", "SensorControllerDetection",
         "CoolerVoltageVerification", "CoolerCurrentVerification",
         "Cooldown", "SensorInitialization"}
BITResults == {"Pending", "Passed", "Failed", "NotApplicable"}

PowerStates == {"Standby", "InTransition", "On"}

-----------------------------------------------------------------------------
(* The conditions of Acquisition.h.                                        *)

SensorArmMask == {"Cooler", "Motors", "Started", "Data", "ImageCorrection", "Power"}
TestImageArmMask == {"Started", "Data", "ImageCorrection", "Power"}

AllowAcquisitionArm(t) ==
  t \cap (IF testImage THEN TestImageArmMask ELSE SensorArmMask) = {}

AllowAcquisitionStart(t) ==
  AllowAcquisitionArm(t) /\ t \cap {"Params", "Arm", "Sensor"} = {}

(* Mutant: the status bits are not looked at.                              *)
Bug_StartReadyUnchecked(t) == actAllow \/ BypassChecks

actualisationAcqStartReady(t) ==
  \/ actAllow /\ t \ {"ImageCorrection"} = {}
  \/ BypassChecks

(* GC_DeviceRegistersVerification leaves its verdict in TDCStatus.         *)
Verified(t, valid) == IF valid THEN t \ {"Params"} ELSE t \cup {"Params"}

-----------------------------------------------------------------------------
(* Mutant: the running acquisition is not asked to stop.                   *)
Bug_SetPowerStateNoStop(setpoint) ==
  LET accepted == acqPower # "InTransition" /\ acqPower # setpoint
  IN /\ turnOn' = (turnOn \/ (accepted /\ setpoint = "On"))
     /\ turnOff' = (turnOff \/ (accepted /\ setpoint = "Standby"))
     /\ acqPower' = IF accepted THEN "InTransition" ELSE acqPower
     /\ UNCHANGED stop

(* Acquisition_SetPowerState, called by the power manager.                 *)
SetPowerState(setpoint) ==
  LET accepted == acqPower # "InTransition" /\ acqPower # setpoint
  IN /\ stop' = (stop \/ accepted)
     /\ turnOn' = (turnOn \/ (accepted /\ setpoint = "On"))
     /\ turnOff' = (turnOff \/ (accepted /\ setpoint = "Standby"))
     /\ acqPower' = IF accepted THEN "InTransition" ELSE acqPower

-----------------------------------------------------------------------------
(* ACQ_STOPPED.  The stop command is dropped and AcquisitionStarted is     *)
(* cleared before anything else; turning on wins over turning off, and     *)
(* both win over arming.                                                   *)

TurnOn ==
  /\ turnOn
  /\ turnOn' = FALSE
  /\ stop' = FALSE
  /\ tdc' = tdc \ {"Started"}
  /\ bit' = [b \in BITs |-> IF b = "SensorControllerInitialization"
                            THEN "Passed" ELSE "Pending"]
  /\ adc' = TRUE
  /\ acqState' = "WAITING_FOR_ADC_DDC_PRESENCE"
  /\ UNCHANGED <<startup, turnOff, acqPower, start, arm, inputs,
                 frPostponed, cooler, trig, config>>

TurnOff ==
  /\ ~turnOn /\ turnOff
  /\ turnOff' = FALSE
  /\ stop' = FALSE
  /\ tdc' = tdc \ {"Started"}
  /\ bit' = [b \in BITs |->
               IF b \in {"SensorControllerInitialization",
                         "CoolerCurrentVerification"}
               THEN "Pending" ELSE "NotApplicable"]
  /\ acqState' = "WAITING_FOR_GLOBAL_DONE"
  /\ UNCHANGED <<startup, turnOn, acqPower, start, arm, inputs,
                 frPostponed, channels, trig, config>>

(* Acquisition_Arm and Playback_Arm: a start command arms by itself.       *)
Arm(valid) ==
  /\ start \/ arm
  /\ arm' = FALSE
  /\ stop' = FALSE
  /\ LET t == Verified(tdc \ {"Started"}, valid)
     IN IF ~valid
        THEN /\ start' = FALSE
             /\ tdc' = t
             /\ UNCHANGED <<acqState, config>>
        ELSE /\ tdc' = IF playback THEN t ELSE (t \ {"Arm"}) \cup {"Sensor"}
             /\ config' = IF playback THEN "playback" ELSE "live"
             /\ acqState' = "WAITING_FOR_SENSOR_READY"
             /\ UNCHANGED start

ArmOrIdle ==
  /\ ~turnOn /\ ~turnOff
  /\ \/ \E valid \in BOOLEAN : Arm(valid)
     \/ /\ ~start /\ ~arm
        /\ stop' = FALSE
        /\ tdc' = tdc \ {"Started"}
        /\ UNCHANGED <<start, arm, acqState, config>>
  /\ UNCHANGED <<statics, inputs, frPostponed, bit, channels, trig>>

Stopped == acqState = "STOPPED" /\ (TurnOn \/ TurnOff \/ ArmOrIdle)

-----------------------------------------------------------------------------
(* ACQ_WAITING_FOR_SENSOR_READY: reading the memory buffer needs no sensor *)
(* and returns to ACQ_STOPPED; a live acquisition waits for two seconds.   *)
WaitingForSensorReady ==
  /\ acqState = "WAITING_FOR_SENSOR_READY"
  /\ IF playback
     THEN /\ start' = FALSE
          /\ acqState' = "STOPPED"
          /\ UNCHANGED tdc
     ELSE /\ tdc' = tdc \ {"Sensor"}
          /\ acqState' = "SENSOR_READY"
          /\ UNCHANGED start
  /\ UNCHANGED <<statics, stop, arm, inputs, frPostponed,
                 bit, channels, trig, config>>

(* Mutant: the stop command is taken for handled before the delay.         *)
Bug_HaltForgetsStop(t) ==
  /\ trig' = "ExtraTrig" /\ stop' = FALSE
  /\ IF ScdProxy THEN acqState' = "WAIT_SCD_TRIG_MODE_TRANSITION" /\ tdc' = t
                 ELSE acqState' = "STOPPED" /\ tdc' = t \cup {"Arm"}

(* The common end of a stop command in ACQ_SENSOR_READY and ACQ_STARTED:   *)
(* an SCD detector first lets the extra-trigger mode settle.               *)
HaltAcquisition(t) ==
  /\ trig' = "ExtraTrig"
  /\ IF ScdProxy
     THEN /\ acqState' = "WAIT_SCD_TRIG_MODE_TRANSITION"
          /\ tdc' = t
          /\ stop' = TRUE
     ELSE /\ acqState' = "STOPPED"
          /\ tdc' = t \cup {"Arm"}
          /\ stop' = FALSE

(* ACQ_SENSOR_READY: the start command is consumed whether it is allowed   *)
(* or not; a stop command found in the same call undoes the start.         *)
SensorReady ==
  /\ acqState = "SENSOR_READY"
  /\ \E valid \in BOOLEAN :
       LET t == IF start THEN Verified(tdc, valid) ELSE tdc
           go == start /\ (AllowAcquisitionStart(t) \/ actualisationAcqStartReady(t))
       IN IF stop
          THEN HaltAcquisition(t)
          ELSE /\ tdc' = t
               /\ trig' = IF go THEN "Normal" ELSE trig
               /\ acqState' = IF go THEN "STARTED" ELSE acqState
               /\ UNCHANGED stop
  /\ start' = FALSE
  /\ UNCHANGED <<statics, arm, inputs, frPostponed, bit, channels, config>>

(* ACQ_STARTED: an arm command stops the acquisition first.                *)
Started ==
  /\ acqState = "STARTED"
  /\ IF stop \/ arm
     THEN HaltAcquisition(tdc)
     ELSE /\ tdc' = tdc \cup {"Started"}
          /\ LET postponed == ScdProxy /\ frPostponed
             IN /\ trig' = IF postponed THEN "ExtraTrig" ELSE trig
                /\ acqState' = IF postponed THEN "WAIT_SCD_TRIG_MODE_TRANSITION"
                                            ELSE acqState
          /\ UNCHANGED stop
  /\ UNCHANGED <<statics, start, arm, inputs, frPostponed,
                 bit, channels, config>>

(* Mutant: a postponed frame rate is applied first, and the stop command   *)
(* is taken for handled.                                                   *)
Bug_WaitScdRateFirst ==
  /\ acqState = "WAIT_SCD_TRIG_MODE_TRANSITION"
  /\ ScdProxy /\ ~waitFW
  /\ stop' = FALSE
  /\ frPostponed' = FALSE
  /\ IF stop /\ ~frPostponed
     THEN /\ tdc' = tdc \cup {"Arm"}
          /\ acqState' = "STOPPED"
          /\ UNCHANGED trig
     ELSE /\ trig' = "Normal"
          /\ acqState' = "STARTED"
          /\ UNCHANGED tdc
  /\ UNCHANGED <<statics, start, arm, inputs, bit, channels, config>>

(* ACQ_WAIT_SCD_TRIG_MODE_TRANSITION, once the delay has expired and the   *)
(* filter wheel has settled: finish the stop, or apply the new frame rate  *)
(* and resume.                                                             *)
WaitScdTrigModeTransition ==
  /\ acqState = "WAIT_SCD_TRIG_MODE_TRANSITION"
  /\ ScdProxy /\ ~waitFW
  /\ IF stop
     THEN /\ stop' = FALSE
          /\ tdc' = tdc \cup {"Arm"}
          /\ acqState' = "STOPPED"
          /\ UNCHANGED <<trig, frPostponed>>
     ELSE /\ frPostponed' = FALSE
          /\ trig' = "Normal"
          /\ acqState' = "STARTED"
          /\ UNCHANGED <<stop, tdc>>
  /\ UNCHANGED <<statics, start, arm, inputs, bit, channels, config>>

-----------------------------------------------------------------------------
(* The power-on sequence.  PowerStep(from, to, test, result) is a call that *)
(* leaves one waiting state for another and records one test result.       *)
PowerStep(from, to, test, result) ==
  /\ acqState = from
  /\ acqState' = to
  /\ bit' = [bit EXCEPT ![test] = result]
  /\ UNCHANGED <<startup, turnOn, turnOff, acqPower, commands, inputs,
                 frPostponed, trig, config>>

WaitingForAdcDdcPresence ==
  /\ \/ PowerStep("WAITING_FOR_ADC_DDC_PRESENCE", "WAITING_FOR_COOLER_VOLTAGE",
                  "SensorControllerDetection", "Passed")
     \/ PowerStep("WAITING_FOR_ADC_DDC_PRESENCE", "POWER_RESET",
                  "SensorControllerDetection", "Failed")
  /\ UNCHANGED <<tdc, channels>>

(* Power_TurnOn(PC_COOLER) switches the cooler on only if the detection is  *)
(* done, the board is present and the cooler supply is in range, and off    *)
(* otherwise.  "refused" is the refusal that records no test result; the    *)
(* deadline of the state records none either and leaves the channel alone.  *)
WaitingForCoolerVoltage ==
  /\ acqState = "WAITING_FOR_COOLER_VOLTAGE"
  /\ \E supply \in {"inRange", "outOfRange", "refused", "timeout"} :
       /\ cooler' = IF supply = "timeout" THEN cooler ELSE supply = "inRange"
       /\ bit' = [bit EXCEPT !["CoolerVoltageVerification"] =
                     CASE supply = "inRange" -> "Passed"
                       [] supply = "outOfRange" -> "Failed"
                       [] OTHER -> @]
       /\ acqState' = IF supply = "inRange" THEN "WAITING_FOR_COOLER_POWER_ON"
                                            ELSE "POWER_RESET"
  /\ UNCHANGED <<statics, commands, inputs, tdc, frPostponed, adc, trig, config>>

WaitingForCoolerPowerOn ==
  /\ \/ PowerStep("WAITING_FOR_COOLER_POWER_ON", "WAITING_FOR_SENSOR_TEMP",
                  "CoolerCurrentVerification", "Passed")
     \/ PowerStep("WAITING_FOR_COOLER_POWER_ON", "POWER_RESET",
                  "CoolerCurrentVerification", "Failed")
  /\ UNCHANGED <<tdc, channels>>

WaitingForSensorTemp ==
  /\ \/ PowerStep("WAITING_FOR_SENSOR_TEMP", "WAITING_FOR_SENSOR_COOLDOWN",
                  "Cooldown", bit["Cooldown"])
     \/ PowerStep("WAITING_FOR_SENSOR_TEMP", "POWER_RESET", "Cooldown", "Failed")
  /\ UNCHANGED <<tdc, channels>>

(* The only waiting state without a deadline.                              *)
WaitingForSensorCooldown ==
  /\ PowerStep("WAITING_FOR_SENSOR_COOLDOWN",
               IF ScdProxy THEN "WAIT_SCD_SPECIFIC_INIT_SEQ"
                           ELSE "WAITING_FOR_FPA_INIT",
               "Cooldown", "Passed")
  /\ tdc' = tdc \ {"Cooler"}
  /\ UNCHANGED channels

WaitScdSpecificInitSeq ==
  /\ ScdProxy
  /\ \/ PowerStep("WAIT_SCD_SPECIFIC_INIT_SEQ", "WAITING_FOR_FPA_INIT",
                  "SensorInitialization", bit["SensorInitialization"])
     \/ PowerStep("WAIT_SCD_SPECIFIC_INIT_SEQ", "POWER_RESET",
                  "SensorInitialization", "Failed")
  /\ UNCHANGED <<tdc, channels>>

(* Mutant: a failed initialization completes the power-on.                 *)
Bug_FpaInitIgnoresFailure ==
  /\ \E result \in {"Passed", "Failed"} :
       PowerStep("WAITING_FOR_FPA_INIT", "FINALIZE_POWER_ON",
                 "SensorInitialization", result)
  /\ UNCHANGED <<tdc, channels>>

WaitingForFpaInit ==
  /\ \/ PowerStep("WAITING_FOR_FPA_INIT", "FINALIZE_POWER_ON",
                  "SensorInitialization", "Passed")
     \/ PowerStep("WAITING_FOR_FPA_INIT", "POWER_RESET",
                  "SensorInitialization", "Failed")
  /\ UNCHANGED <<tdc, channels>>

(* atStartup: PowerOnAtStartup and AcquisitionStartAtStartup are set.      *)
FinalizePowerOn ==
  /\ acqState = "FINALIZE_POWER_ON"
  /\ acqPower' = "On"
  /\ acqState' = "STOPPED"
  /\ startup' = FALSE
  /\ \E atStartup \in BOOLEAN : start' = (start \/ (startup /\ atStartup))
  /\ UNCHANGED <<turnOn, turnOff, stop, arm, inputs, tdc, frPostponed,
                 bit, channels, trig, config>>

-----------------------------------------------------------------------------
(* The power-off sequence and the reset that ends every failed transition. *)

WaitingForGlobalDone ==
  \/ /\ PowerStep("WAITING_FOR_GLOBAL_DONE", "WAITING_FOR_COOLER_POWER_OFF",
                  "SensorControllerInitialization",
                  bit["SensorControllerInitialization"])
     /\ adc' = FALSE
     /\ cooler' = FALSE
     /\ UNCHANGED tdc
  \/ /\ PowerStep("WAITING_FOR_GLOBAL_DONE", "POWER_RESET",
                  "SensorControllerInitialization", "Failed")
     /\ UNCHANGED <<tdc, channels>>

WaitingForCoolerPowerOff ==
  /\ acqState = "WAITING_FOR_COOLER_POWER_OFF"
  /\ \E off \in BOOLEAN :
       IF off
       THEN /\ bit' = [bit EXCEPT !["CoolerCurrentVerification"] = "Passed",
                                  !["SensorControllerInitialization"] = "Passed"]
            /\ tdc' = tdc \cup {"Cooler"}
            /\ acqPower' = "Standby"
            /\ acqState' = "STOPPED"
       ELSE /\ bit' = [bit EXCEPT !["CoolerCurrentVerification"] = "Failed"]
            /\ acqState' = "POWER_RESET"
            /\ UNCHANGED <<tdc, acqPower>>
  /\ UNCHANGED <<startup, turnOn, turnOff, commands, inputs, frPostponed,
                 channels, trig, config>>

PowerReset ==
  /\ acqState = "POWER_RESET"
  /\ startup' = FALSE
  /\ bit' = [b \in BITs |-> IF bit[b] = "Pending" THEN "NotApplicable" ELSE bit[b]]
  /\ adc' = FALSE
  /\ cooler' = FALSE
  /\ tdc' = tdc \cup {"Cooler"}
  /\ acqPower' = "Standby"
  /\ acqState' = "STOPPED"
  /\ UNCHANGED <<turnOn, turnOff, commands, inputs, frPostponed, trig, config>>

-----------------------------------------------------------------------------
(* One call of Acquisition_SM, except the end of the cooldown, which the   *)
(* detector alone decides.                                                 *)
Acquisition_SM ==
  \/ Stopped
  \/ WaitingForSensorReady
  \/ SensorReady
  \/ Started
  \/ WaitScdTrigModeTransition
  \/ WaitingForAdcDdcPresence
  \/ WaitingForCoolerVoltage
  \/ WaitingForCoolerPowerOn
  \/ WaitingForSensorTemp
  \/ WaitScdSpecificInitSeq
  \/ WaitingForFpaInit
  \/ FinalizePowerOn
  \/ WaitingForGlobalDone
  \/ WaitingForCoolerPowerOff
  \/ PowerReset

AcqInit ==
  /\ acqState = "STOPPED"
  /\ startup = TRUE
  /\ turnOn = FALSE /\ turnOff = FALSE
  /\ acqPower = "Standby"
  /\ start = FALSE /\ stop = FALSE /\ arm = FALSE
  /\ playback = FALSE /\ testImage = TRUE
  /\ tdc \in {{"Cooler"} \cup s : s \in SUBSET {"Arm", "Sensor"}}
  /\ actAllow = FALSE /\ frPostponed = FALSE /\ waitFW = FALSE
  /\ \E result \in {"Passed", "Failed"} :
       bit = [b \in BITs |-> IF b = "SensorControllerInitialization"
                             THEN result ELSE "NotApplicable"]
  /\ cooler = FALSE /\ adc = FALSE
  /\ trig = "ExtraTrig"
  /\ config = "none"

ControlTypeOK ==
  /\ acqState \in AcqStates
  /\ acqPower \in PowerStates
  /\ trig \in {"ExtraTrig", "Normal"}
  /\ config \in {"none", "live", "playback"}

StatusTypeOK == tdc \subseteq TDCBits /\ bit \in [BITs -> BITResults]

FlagTypeOK ==
  /\ startup \in BOOLEAN /\ turnOn \in BOOLEAN /\ turnOff \in BOOLEAN
  /\ start \in BOOLEAN /\ stop \in BOOLEAN /\ arm \in BOOLEAN
  /\ cooler \in BOOLEAN /\ adc \in BOOLEAN

InputTypeOK ==
  /\ playback \in BOOLEAN /\ testImage \in BOOLEAN
  /\ actAllow \in BOOLEAN /\ frPostponed \in BOOLEAN /\ waitFW \in BOOLEAN

AcqTypeOK == ControlTypeOK /\ StatusTypeOK /\ FlagTypeOK /\ InputTypeOK
=============================================================================
