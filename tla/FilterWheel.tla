----------------------------- MODULE FilterWheel -----------------------------
(***************************************************************************)
(* The filter wheel: FW_ControllerProcess and its mode functions           *)
(* (FW/Driver/FWController.c), the commands and answers it exchanges with   *)
(* the Faulhaber motor controller over a serial link (FaulhaberControl.c,  *)
(* FaulhaberProtocol.c), the host's writes of the FW registers, and, as    *)
(* external parts, the link and the motor.                                 *)
(*                                                                         *)
(* One call of FW_ControllerProcess is one step: it looks at the command   *)
(* queue, moves the mode, runs one step of the mode's own state machine    *)
(* and sends what that step wrote.  A filter is named by its position, an  *)
(* even number of half filters; an odd position lies between two filters.  *)
(* A command of several lines counts as one line with one acknowledgement, *)
(* however many chunks of FH_MAX_TX_SIZE bytes it leaves in: the rest of   *)
(* it leaves at the end of the next call, whatever the mode, and each mode *)
(* waits for all its acknowledgements before it gives another command.     *)
(* A stopped timer never expires; a running one may at any call once what  *)
(* it waits for cannot come any more, and, MaxFaults times, too early.     *)
(* The camera has a wheel (flashSettings.FWPresent).                       *)
(***************************************************************************)
EXTENDS Integers, Sequences

CONSTANTS
  WheelTypes,    \* the values of flashSettings.FWType: "fixed", "sync"
  Filters,       \* the positions of the filters
  MaxWrites,     \* a bound: how often the host writes a register
  MaxFaults,     \* a bound: how often the link or the motor fails
  ResetAnyTime   \* the debug terminal resets while the motor is at work

Home == 1              \* where the homing switch is, between two filters
Elsewhere == -2        \* a position nobody asked for
Slow == 100            \* rpm: a speed below FW_VEL_THRESHOLD
Fast == 200            \* and one above
Speeds == {Slow, Fast}
RawPositions == Filters \cup {Home}   \* targets for FWPositionRawSetpoint

ASSUME WheelAssumption ==
  /\ WheelTypes \subseteq {"fixed", "sync"} /\ WheelTypes # {}
  /\ 0 \in Filters /\ Filters \subseteq {f \in 0..50 : f % 2 = 0}
  /\ MaxWrites \in Nat /\ MaxFaults \in Nat /\ ResetAnyTime \in BOOLEAN

VARIABLES
  fwType,        \* flashSettings.FWType
  fastAllowed,   \* flashSettings.FWSpeedMax is above FW_VEL_THRESHOLD
  fwMode,        \* gcRegsData.FWMode: "Fixed" or "Rotating"
  posSetpoint,   \* gcRegsData.FWPositionSetpoint, at first Filter1
  speedSetpoint, \* gcRegsData.FWSpeedSetpoint, 0 until the wheel rotates
  shown,         \* gcRegsData.FWPosition
  waiting,       \* the status bit WaitingForFilterWheel
  queue,         \* FW_CmdQueue, which holds one command at most
  ctl,           \* the statics of FW_ControllerProcess, FW_RequestedTarget
  reset,         \* FW_Reset
  err,           \* FW_errors # 0
  errorTimer,    \* FW_modeChangeTimer runs
  sub,           \* initMode, velMode or posMode, by ctl.mode
  lastTarget,    \* lastTarget of FWVelocityMode
  verifyPos,     \* verifyPos of FWPositionMode
  backlashMode,  \* backlashMode of FWPositionMode
  rawPosition,   \* FW_currentRawPosition
  line,          \* the command being sent (txBusy), or NoCommand
  expected,      \* numExpectedAck
  responses,     \* respTypes and responses, with what they answer
  todo,          \* commands the motor has received and not answered
  wheel,         \* where the wheel is, how it turns, where it goes
  asked,         \* no variable of the code: the last command accepted
  writes, faults \* no variables of the code: counters for the bounds

host == <<fwType, fastAllowed, fwMode, posSetpoint, speedSetpoint, writes>>
control == <<shown, waiting, queue, asked, ctl, reset, err, errorTimer>>
modes == <<sub, lastTarget, verifyPos, backlashMode, rawPosition>>
motor == <<todo, wheel>>
vars == <<host, control, modes, line, expected, responses, motor, faults>>

NoCommand == [kind |-> "none"]
Transition == -1       \* FWP_FilterWheelInTransition
Still == [kind |-> "none"]

Modes == {"Startup", "Init", "Idle", "Velocity", "Position", "Error"}
Targets == RawPositions \cup Speeds
Queueable == [mode : {"Velocity", "Position", "Error"}, target : Targets]

-----------------------------------------------------------------------------
(* The serial link, as the controller sees it.                             *)

(* FH_consumeResponses: everything received is dropped, and nothing is     *)
(* expected any more, unless a command is being sent.                      *)
(* Mutant: the acknowledgements still expected stay expected.              *)
Bug_ConsumeResponses ==
  /\ responses' = IF line = NoCommand THEN <<>> ELSE responses
  /\ UNCHANGED expected

ConsumeResponses ==
  IF line = NoCommand THEN responses' = <<>> /\ expected' = 0
                      ELSE UNCHANGED <<responses, expected>>

(* A command is refused while another is being sent; a query is not        *)
(* acknowledged.  It leaves at the end of the call (FH_sendPendingCmds).   *)
Command(cmd, s, next) ==
  IF line = NoCommand
  THEN /\ line' = cmd
       /\ expected' = expected + (IF cmd.kind = "query" THEN 0 ELSE 1)
       /\ sub' = next
  ELSE /\ sub' = s
       /\ UNCHANGED <<line, expected>>

(* FH_readAcks and FH_clearAcks.                                           *)
NumAcks ==
  IF line # NoCommand THEN 0
  ELSE CHOOSE n \in 0..Len(responses) :
         /\ \A i \in 1..n : responses[i].kind = "ack"
         /\ n < Len(responses) => responses[n + 1].kind # "ack"

AcksLeft == IF NumAcks > expected THEN 0 ELSE expected - NumAcks
AfterAcks == SubSeq(responses, NumAcks + 1, Len(responses))

(* FH_readNotification takes any notification from the front of the queue. *)
Notified == line = NoCommand /\ responses # <<>> /\ Head(responses).kind = "notify"

-----------------------------------------------------------------------------
(* ChangeFWControllerMode: a speed is only taken while the wheel is to     *)
(* rotate, a position while it is to stand.  A command replaces the one in *)
(* the queue; a speed above the maximum becomes an error.                  *)

TooFast(cmd) == cmd.mode = "Velocity" /\ cmd.target = Fast /\ ~fastAllowed

ChangeFWControllerMode(mode, cmd) ==
  IF mode = (IF cmd.mode = "Position" THEN "Fixed" ELSE "Rotating")
  THEN /\ queue' = [mode |-> IF TooFast(cmd) THEN "Error" ELSE cmd.mode,
                    target |-> cmd.target]
       /\ err' = (err \/ TooFast(cmd))
       /\ asked' = cmd
  ELSE UNCHANGED <<queue, err, asked>>

To(f) == [mode |-> "Position", target |-> f, raw |-> FALSE]
At(v) == [mode |-> "Velocity", target |-> v, raw |-> FALSE]

(* GC_UpdateFWPositionSetpoint, by the host or, with a filter wheel        *)
(* calibration active, with the position of one of its blocks.             *)
HostPosition(f) ==
  /\ writes < MaxWrites /\ writes' = writes + 1
  /\ posSetpoint' = f
  /\ ChangeFWControllerMode(fwMode, To(f))
  /\ UNCHANGED <<fwType, fastAllowed, fwMode, speedSetpoint, shown, waiting, ctl,
                 reset, errorTimer, modes, line, expected, responses, motor, faults>>

(* GC_FWPositionRawSetpointCallback: a position in counts, which may lie   *)
(* between two filters; no other register follows it.                      *)
HostRawPosition(p) ==
  /\ writes < MaxWrites /\ writes' = writes + 1
  /\ ChangeFWControllerMode(fwMode, [To(p) EXCEPT !.raw = TRUE])
  /\ UNCHANGED <<fwType, fastAllowed, fwMode, posSetpoint, speedSetpoint, shown,
                 waiting, ctl, reset, errorTimer, modes, line, expected, responses,
                 motor, faults>>

(* GC_FWModeCallback, to fixed mode.  A filter wheel calibration may bring *)
(* its own position.                                                       *)
HostFixed(f) ==
  /\ writes < MaxWrites /\ writes' = writes + 1
  /\ fwMode' = "Fixed" /\ posSetpoint' = f
  /\ ChangeFWControllerMode("Fixed", To(f))
  /\ UNCHANGED <<fwType, fastAllowed, speedSetpoint, shown, waiting, ctl, reset,
                 errorTimer, modes, line, expected, responses, motor, faults>>

(* FW_CalculateSpeedSetpoint: the speed the frame rate asks for, up to the *)
(* maximum.                                                                *)
SpeedSetpoint(v) == IF v = Fast /\ ~fastAllowed THEN Slow ELSE v

(* GC_FWModeCallback, to the rotating mode of a synchronous wheel, and, in *)
(* that mode, GC_AcquisitionFrameRateCallback: the frame rate asks for v.  *)
HostRotating(v) ==
  /\ writes < MaxWrites /\ writes' = writes + 1
  /\ fwType = "sync"
  /\ fwMode' = "Rotating" /\ speedSetpoint' = SpeedSetpoint(v)
  /\ ChangeFWControllerMode("Rotating", At(SpeedSetpoint(v)))
  /\ UNCHANGED <<fwType, fastAllowed, posSetpoint, shown, waiting, ctl, reset,
                 errorTimer, modes, line, expected, responses, motor, faults>>

(* Flash settings with a lower FWSpeedMax are loaded; the setpoint stays.  *)
HostLowersMaximum ==
  /\ writes < MaxWrites /\ writes' = writes + 1
  /\ fwType = "sync" /\ fastAllowed
  /\ fastAllowed' = FALSE
  /\ UNCHANGED <<fwType, fwMode, posSetpoint, speedSetpoint, control, modes, line,
                 expected, responses, motor, faults>>

(* FWControllerReset, from the debug terminal.                             *)
FWControllerReset ==
  /\ writes < MaxWrites /\ writes' = writes + 1
  /\ ResetAnyTime \/ (line = NoCommand /\ todo = <<>> /\ wheel.goal = Still)
  /\ err' = FALSE /\ reset' = TRUE /\ errorTimer' = FALSE
  /\ UNCHANGED <<fwType, fastAllowed, fwMode, posSetpoint, speedSetpoint, shown,
                 waiting, queue, asked, ctl, modes, line, expected, responses, motor, faults>>

-----------------------------------------------------------------------------
(* What the mode functions have in common.                                 *)

(* The command each sending state gives, and the state that waits for it.  *)
CommandOf(c, s) ==
  CASE s = "stop"     -> [kind |-> "velocity", target |-> 1, notify |-> c.mode = "Position"]
    [] s = "velocity" -> [kind |-> "velocity", target |-> c.requested, notify |-> FALSE]
    [] s = "query"    -> [kind |-> "query", what |-> c.mode]
    [] OTHER          -> [kind |-> s]

AckOf == [stop |-> "stopAck", gain |-> "gainAck", enable |-> "enableAck",
          disable |-> "disableAck", home |-> "homeAck", velocity |-> "velocityAck",
          move |-> "moveAck", query |-> "queryAnswer"]

(* Where the acknowledgement leads.                                        *)
(* Mutant: the initialisation goes the way of a move.                      *)
Bug_AfterAck(c, s) ==
  CASE s = "stopAck"     -> "stopWait"
    [] s = "homeAck"     -> "homeSwitch"
    [] s = "velocityAck" -> "query"
    [] s = "moveAck"     -> "moveWait"
    [] s = "enableAck"   -> "query"
    [] s = "disableAck"  -> "gain"
    [] s = "gainAck"     -> "enable"

AfterAck(c, s) ==
  CASE s = "stopAck"     -> "stopWait"
    [] s = "homeAck"     -> "homeSwitch"
    [] s = "velocityAck" -> "query"
    [] s = "moveAck"     -> "moveWait"
    [] s = "enableAck"   -> IF c.mode = "Init" THEN "home" ELSE "query"
    [] s = "disableAck"  -> IF c.mode = "Init" THEN "gain" ELSE "ready"
    [] s = "gainAck" ->
         CASE c.mode = "Init" -> "enable"
           [] c.mode = "Position" -> IF fwType = "sync" THEN "query" ELSE "enable"
           [] c.mode = "Velocity" ->
                IF c.requested = Fast \/ lastTarget = 0 THEN "velocity" ELSE "ready"

(* Something the state s waits for may still come.                         *)
Coming(s) ==
  \/ line # NoCommand \/ todo # <<>>
  \/ s \in {"homeSwitch", "moveWait", "stopWait"} /\ wheel.goal # Still

(* A wait goes on, or its timer has expired: the error brings the next     *)
(* call to the error mode, whatever state the function goes to.            *)
Wait(s, expired) ==
  IF expired
  THEN /\ err' = TRUE /\ sub' = "failed"
       /\ Coming(s) => faults < MaxFaults
       /\ faults' = IF Coming(s) THEN faults + 1 ELSE faults
  ELSE sub' = s /\ UNCHANGED <<err, faults>>

Send(c, s) == Command(CommandOf(c, s), s, AckOf[s]) /\ UNCHANGED <<responses, err, faults>>

AwaitAck(c, s, expired) ==
  /\ responses' = AfterAcks
  /\ IF AcksLeft = 0 THEN sub' = AfterAck(c, s) /\ UNCHANGED <<err, faults>>
                     ELSE Wait(s, expired)

Go(s) == sub' = s /\ UNCHANGED <<line, expected, responses, err, faults>>

(* An answer to a query is read once no acknowledgement is expected.       *)
Answered == AcksLeft = 0 /\ line = NoCommand /\ AfterAcks # <<>> /\ Head(AfterAcks).kind = "value"

-----------------------------------------------------------------------------
(* FWInitialisationMode.                                                   *)

(* The wheel is stopped when homing fails.                                 *)
StopCommand == [kind |-> "velocity", target |-> 0, notify |-> FALSE]

InitialisationMode(c, changed, expired) ==
  LET s == IF changed THEN "setup" ELSE sub IN
  /\ \/ /\ s = "setup"
        /\ sub' = IF fwType = "sync" /\ wheel.speed # 0 THEN "stop" ELSE "gain"
        /\ ConsumeResponses
        /\ UNCHANGED <<line, err, faults>>
     \/ s \in {"stop", "disable", "gain", "enable", "home"} /\ Send(c, s)
     \/ /\ s \in {"stopAck", "disableAck", "gainAck", "enableAck"}
        /\ AwaitAck(c, s, expired)
        /\ expected' = AcksLeft /\ UNCHANGED line
     \/ /\ s = "stopWait"
        /\ IF wheel.speed \in {0, 1} THEN Go("disable")
           ELSE Wait(s, expired) /\ UNCHANGED <<line, expected, responses>>
     \/ /\ s = "homeAck"
        /\ IF AcksLeft # 0 /\ expired
           THEN /\ responses' = AfterAcks
                /\ line' = IF line = NoCommand THEN StopCommand ELSE line
                /\ expected' = AcksLeft + (IF line = NoCommand THEN 1 ELSE 0)
                /\ Wait(s, expired)
           ELSE /\ AwaitAck(c, s, expired)
                /\ expected' = AcksLeft /\ UNCHANGED line
     \/ /\ s = "homeSwitch"
        /\ responses' = IF Notified THEN Tail(responses) ELSE responses
        /\ IF Notified /\ Head(responses).of = "home"
           THEN sub' = "done" /\ UNCHANGED <<line, expected, err, faults>>
           ELSE /\ Wait(s, expired)
                /\ line' = IF expired /\ line = NoCommand THEN StopCommand ELSE line
                /\ expected' = IF expired /\ line = NoCommand THEN expected + 1 ELSE expected
     \/ s = "done" /\ Go(s)
  /\ ctl' = [c EXCEPT !.ready = s = "done"]
  /\ shown' = Transition
  /\ UNCHANGED <<errorTimer, lastTarget, verifyPos, backlashMode, rawPosition>>

(* FWIdleMode: whatever was queued is replaced by a command for the        *)
(* registers as they are now.                                              *)
ByRegisters == IF fwMode = "Fixed" THEN To(posSetpoint) ELSE At(speedSetpoint)

IdleMode(c) ==
  /\ ConsumeResponses
  /\ ChangeFWControllerMode(fwMode, ByRegisters)
  /\ ctl' = [c EXCEPT !.ready = TRUE]
  /\ shown' = Transition
  /\ UNCHANGED <<errorTimer, modes, line, faults>>

(* FWErrorMode: the errors are cleared, and after 5 s of none the mode is  *)
(* ready.  The timer is only started by an error.  The link is quiet by    *)
(* then: its answers take milliseconds.                                    *)
ErrorMode(c, changed, expired) ==
  LET runs == err \/ (errorTimer /\ ~changed) IN
  /\ expired => line = NoCommand /\ todo = <<>>
  /\ err' = FALSE
  /\ errorTimer' = runs
  /\ ctl' = [c EXCEPT !.ready = runs /\ ~err /\ expired]
  /\ shown' = Transition
  /\ UNCHANGED <<modes, line, expected, responses, faults>>

StartupMode(c) ==
  /\ ConsumeResponses
  /\ ctl' = c
  /\ shown' = Transition
  /\ UNCHANGED <<err, errorTimer, modes, line, faults>>

(* FWVelocityMode.  From slow to fast the gains are changed first, from    *)
(* fast to slow last.                                                      *)
VelocityMode(c, changed, targetChanged, expired) ==
  LET last == IF changed THEN 0 ELSE IF targetChanged THEN ctl.requested ELSE lastTarget
      s == IF changed \/ (targetChanged /\ c.requested = Fast /\ last # Fast) THEN "gain"
           ELSE IF targetChanged THEN "velocity" ELSE sub
      gain == IF c.requested = Fast THEN last # Fast ELSE last \in {Fast, 0}
  IN
  /\ \/ s = "gain" /\ gain /\ Send(c, s)
     \/ s = "gain" /\ ~gain /\ Go("velocity")
     \/ s \in {"velocity", "query"} /\ Send(c, s)
     \/ /\ s \in {"gainAck", "velocityAck"}
        /\ AwaitAck(c, s, expired)
        /\ expected' = AcksLeft /\ UNCHANGED line
     \/ /\ s = "queryAnswer"
        /\ expected' = AcksLeft /\ UNCHANGED line
        /\ IF Answered
           THEN /\ responses' = Tail(AfterAcks)
                /\ sub' = IF Head(AfterAcks).is # c.requested THEN "pause"
                          ELSE IF c.requested = Slow /\ last = Fast THEN "gain" ELSE "ready"
                /\ UNCHANGED <<err, faults>>
           ELSE responses' = AfterAcks /\ Wait(s, expired)
     \/ s = "pause" /\ Go("query")
     \/ s = "ready" /\ Go(s)
  /\ lastTarget' = IF s = "ready" THEN c.requested ELSE last
  /\ ctl' = [c EXCEPT !.ready = s = "ready"]
  /\ shown' = Transition
  /\ UNCHANGED <<errorTimer, verifyPos, backlashMode, rawPosition>>

-----------------------------------------------------------------------------
(* FWPositionMode.                                                         *)

(* FW_CalculateBacklashFreeMove: a fixed wheel goes back beyond the target *)
(* and comes to it forwards.  A synchronous one moves by the difference.   *)
Backlash(c) == fwType = "fixed" /\ c.requested < rawPosition

MoveCommand(c) ==
  [kind |-> "move", relative |-> fwType = "sync",
   to |-> CASE fwType = "sync" -> c.requested - rawPosition
            [] Backlash(c)     -> c.requested - 1
            [] OTHER           -> c.requested]

(* The position is known: a move, a second move, or the end.               *)
(* Mutant: a synchronous wheel that has moved is taken to be there.        *)
Bug_AfterPosition(c, position) ==
  CASE ~verifyPos -> "move"
    [] fwType = "fixed" /\ backlashMode -> "move"
    [] OTHER -> "moveDone"

AfterPosition(c, position) ==
  CASE ~verifyPos -> "move"
    [] fwType = "sync" /\ position # c.requested -> "move"
    [] fwType = "fixed" /\ backlashMode -> "move"
    [] OTHER -> "moveDone"

(* FWPosition, by FW_getFilterIndex.                                       *)
(* Mutant: the last position read is shown while the wheel moves.          *)
Bug_FWPosition(s) == IF rawPosition \in Filters THEN rawPosition ELSE Transition

FWPosition(s) == IF s = "ready" /\ rawPosition \in Filters THEN rawPosition ELSE Transition

PositionMode(c, changed, targetChanged, expired) ==
  LET again == targetChanged /\ sub = "ready"
      s == CASE changed -> IF wheel.speed # 0 THEN "stop" ELSE "gain"
             [] again /\ ~changed -> IF fwType = "sync" THEN "query" ELSE "enable"
             [] OTHER -> sub
      toQuery == sub' = "query" /\ s \in {"gainAck", "enableAck"}
  IN
  /\ \/ /\ s \in {"stop", "gain", "enable", "query", "disable"} /\ Send(c, s)
        /\ UNCHANGED <<backlashMode, rawPosition>>
     \/ /\ s \in {"stopAck", "gainAck", "enableAck", "moveAck", "disableAck"}
        /\ AwaitAck(c, s, expired)
        /\ expected' = AcksLeft /\ UNCHANGED <<line, backlashMode, rawPosition>>
     \/ /\ s \in {"stopWait", "moveWait"}
        /\ responses' = IF Notified THEN Tail(responses) ELSE responses
        /\ IF Notified /\ Head(responses).of = (IF s = "stopWait" THEN "velocity" ELSE "move")
           THEN /\ sub' = IF s = "stopWait" THEN "gain" ELSE "query"
                /\ UNCHANGED <<err, faults>>
           ELSE Wait(s, expired)
        /\ UNCHANGED <<line, expected, backlashMode, rawPosition>>
     \/ /\ s = "moveWait" /\ fwType = "sync" /\ ~expired    \* FW_moveTimer runs
        /\ Go(s) /\ UNCHANGED <<backlashMode, rawPosition>>
     \/ /\ s = "queryAnswer"
        /\ expected' = AcksLeft /\ UNCHANGED line
        /\ IF Answered
           THEN LET position == IF fwType = "sync" THEN wheel.at ELSE Head(AfterAcks).is IN
                /\ responses' = Tail(AfterAcks)
                /\ rawPosition' = position
                /\ sub' = AfterPosition(c, position)
                /\ backlashMode' = (backlashMode /\ ~verifyPos)
                /\ UNCHANGED <<err, faults>>
           ELSE /\ responses' = AfterAcks /\ Wait(s, expired)
                /\ UNCHANGED <<backlashMode, rawPosition>>
     \/ /\ s = "move"
        /\ Command(MoveCommand(c), s, "moveAck")
        /\ backlashMode' = IF fwType = "fixed" THEN Backlash(c) ELSE backlashMode
        /\ UNCHANGED <<responses, rawPosition, err, faults>>
     \/ /\ s = "moveDone"
        /\ Go(IF fwType = "sync" THEN "ready" ELSE "disable")
        /\ UNCHANGED <<backlashMode, rawPosition>>
     \/ /\ s = "ready"
        /\ sub' = s /\ ConsumeResponses
        /\ UNCHANGED <<line, err, faults, backlashMode, rawPosition>>
  /\ verifyPos' = CASE s = "moveWait" /\ sub' = "query" -> TRUE
                    [] toQuery \/ (again /\ fwType = "sync") -> FALSE
                    [] OTHER -> verifyPos
  /\ ctl' = [c EXCEPT !.ready = s = "ready"]
  /\ shown' = FWPosition(s)
  /\ UNCHANGED <<errorTimer, lastTarget>>

-----------------------------------------------------------------------------
(* FW_ControllerProcess.                                                   *)

(* The statics a reset gives new values.                                   *)
Fresh(c) == [c EXCEPT !.mode = "Startup", !.last = "Startup", !.available = FALSE,
                      !.ready = FALSE, !.newTarget = posSetpoint]

(* A command is taken from the queue when the mode is ready.               *)
Taken(c, q) == q # NoCommand /\ ~c.available /\ c.ready

AfterQueue(c, q) ==
  IF Taken(c, q)
  THEN [c EXCEPT !.newMode = q.mode, !.newTarget = q.target, !.available = TRUE]
  ELSE c

(* The mode of the command is the current one: only the target changes.    *)
SameMode(c) ==
  c.mode \in {"Velocity", "Position"} /\ c.ready /\ c.available /\ c.newMode = c.mode

Switched(c) ==
  CASE c.mode = "Startup" -> [c EXCEPT !.mode = "Init"]
    [] c.mode = "Init" /\ c.ready -> [c EXCEPT !.mode = "Idle"]
    [] c.mode = "Idle" /\ c.ready /\ c.available ->
         [c EXCEPT !.available = FALSE, !.requested = c.newTarget, !.mode = c.newMode]
    [] SameMode(c) -> [c EXCEPT !.available = FALSE, !.requested = c.newTarget]
    [] c.mode \in {"Velocity", "Position"} /\ c.ready /\ c.available /\ c.newMode # c.mode ->
         [c EXCEPT !.mode = "Idle"]
    [] c.mode = "Error" /\ c.ready -> [c EXCEPT !.mode = "Startup"]
    [] OTHER -> c

InError(c) == IF err THEN [c EXCEPT !.mode = "Error"] ELSE c

FW_ControllerProcess(expired) ==
  LET c0 == IF reset THEN Fresh(ctl) ELSE ctl
      q0 == IF reset THEN NoCommand ELSE queue
      c1 == AfterQueue(c0, q0)
      c2 == InError(Switched(c1))
      q1 == IF Taken(c0, q0) THEN NoCommand ELSE q0
      changed == c2.mode # c2.last
      newTarget == SameMode(c1) /\ c1.newTarget # c1.requested
      c == [c2 EXCEPT !.last = c2.mode]
  IN
  /\ reset' = FALSE
  /\ waiting' = ~(q0 = NoCommand /\ c0.ready)
  /\ c.mode # "Idle" => queue' = q1 /\ asked' = asked
  /\ \/ c.mode = "Startup" /\ StartupMode(c)
     \/ c.mode = "Init" /\ InitialisationMode(c, changed, expired)
     \/ c.mode = "Idle" /\ IdleMode(c)
     \/ c.mode = "Velocity" /\ VelocityMode(c, changed, newTarget, expired)
     \/ c.mode = "Position" /\ PositionMode(c, changed, newTarget, expired)
     \/ c.mode = "Error" /\ ErrorMode(c, changed, expired)
  /\ UNCHANGED <<host, motor>>

-----------------------------------------------------------------------------
(* The link and the motor controller (external).                           *)

(* The last byte is sent: the transmit interrupt ends txBusy.              *)
Sent ==
  /\ line # NoCommand
  /\ todo' = Append(todo, line)
  /\ line' = NoCommand
  /\ UNCHANGED <<host, control, modes, expected, responses, wheel, faults>>

(* What a command does to the wheel.                                       *)
After(cmd, w) ==
  CASE cmd.kind = "enable"   -> [w EXCEPT !.enabled = TRUE]
    [] cmd.kind = "disable"  -> [w EXCEPT !.enabled = FALSE, !.goal = Still]
    [] cmd.kind = "velocity" /\ w.enabled -> [w EXCEPT !.goal = cmd]
    [] cmd.kind = "home" /\ w.enabled -> [w EXCEPT !.goal = cmd, !.homed = FALSE, !.at = Elsewhere]
    [] cmd.kind = "move" /\ w.enabled ->
         [w EXCEPT !.goal = [kind |-> "move", to |-> IF cmd.relative THEN w.at + cmd.to ELSE cmd.to],
                   !.at = Elsewhere]
    [] OTHER -> w

Reply(cmd) ==
  IF cmd.kind = "query"
  THEN [kind |-> "value", what |-> cmd.what,
        is |-> IF cmd.what = "Velocity" THEN wheel.speed ELSE wheel.at]
  ELSE [kind |-> "ack"]

(* The motor answers in the order of the commands; a command or its answer *)
(* may be lost.                                                            *)
Answer ==
  /\ todo # <<>>
  /\ todo' = Tail(todo)
  /\ \/ /\ wheel' = After(Head(todo), wheel)
        /\ responses' = Append(responses, Reply(Head(todo)))
        /\ UNCHANGED faults
     \/ /\ faults < MaxFaults /\ faults' = faults + 1
        /\ wheel' \in {wheel, After(Head(todo), wheel)}
        /\ UNCHANGED responses
  /\ UNCHANGED <<host, control, modes, line, expected>>

(* The wheel gets where it goes.  A synchronous one may miss its place; a  *)
(* wheel that has not been homed does not know where it is.                *)
Arrived(w) ==
  CASE w.goal.kind = "velocity" ->
         {[w EXCEPT !.goal = Still, !.speed = w.goal.target, !.at = Elsewhere]}
    [] w.goal.kind = "home" ->
         {[w EXCEPT !.goal = Still, !.speed = 0, !.at = Home, !.homed = TRUE]}
    [] w.goal.kind = "move" ->
         {[w EXCEPT !.goal = Still, !.speed = 0, !.at = p] :
            p \in {IF w.homed THEN w.goal.to ELSE Elsewhere}}

Arrive ==
  /\ wheel.goal # Still
  /\ wheel' \in Arrived(wheel)
  /\ LET notice == IF wheel.goal.kind = "velocity" /\ ~wheel.goal.notify THEN <<>>
                   ELSE <<[kind |-> "notify", of |-> wheel.goal.kind]>>
     IN \/ responses' = responses \o notice /\ UNCHANGED faults
        \/ /\ notice # <<>> /\ faults < MaxFaults /\ faults' = faults + 1
           /\ UNCHANGED responses
  /\ UNCHANGED <<host, control, modes, line, expected, todo>>

(* A move of the synchronous wheel ends beside its target.                 *)
Misses ==
  /\ fwType = "sync" /\ wheel.goal.kind = "move"
  /\ faults < MaxFaults /\ faults' = faults + 1
  /\ wheel' = [wheel EXCEPT !.goal = Still, !.speed = 0, !.at = Home]
  /\ responses' = Append(responses, [kind |-> "notify", of |-> "move"])
  /\ UNCHANGED <<host, control, modes, line, expected, todo>>

-----------------------------------------------------------------------------

Init ==
  /\ fwType \in WheelTypes /\ fastAllowed = TRUE
  /\ fwMode = "Fixed" /\ posSetpoint = 0 /\ speedSetpoint = 0
  /\ shown = Transition /\ waiting = TRUE
  /\ queue = NoCommand /\ asked = To(posSetpoint)
  /\ ctl = [mode |-> "Startup", last |-> "Startup", available |-> FALSE,
            newMode |-> "Position", newTarget |-> posSetpoint,
            requested |-> posSetpoint, ready |-> FALSE]
  /\ reset = FALSE /\ err = FALSE /\ errorTimer = FALSE
  /\ sub = "setup" /\ lastTarget = 0 /\ verifyPos = FALSE
  /\ backlashMode = FALSE /\ rawPosition = Elsewhere
  /\ line = NoCommand /\ expected = 0 /\ responses = <<>> /\ todo = <<>>
  /\ \E v \in {0, Slow} :
       /\ v = Slow => fwType = "sync"
       /\ wheel = [at |-> Elsewhere, homed |-> FALSE, enabled |-> v = Slow,
                   speed |-> v, goal |-> Still]
  /\ writes = 0 /\ faults = 0

Host ==
  \/ \E f \in Filters : HostPosition(f) \/ HostFixed(f)
  \/ \E p \in RawPositions : HostRawPosition(p)
  \/ \E v \in Speeds : HostRotating(v)
  \/ HostLowersMaximum \/ FWControllerReset

Motor == Sent \/ Answer \/ Arrive \/ Misses

Next == Host \/ Motor \/ \E expired \in BOOLEAN : FW_ControllerProcess(expired)

Spec == Init /\ [][Next]_vars

(* The main loop keeps calling, the timers run out, the motor answers and  *)
(* moves; nothing makes the host write or the link fail.                   *)
TimeIsUp == ~Coming(sub) /\ FW_ControllerProcess(TRUE)

Fairness ==
  /\ WF_vars(FW_ControllerProcess(FALSE)) /\ WF_vars(TimeIsUp)
  /\ WF_vars(Sent) /\ WF_vars(Answer) /\ WF_vars(Arrive)

FairSpec == Spec /\ Fairness

-----------------------------------------------------------------------------
(* The states of initMode, velMode and posMode; after an error any.        *)
SubOf(mode) ==
  CASE mode = "Init" ->
         {"setup", "stop", "stopAck", "stopWait", "disable", "disableAck", "gain", "gainAck",
          "enable", "enableAck", "home", "homeAck", "homeSwitch", "done"}
    [] mode = "Velocity" ->
         {"gain", "gainAck", "velocity", "velocityAck", "query", "queryAnswer", "pause", "ready"}
    [] mode = "Position" ->
         {"stop", "stopAck", "stopWait", "gain", "gainAck", "enable", "enableAck", "query",
          "queryAnswer", "move", "moveAck", "moveWait", "moveDone", "disable", "disableAck",
          "ready"}
    [] OTHER -> {sub}

Commands ==
  [kind : {"gain", "enable", "disable", "home"}]
    \cup [kind : {"velocity"}, target : Int, notify : BOOLEAN]
    \cup [kind : {"move"}, relative : BOOLEAN, to : Int]
    \cup [kind : {"query"}, what : {"Velocity", "Position"}]

Responses ==
  [kind : {"ack"}] \cup [kind : {"notify"}, of : {"velocity", "home", "move"}]
    \cup [kind : {"value"}, what : {"Velocity", "Position"}, is : Int]

Goals ==
  {Still, [kind |-> "home"]} \cup [kind : {"move"}, to : Int]
    \cup [kind : {"velocity"}, target : Int, notify : BOOLEAN]

WheelType == [at : Int, homed : BOOLEAN, enabled : BOOLEAN, speed : Int, goal : Goals]

LinkTypeOK ==
  /\ line \in Commands \cup {NoCommand} /\ todo \in Seq(Commands)
  /\ expected \in Nat /\ responses \in Seq(Responses) /\ wheel \in WheelType

(* Types: each mode is in a state of its own machine, or has failed.       *)
TypeOK ==
  /\ fwType \in WheelTypes /\ fastAllowed \in BOOLEAN
  /\ fwMode \in {"Fixed", "Rotating"}
  /\ posSetpoint \in Filters
  /\ speedSetpoint \in Speeds \cup (IF fwMode = "Fixed" THEN {0} ELSE {})
  /\ shown \in Filters \cup {Transition} /\ waiting \in BOOLEAN
  /\ queue \in Queueable \cup {NoCommand}
  /\ asked \in [mode : {"Velocity", "Position"}, target : Targets, raw : BOOLEAN]
  /\ ctl \in [mode : Modes, last : Modes, available : BOOLEAN,
              newMode : {"Velocity", "Position", "Error"},
              newTarget : Targets, requested : Targets, ready : BOOLEAN]
  /\ reset \in BOOLEAN /\ err \in BOOLEAN /\ errorTimer \in BOOLEAN
  /\ sub \in SubOf(ctl.mode) \/ (sub = "failed" /\ (err \/ reset))
  /\ lastTarget \in Speeds \cup {0}
  /\ verifyPos \in BOOLEAN /\ backlashMode \in BOOLEAN
  /\ rawPosition \in Int
  /\ LinkTypeOK

WheelAtRest == wheel.goal = Still /\ wheel.speed = 0

(* Where the last command accepted wants the wheel.                        *)
AsAsked ==
  IF asked.mode = "Position" THEN wheel.at = asked.target /\ WheelAtRest
                             ELSE wheel.speed = asked.target

(* Once a mode is ready and the status bit lets acquisitions start, the    *)
(* wheel is where the last command wanted it, and unless FWPositionRaw-    *)
(* Setpoint gave it that is where the registers want it: no command was    *)
(* lost on the way, and no late answer was taken for another.              *)
ClearMeansAsAsked ==
  (~waiting /\ queue = NoCommand /\ ctl.mode \in {"Velocity", "Position"}) =>
     AsAsked /\ (asked.raw \/ asked = ByRegisters)

(* FWPosition, which goes into the header of every image, names a filter   *)
(* only while that filter is in front of the detector.                     *)
ShownIsThere == shown \in Filters => wheel.at = shown /\ WheelAtRest

(* When the host stops writing, the wheel ends up as it asked, with the    *)
(* acquisitions allowed, whatever the link lost, unless the maximum speed  *)
(* has been lowered below the speed the wheel was to turn at.              *)
Overspeed == fwMode = "Rotating" /\ TooFast(At(speedSetpoint))
Settles == []~Overspeed => <>[](~waiting /\ AsAsked)

(* The error mode is left: "basic error mode : retry after 5 sec".         *)
ErrorEnds == ctl.mode = "Error" ~> ctl.mode # "Error"

-----------------------------------------------------------------------------
(* The inductive invariant: what each state of each mode relies on.        *)

Ack == [kind |-> "ack"]
Notice(k) == [kind |-> "notify", of |-> k]
Notices == \A i \in 1..Len(responses) : responses[i].kind = "notify"
OneAck ==
  \E k \in 1..Len(responses) :
    /\ responses[k] = Ack
    /\ \A i \in 1..Len(responses) : i # k => responses[i].kind = "notify"

(* Nothing is on the link.                                                 *)
Quiet == line = NoCommand /\ todo = <<>>
Free == Quiet /\ expected = 0 /\ Notices
Clear == Quiet /\ expected = 0 /\ responses = <<>>

(* The one command given is on its way, it or its answer is lost, or it is *)
(* answered.                                                               *)
Pending(cmd, before, after) ==
  /\ expected = IF cmd.kind = "query" THEN 0 ELSE 1
  /\ \/ line = cmd /\ todo = <<>> /\ before
     \/ line = NoCommand /\ todo = <<cmd>> /\ before
     \/ Quiet /\ Notices
     \/ Quiet /\ after

StopFirst == [kind |-> "velocity", target |-> 1, notify |-> FALSE]
AtHome == wheel.homed /\ WheelAtRest /\ wheel.at = Home

(* The wheel keeps its speed.                                              *)
Coasting ==
  \/ wheel.goal = Still
  \/ /\ wheel.speed # 0
     /\ wheel.goal = [kind |-> "velocity", target |-> wheel.speed, notify |-> FALSE]

(* Startup and error: no command of an earlier mode is still on the link.  *)
RecoveryInv ==
  /\ ctl.last = ctl.mode
  /\ reset => Quiet
  /\ ctl.mode = "Startup" => Quiet
  /\ ctl.mode = "Error" /\ ctl.ready => Quiet

InitInv ==
  ctl.mode = "Init" =>
    /\ sub = "setup" => Quiet
    /\ sub \in {"stop", "stopWait", "disable", "gain", "enable", "home"} => Free
    /\ sub = "stopAck" => Pending(StopFirst, Notices, OneAck)
    /\ sub = "disableAck" => Pending([kind |-> "disable"], Notices, OneAck)
    /\ sub = "gainAck" => Pending([kind |-> "gain"], Notices, OneAck)
    /\ sub = "enableAck" => Pending([kind |-> "enable"], Notices, OneAck /\ wheel.enabled)
    /\ sub = "home" => wheel.enabled
    /\ sub = "homeAck" =>
         Pending([kind |-> "home"], Notices /\ wheel.enabled,
                 /\ OneAck
                 /\ AtHome \/ (wheel.goal.kind = "home" /\ responses[Len(responses)] = Ack))
    /\ sub = "homeSwitch" =>
         Free /\ (AtHome \/ (wheel.goal.kind = "home" /\ responses = <<>>))
    /\ sub = "done" => Free /\ AtHome
    /\ ctl.ready => sub = "done"

IdleInv ==
  ctl.mode = "Idle" => Clear /\ Coasting /\ wheel.homed /\ queue # NoCommand

Turn == [kind |-> "velocity", target |-> ctl.requested, notify |-> FALSE]

(* The wheel turns as requested or has been told to, or keeps its speed.   *)
Steering == wheel.goal = Turn \/ Coasting

(* The gain comes after the speed when the wheel slows down.               *)
Late == ctl.requested = Slow /\ lastTarget # 0 => wheel.speed = Slow

VelocityInv ==
  ctl.mode = "Velocity" /\ sub # "failed" =>
    /\ wheel.homed /\ ctl.requested \in Speeds
    /\ sub = "gain" => Clear /\ Coasting /\ Late
    /\ sub = "gainAck" =>
         Pending([kind |-> "gain"], responses = <<>> /\ Coasting /\ Late,
                 responses = <<Ack>> /\ Coasting /\ Late)
    /\ sub = "velocity" => Clear /\ Coasting
    /\ sub = "velocityAck" =>
         Pending(Turn, responses = <<>> /\ Coasting,
                 responses = <<Ack>> /\ Steering)
    /\ sub \in {"query", "pause"} => Clear /\ Steering
    /\ sub = "queryAnswer" =>
         Pending([kind |-> "query", what |-> "Velocity"], responses = <<>> /\ Steering,
                 /\ Len(responses) = 1 /\ responses[1].kind = "value"
                 /\ responses[1].what = "Velocity"
                 /\ responses[1].is = ctl.requested => wheel.speed = ctl.requested
                 /\ Steering)
    /\ sub = "ready" => Clear /\ Coasting /\ wheel.speed = ctl.requested
    /\ ctl.ready => sub = "ready"

(* Where a move of a fixed wheel ends.                                     *)
Aim == IF backlashMode THEN ctl.requested - 1 ELSE ctl.requested
There == wheel.speed = 0 /\ (fwType = "fixed" => wheel.at = Aim)
AtTarget ==
  WheelAtRest /\ wheel.at = ctl.requested /\ rawPosition = ctl.requested

StopMove == [kind |-> "velocity", target |-> 1, notify |-> TRUE]
Move == [kind |-> "move", relative |-> fwType = "sync",
         to |-> IF fwType = "sync" THEN ctl.requested - rawPosition ELSE Aim]
Moving == wheel.goal.kind = "move" /\ (fwType = "fixed" => wheel.goal.to = Aim)

PositionInv ==
  ctl.mode = "Position" /\ sub # "failed" =>
    /\ wheel.homed
    /\ sub = "stop" => Clear /\ Coasting
    /\ sub = "stopAck" =>
         Pending(StopMove, responses = <<>> /\ Coasting,
                 \/ responses = <<Ack>> /\ (wheel.goal = StopMove \/ Coasting)
                 \/ responses = <<Ack, Notice("velocity")>> /\ wheel.goal = Still)
    /\ sub = "stopWait" =>
         /\ Quiet /\ expected = 0
         /\ \/ responses = <<>> /\ (wheel.goal = StopMove \/ Coasting)
            \/ responses = <<Notice("velocity")>> /\ wheel.goal = Still
    /\ sub \in {"gain", "enable", "move"} => Clear /\ wheel.goal = Still
    /\ sub = "gainAck" =>
         Pending([kind |-> "gain"], responses = <<>> /\ wheel.goal = Still,
                 responses = <<Ack>> /\ wheel.goal = Still)
    /\ sub = "enableAck" =>
         Pending([kind |-> "enable"], responses = <<>> /\ wheel.goal = Still,
                 responses = <<Ack>> /\ wheel.goal = Still)
    /\ sub = "query" => Clear /\ wheel.goal = Still /\ (verifyPos => There)
    /\ sub = "queryAnswer" =>
         /\ wheel.goal = Still /\ (verifyPos => There)
         /\ Pending([kind |-> "query", what |-> "Position"], responses = <<>>,
                    responses = <<[kind |-> "value", what |-> "Position", is |-> wheel.at]>>)
    /\ sub = "moveAck" =>
         Pending(Move, responses = <<>> /\ wheel.goal = Still,
                 \/ responses = <<Ack>> /\ (wheel.goal = Still \/ Moving)
                 \/ responses = <<Ack, Notice("move")>> /\ wheel.goal = Still /\ There)
    /\ sub = "moveWait" =>
         /\ Quiet /\ expected = 0
         /\ \/ responses = <<>> /\ (wheel.goal = Still \/ Moving)
            \/ responses = <<Notice("move")>> /\ wheel.goal = Still /\ There
    /\ sub \in {"moveDone", "disable", "ready"} => Clear /\ AtTarget
    /\ sub = "disableAck" =>
         /\ AtTarget
         /\ Pending([kind |-> "disable"], responses = <<>>, responses = <<Ack>>)
    /\ ctl.ready => sub = "ready"

(* What is queued, taken or carried out is the last command accepted,      *)
(* which suits FWMode and, unless it is a raw position, the registers.     *)
QueueInv ==
  /\ asked.mode = IF fwMode = "Fixed" THEN "Position" ELSE "Velocity"
  /\ asked.mode = "Velocity" => asked.target \in Speeds
  /\ ~asked.raw => asked = ByRegisters
  /\ queue # NoCommand =>
       /\ queue.mode = asked.mode \/ (queue.mode = "Error" /\ asked.mode = "Velocity")
       /\ queue.target = asked.target
  /\ ctl.available /\ ctl.newMode = "Velocity" => ctl.newTarget \in Speeds
  /\ ctl.mode \in {"Velocity", "Position"} =>
       /\ ~ctl.available
       /\ queue = NoCommand => ctl.mode = asked.mode /\ ctl.requested = asked.target
       /\ ~waiting => sub = "ready"

(* A position is only shown by the position mode when it is ready.         *)
ShownInv ==
  shown \in Filters => ctl.mode = "Position" /\ sub = "ready" /\ shown = rawPosition

IInv ==
  /\ TypeOK /\ RecoveryInv /\ InitInv /\ IdleInv /\ VelocityInv /\ PositionInv
  /\ QueueInv /\ ShownInv

=============================================================================
