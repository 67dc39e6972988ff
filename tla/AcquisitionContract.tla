------------------------ MODULE AcquisitionContract ------------------------
(***************************************************************************)
(* What the acquisition machine promises those who command it through the  *)
(* registers AcquisitionStart and AcquisitionStop, which the host, the     *)
(* power manager and the image correction process all write.  A start is   *)
(* obeyed once, or refused, and never against a pending stop; a stop given *)
(* to a detector that is armed or acquiring stays pending until it no      *)
(* longer is; images are reported exactly from the first call of an        *)
(* acquisition to the first one after its end.                             *)
(***************************************************************************)

VARIABLES
  run,        \* "off", "armed", "on", or "paused" by a change of frame rate
  start,      \* a start command is pending
  stop,       \* a stop command is pending
  reported    \* the status bit AcquisitionStarted

vars == <<run, start, stop, reported>>

TypeOK ==
  /\ run \in {"off", "armed", "on", "paused"}
  /\ start \in BOOLEAN /\ stop \in BOOLEAN /\ reported \in BOOLEAN

Init == run = "off" /\ ~start /\ ~stop /\ ~reported

(* Whoever gives a command, none takes one back.                           *)
Ask ==
  /\ start => start'
  /\ stop => stop'
  /\ UNCHANGED <<run, reported>>

(* A stop given to a machine that is off is dropped.                       *)
Drop ==
  /\ run = "off"
  /\ start' => start
  /\ ~stop' \/ UNCHANGED stop
  /\ ~reported' \/ UNCHANGED reported
  /\ UNCHANGED run

Arm ==
  /\ run = "off" /\ run' = "armed"
  /\ ~stop' /\ ~reported'
  /\ UNCHANGED start

Refuse ==
  /\ run = "armed"
  /\ ~start'
  /\ UNCHANGED <<run, stop, reported>>

Disarm ==
  /\ run = "armed" /\ run' = "off"
  /\ ~start'
  /\ UNCHANGED reported

Begin ==
  /\ run = "armed" /\ run' = "on"
  /\ start /\ ~start' /\ ~stop
  /\ UNCHANGED <<stop, reported>>

Report ==
  /\ run = "on" /\ ~stop
  /\ reported'
  /\ run' \in {"on", "paused"}
  /\ UNCHANGED <<start, stop>>

Resume ==
  /\ run = "paused" /\ run' = "on" /\ ~stop
  /\ UNCHANGED <<start, stop, reported>>

Halt ==
  /\ run \in {"on", "paused"} /\ run' = "off"
  /\ UNCHANGED <<start, reported>>

Next == Ask \/ Drop \/ Arm \/ Refuse \/ Disarm \/ Begin \/ Report \/ Resume \/ Halt

Spec == Init /\ [][Next]_vars
=============================================================================
