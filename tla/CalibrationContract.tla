------------------------ MODULE CalibrationContract ------------------------
(***************************************************************************)
(* What the calibration manager promises the modules that ask it for a     *)
(* calibration: a request is taken only when none is pending or under way, *)
(* and no later one replaces it; the calibration in service stays until    *)
(* the load begins, nothing is in service while it lasts, and it ends with *)
(* the calibration that was asked for or with none.  Files that disappear  *)
(* may take away the one in service, or make the load end with none.       *)
(***************************************************************************)
CONSTANTS Calibrations, None

VARIABLES
  phase,    \* "free", "pending" or "loading"
  asked,    \* the calibration the load is for, or None
  served    \* the calibration in service, or None

vars == <<phase, asked, served>>

TypeOK ==
  /\ phase \in {"free", "pending", "loading"}
  /\ asked \in Calibrations \cup {None}
  /\ served \in Calibrations \cup {None}

Init ==
  /\ phase = "free" /\ asked = None
  /\ served \in Calibrations \cup {None}

Ask ==
  /\ phase = "free"
  /\ phase' = "pending" /\ asked' \in Calibrations
  /\ UNCHANGED served

Begin ==
  /\ phase = "pending"
  /\ phase' = "loading" /\ served' = None
  /\ asked' \in {asked, None}

Finish ==
  /\ phase = "loading"
  /\ phase' = "free" /\ served' = asked
  /\ asked' = None

Fail ==
  /\ phase = "loading"
  /\ phase' = "free" /\ served' = None
  /\ asked' = None

Lose ==
  /\ asked' \in {asked, None} /\ served' \in {served, None}
  /\ UNCHANGED phase

Next == Ask \/ Begin \/ Finish \/ Fail \/ Lose

Spec == Init /\ [][Next]_vars
=============================================================================
