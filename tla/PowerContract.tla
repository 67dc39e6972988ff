--------------------------- MODULE PowerContract ---------------------------
(***************************************************************************)
(* What the camera promises a client of its DevicePowerState register: the *)
(* state goes from Standby to On and back only through InTransition, the   *)
(* detector electronics and the cooler are switched only during a          *)
(* transition, a transition ends in On only with both of them on, and in   *)
(* Standby only with both of them off.  A request to power on may fail     *)
(* and end in Standby; a request for standby always ends in Standby.       *)
(***************************************************************************)

VARIABLES
  state,       \* "Standby", "InTransition" or "On"
  target,      \* where the transition leads; equal to state outside one
  energised    \* which of "cooler" and "adc" are switched on

vars == <<state, target, energised>>

Channels == {"cooler", "adc"}

TypeOK ==
  /\ state \in {"Standby", "InTransition", "On"}
  /\ target \in {"Standby", "On"}
  /\ energised \subseteq Channels

Init == state = "Standby" /\ target = "Standby" /\ energised = {}

Begin ==
  /\ state # "InTransition"
  /\ state' = "InTransition"
  /\ target' \in {"Standby", "On"} \ {state}
  /\ UNCHANGED energised

(* Powering on switches one channel at a time; any transition may cut      *)
(* both.                                                                   *)
Switch ==
  /\ state = "InTransition"
  /\ \/ /\ target = "On"
        /\ \E c \in Channels : energised' = energised \cup {c}
     \/ energised' = {}
  /\ UNCHANGED <<state, target>>

GiveUp ==
  /\ state = "InTransition" /\ target = "On" /\ energised = {}
  /\ target' = "Standby"
  /\ UNCHANGED <<state, energised>>

Finish ==
  /\ state = "InTransition"
  /\ energised = IF target = "On" THEN Channels ELSE {}
  /\ state' = target
  /\ UNCHANGED <<target, energised>>

Next == Begin \/ Switch \/ GiveUp \/ Finish

Spec == Init /\ [][Next]_vars
=============================================================================
