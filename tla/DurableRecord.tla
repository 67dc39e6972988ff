--------------------------- MODULE DurableRecord ---------------------------
(***************************************************************************)
(* What the flash dynamic values (sw/FlashDynamicValues.c) promise to the  *)
(* rest of the firmware: counters that survive a power cut.  The record on *)
(* the flash may be anywhere between the last value whose update reported  *)
(* success and the latest value in memory, and never outside; the promise  *)
(* ends with the first lapse of the flash.                                 *)
(***************************************************************************)
EXTENDS Integers

VARIABLES
  durable,   \* what a boot would load
  latest,    \* the value in memory
  acked,     \* the last value whose update reported success
  lapse      \* the flash failed in a way nothing is promised for

vars == <<durable, latest, acked, lapse>>

(* FlashDynamicValues_Update is called with a counter incremented ...      *)
Count ==
  /\ latest' = latest + 1
  /\ UNCHANGED <<durable, acked, lapse>>

(* ... works on the flash ...                                              *)
Settle ==
  /\ durable' \in acked..latest
  /\ UNCHANGED <<latest, acked, lapse>>

(* ... and reports success.                                                *)
Acknowledge ==
  /\ durable' = latest
  /\ acked' = latest
  /\ UNCHANGED <<latest, lapse>>

(* The power is cut; the boot may drop what was never reported saved.      *)
PowerCut ==
  /\ durable' \in acked..durable
  /\ latest' = durable'
  /\ UNCHANGED <<acked, lapse>>

Load ==
  /\ latest' \in acked..durable
  /\ UNCHANGED <<durable, acked, lapse>>

Lapse == lapse' = TRUE

Init == durable = 0 /\ latest = 0 /\ acked = 0 /\ lapse = FALSE
Next == Count \/ Settle \/ Acknowledge \/ PowerCut \/ Load \/ Lapse
Spec == Init /\ [][Next]_vars
=============================================================================
