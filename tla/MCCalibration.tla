---------------------------- MODULE MCCalibration ----------------------------
(***************************************************************************)
(* Small file systems for CalibrationManager.                              *)
(***************************************************************************)
EXTENDS CalibrationManager, TLC

CONSTANTS c1, c2, c3, b1, b2

(* Two collections that share a block, and both blocks.                    *)
TwoBlocks == c1 :> <<b1, b2>> @@ c2 :> <<b1>>
TwoCollections == <<c1, c2, b1, b2>>

(* A third collection, and the second block, are not on the flash yet.     *)
ThreeCollections == c3 :> <<b1>> @@ TwoBlocks
TwoOfThree == <<c1, c2, b1>>
=============================================================================
