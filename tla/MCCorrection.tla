---------------------------- MODULE MCCorrection ----------------------------
(***************************************************************************)
(* The instances of ImageCorrection TLC checks.                            *)
(***************************************************************************)
EXTENDS ImageCorrection

CONSTANTS b1, b2

OneBlock == {<<b1>>}
OneCollection == {<<b1, b2>>}
=============================================================================
