---------------------- MODULE ImageCorrectionSoundness ----------------------
(***************************************************************************)
(* For every camera, every mode and every number of blocks: the collection *)
(* the host asked for is served again after a correction, with every       *)
(* correction that suits it, and a correction that may be applied was      *)
(* computed from what it should be (Actualization.c, Calibration.c).       *)
(***************************************************************************)
EXTENDS ImageCorrectionProofs

(* The calibrations of a camera whose files are read in time.              *)
LoadsInTime == Undisturbed /\ {"slowLoad", "heldLoad"} \cap Faults = {}

Serving == Values /\ Acquiring
Calibrated == CollectionKept /\ AppliedSoFar

(* What is read next of a calibration.                                     *)
LEMMA ReadFurther ==
  ASSUME NEW f \in Seq(AllBlocks), NEW b
  PROVE  BlocksIn(Append(f, b)) = BlocksIn(f) \cup {b}
<1> DEFINE g == Append(f, b)
<1>1. /\ DOMAIN g = DOMAIN f \cup {Len(f) + 1} /\ g[Len(f) + 1] = b
      /\ \A i \in DOMAIN f : g[i] = f[i]
  OBVIOUS
<1> HIDE DEF g
<1> QED
  BY <1>1 DEF BlocksIn, g

LEMMA NullIsNoFile ==
  Null \notin Calibrations /\ Null \notin Collections /\ <<>> \notin Collections
BY CorrectionAssumption

LEMMA SuitableKept ==
  ASSUME UNCHANGED db
  PROVE  \A b : Suitable(b)' = Suitable(b)
BY DEF Suitable, LastOf

LEMMA CommandKeepsCalibrated ==
  ASSUME LoadsInTime, Serving, Calibrated, Command
  PROVE  Calibrated'
<1> USE DEF Calibrated, CollectionKept, Serving, Acquiring, Restoring, LockedOut,
            process, calibration, deltas
<1>1. UNCHANGED <<turn, error, state, saved, allowUpdate, db, calib, data>> /\ turn = "calibration"
  BY DEF Command, Disturbance, DebugStop, HostMovesICU, PowerOff, HostCorrect, HostLoad,
         HostStart, HostStop, HostWrite, IcuArrives, PowerOn
<1>2. ~DebugStop /\ ~PowerOff /\ ~PowerOn
  BY DEF LoadsInTime, Undisturbed, DebugStop, PowerOff, PowerOn, CommandsServed
<1>3. waiting => waiting'
  BY <1>2 DEF Command, Disturbance, HostMovesICU, HostCorrect, HostLoad, HostStart, HostStop,
              HostWrite, IcuArrives
<1>4. CASE HostLoad
  <2>1. load' # Null /\ load' = wanted' /\ load = Null /\ ~waiting
    BY <1>4, NullIsNoFile DEF HostLoad
  <2> QED
    BY <1>1, <1>3, <2>1, SuitableKept DEF AppliedSoFar
<1>5. CASE HostMovesICU \/ HostCorrect \/ HostStart \/ HostStop \/ HostWrite \/ IcuArrives
  <2>1. UNCHANGED <<load, wanted>>
    BY <1>5 DEF HostMovesICU, HostCorrect, HostStart, HostStop, HostWrite, IcuArrives
  <2> QED
    BY <1>1, <1>3, <2>1, SuitableKept DEF AppliedSoFar
<1> QED
  BY <1>2, <1>4, <1>5 DEF Command, Disturbance

LEMMA CalibrationKeepsCalibrated ==
  ASSUME LoadsInTime, Serving, Calibrated, CalibrationTurn
  PROVE  Calibrated'
<1> USE DEF Calibrated, Serving, Acquiring, Restoring, LockedOut, process, calibration
<1>0. /\ UNCHANGED <<process, db, wanted>> /\ turn' = "acquisition"
      /\ calib \in Infos /\ \A b : Suitable(b)' = Suitable(b)
  BY SuitableKept DEF CalibrationTurn, calUnchanged, Values
<1>1. CASE CalStart
  <2>1. /\ data' /\ load' = load /\ load # Null
        /\ ~calib'.valid /\ calib'.file = <<>> /\ calib'.corrected = {}
    BY <1>1 DEF CalStart
  <2>2. BlocksIn(<<>>) = {}
    BY DEF BlocksIn
  <2> QED
    BY <1>0, <2>1, <2>2 DEF CollectionKept, AppliedSoFar
<1>2. CASE CalBlock
  <2> DEFINE next == load[Len(calib.file) + 1]
  <2>1. /\ UNCHANGED <<load, data>> /\ data /\ load # Null
        /\ calib'.valid = calib.valid /\ calib'.file = Append(calib.file, next)
        /\ calib'.corrected = IF Suitable(next) # Null /\ allowUpdate /\ ~waiting
                              THEN calib.corrected \cup {next} ELSE calib.corrected
    BY <1>0, <1>2 DEF CalBlock, Infos
  <2>2. BlocksIn(calib'.file) = BlocksIn(calib.file) \cup {next}
    BY <2>1, ReadFurther, FileType
  <2> HIDE DEF next
  <2>3. CollectionKept'
    BY <1>0, <2>1 DEF CollectionKept
  <2>4. AppliedSoFar'
    <3>1. CASE state = "Idle" /\ ~waiting
      <4>1. calib.corrected = {b \in BlocksIn(calib.file) : Suitable(b) # Null} /\ allowUpdate
        BY <2>1, <3>1 DEF AppliedSoFar
      <4>2. calib'.corrected = {b \in BlocksIn(calib'.file) : Suitable(b) # Null}
        BY <2>1, <2>2, <3>1, <4>1
      <4> QED
        BY <1>0, <4>1, <4>2 DEF AppliedSoFar
    <3> QED
      BY <1>0, <3>1 DEF AppliedSoFar
  <2> QED
    BY <2>3, <2>4
<1>3. CASE CalDone \/ CalFail
  <2>1. /\ ~data' /\ load' = Null /\ calib'.file = calib.file /\ calib'.corrected = calib.corrected
        /\ calib'.valid => calib.file = load
        /\ data
    BY <1>0, <1>3 DEF CalDone, CalFail, Infos
  <2> QED
    BY <1>0, <2>1 DEF CollectionKept, AppliedSoFar
<1>4. CASE CalWaits
  <2>1. load = Null /\ UNCHANGED calibration
    BY <1>4 DEF CalWaits, LoadsInTime
  <2> QED
    BY <1>0, <2>1 DEF CollectionKept, AppliedSoFar
<1> QED
  BY <1>1, <1>2, <1>3, <1>4 DEF CalibrationTurn

LEMMA AcquisitionKeepsCalibrated ==
  ASSUME Serving, Calibrated, AcquisitionTurn
  PROVE  Calibrated'
<1>1. ~AcqOff
  BY DEF Serving, Acquiring, CommandsServed, AcqOff
<1>2. UNCHANGED <<process, db, calibration, wanted>> /\ turn = "acquisition" /\ turn' = "correction"
  BY <1>1 DEF AcquisitionTurn, acqUnchanged, acqOnly, AcqStopped, AcqWaiting, AcqReady,
              AcqStarted, AcqIsOff
<1>3. \A b : Suitable(b)' = Suitable(b)
  BY <1>2, SuitableKept
<1> QED
  BY <1>2, <1>3 DEF Calibrated, CollectionKept, AppliedSoFar, process, calibration

(* A correction that runs, or is over.                                     *)
LEMMA RevertsCalibration ==
  ASSUME Serving, Calibrated, Reverts, load = Null, saved = wanted, UNCHANGED wanted
  PROVE  /\ state' = "Idle" /\ allowUpdate' /\ load' = wanted' /\ load' # Null /\ ~data'
         /\ calib' = calib
<1>1. wanted \in Collections
  BY DEF Serving, Values
<1>2. LoadFile(saved)
  BY <1>1, NullIsNoFile DEF Reverts
<1> QED
  BY <1>1, <1>2, NullIsNoFile DEF Calibrated, CollectionKept, Reverts, LoadFile

LEMMA EndOfCallKeepsCalibrated ==
  ASSUME LoadsInTime, Serving, Calibrated, EndOfCall
  PROVE  Calibrated'
<1> USE DEF EndOfCall
<1>1. CASE error
  <2>1. load = Null /\ saved = wanted
    BY <1>1 DEF Calibrated, CollectionKept
  <2>2. Reverts /\ ~error' /\ turn' = "calibration" /\ UNCHANGED wanted
    BY <1>1
  <2> QED
    BY <2>1, <2>2, RevertsCalibration DEF Calibrated, CollectionKept, AppliedSoFar
<1>2. CASE ~error
  <2>1. ~gStop
    BY DEF Serving, Acquiring, Restoring, LockedOut
  <2>2. UNCHANGED <<process, deltas, calibration, wanted>> /\ turn' = "calibration"
    BY <1>2, <2>1
  <2>3. \A b : Suitable(b)' = Suitable(b)
    BY <2>2, SuitableKept DEF deltas
  <2> QED
    BY <2>2, <2>3 DEF Calibrated, CollectionKept, AppliedSoFar, process, calibration
<1> QED
  BY <1>1, <1>2

(* Between the load that begins a correction and the one that ends it,     *)
(* nothing is asked of the calibration manager.                            *)
LEMMA CorrectionKeepsCalibrated ==
  ASSUME LoadsInTime, Serving, Calibrated, Correction
  PROVE  Calibrated'
<1> USE DEF Calibrated, CollectionKept, process, calibration, To, Fails, restUnchanged,
            computeUnchanged
<1>0. /\ turn = "correction" /\ turn' = "tail" /\ UNCHANGED wanted /\ ~error
      /\ calib \in Infos /\ (load # Null <=> data)
  BY DEF Correction, Serving, Acquiring, Restoring, LockedOut, Values
<1>1. CASE Idle
  <2>1. /\ UNCHANGED <<calibration, db, error, allowUpdate, waiting>>
        /\ state' = "Idle" \/ (state' = "Start" /\ calib.valid)
        /\ state = "Idle"
    BY <1>1 DEF Idle, deltas
  <2>2. calib.valid => load = Null /\ calib.file = wanted
    BY <1>0, <2>1
  <2>3. CollectionKept'
    BY <1>0, <2>1, <2>2
  <2>4. AppliedSoFar'
    BY <2>1, SuitableKept DEF AppliedSoFar
  <2> QED
    BY <2>3, <2>4
<1>2. CASE Start
  <2>1. /\ load = Null /\ calib.valid /\ calib.file = wanted /\ calib.file # <<>>
        /\ saved' = wanted /\ UNCHANGED <<calib, data>>
    BY <1>0, <1>2, NullIsNoFile DEF Start, StartICU, StartBB, LoadFile, Serving, Values
  <2>2. \/ state' = "WaitForCalibData" /\ ~error'
        \/ state' = "Start" /\ error' /\ load' = load
    BY <1>2 DEF Start, StartICU, StartBB
  <2>3. ~data /\ turn' = "tail"
    BY <1>0, <2>1
  <2> QED
    BY <1>0, <2>1, <2>2, <2>3 DEF AppliedSoFar
<1>3. CASE WaitForCalibData
  BY <1>0, <1>3 DEF WaitForCalibData, AppliedSoFar, LoadsInTime
<1>4. CASE TransitionICU \/ WaitICU \/ StabilizeICU \/ ConfigCamera
  BY <1>0, <1>4 DEF TransitionICU, WaitICU, StabilizeICU, ConfigCamera, AppliedSoFar
<1>5. CASE StartAECAcquisition \/ StartAEC \/ StopAECAcquisition \/ WaitAcquisitionReady
  BY <1>0, <1>5 DEF StartAECAcquisition, StartAEC, StopAECAcquisition, WaitAcquisitionReady,
                    AppliedSoFar
<1>6. CASE StartSequence \/ WaitSequenceReady \/ FinalizeSequence
  BY <1>0, <1>6 DEF StartSequence, WaitSequenceReady, FinalizeSequence, AppliedSoFar
<1>7. CASE InitComputation \/ ComputeAveragedImage \/ ComputeBlackBodyFCal \/ ComputeDeltaBeta
  BY <1>0, <1>7 DEF InitComputation, ComputeAveragedImage, ComputeBlackBodyFCal,
                    ComputeDeltaBeta, AfterDetection, AppliedSoFar
<1>8. CASE ApplyBadPixelMap \/ ComputeDeltaBetaStats \/ QuantizeDeltaBeta
  BY <1>0, <1>8 DEF ApplyBadPixelMap, ComputeDeltaBetaStats, QuantizeDeltaBeta, AppliedSoFar
<1>9. CASE DetectBadPixels
  <2>1. UNCHANGED <<load, data, saved>> /\ calib'.valid = calib.valid
    BY <1>0, <1>9 DEF DetectBadPixels, bpdUnchanged, BPD_Idle, BPD_UpdateBeta,
                      BPD_StartAcquisition, BPD_WaitSequenceReady, BPD_FinalizeSequence,
                      BPD_UpdateBPMap, BPD_Fails, Infos
  <2>2. state' \notin {"Idle", "Start", "WaitForCalibData"} /\ state = "DetectBadPixels"
    BY <1>9 DEF DetectBadPixels, BPD_Idle, BPD_UpdateBeta, BPD_StartAcquisition,
                BPD_WaitSequenceReady, BPD_FinalizeSequence, BPD_UpdateBPMap, BPD_Fails, BpdTo,
                AfterDetection
  <2> QED
    BY <1>0, <2>1, <2>2 DEF AppliedSoFar
<1>10. CASE WriteActualizationFile
  <2>1. UNCHANGED <<calibration, saved>> /\ state = "WriteActualizationFile"
    BY <1>10 DEF WriteActualizationFile, writeUnchanged
  <2>2. state' \notin {"Idle", "Start"}
    BY <1>10 DEF WriteActualizationFile, FWR_Idle, FWR_InitIO, FWR_Write, FWR_Fails, FWR_CloseFile
  <2> QED
    BY <1>0, <2>1, <2>2 DEF AppliedSoFar
<1>11. CASE Finalize
  <2>1. load = Null /\ saved = wanted /\ Reverts /\ UNCHANGED <<error, wanted>>
    BY <1>0, <1>11 DEF Finalize
  <2>2. /\ state' = "Idle" /\ allowUpdate' /\ load' = wanted' /\ load' # Null /\ ~data'
        /\ calib' = calib
    BY <2>1, RevertsCalibration
  <2> QED
    BY <1>0, <2>1, <2>2 DEF AppliedSoFar
<1>12. CASE Waits
  <2>1. UNCHANGED <<process, calibration>> /\ state # "Idle"
    BY <1>12 DEF Waits, MustAdvance
  <2> QED
    BY <1>0, <2>1 DEF AppliedSoFar
<1> QED
  BY <1>1, <1>2, <1>3, <1>4, <1>5, <1>6, <1>7, <1>8, <1>9, <1>10, <1>11, <1>12 DEF Correction

LEMMA CalibratedInvariant ==
  ASSUME LoadsInTime
  PROVE  Spec => [](Serving /\ Calibrated)
<1>1. Undisturbed
  BY DEF LoadsInTime
<1>2. Spec => []Serving
  BY <1>1, TypeCorrect, AcquiringInvariant, PTL DEF Serving, TypeOK
<1>3. Init => Calibrated
  <2> SUFFICES ASSUME Init PROVE Calibrated
    OBVIOUS
  <2>1. db = <<>> /\ DOMAIN db = {}
    BY DEF Init
  <2>2. \A b : Suitable(b) = Null
    BY <2>1 DEF Suitable, LastOf
  <2> QED
    BY <2>2 DEF Init, Calibrated, CollectionKept, AppliedSoFar
<1>4. Serving /\ Calibrated /\ [Next]_vars => Calibrated'
  <2>1. Calibrated /\ UNCHANGED vars => Calibrated'
    <3> SUFFICES ASSUME Calibrated, UNCHANGED vars PROVE Calibrated'
      OBVIOUS
    <3>1. \A b : Suitable(b)' = Suitable(b)
      BY SuitableKept DEF vars, deltas
    <3> QED
      BY <3>1 DEF vars, process, calibration, Calibrated, CollectionKept, AppliedSoFar
  <2> QED
    BY <2>1, CommandKeepsCalibrated, CalibrationKeepsCalibrated, AcquisitionKeepsCalibrated,
       CorrectionKeepsCalibrated, EndOfCallKeepsCalibrated DEF Next
<1> QED
  BY <1>2, <1>3, <1>4, PTL DEF Spec

(* However a correction ends, the camera serves again the collection the   *)
(* host asked for, unless it could not be read.                            *)
THEOREM CollectionIsRestored ==
  ASSUME LoadsInTime
  PROVE  Spec => []CalibrationRestored
<1>1. Calibrated => CalibrationRestored
  BY DEF Calibrated, CollectionKept, CalibrationRestored, AtRest
<1> QED
  BY <1>1, CalibratedInvariant, PTL

(* At rest the calibration in use has every correction that suits one of   *)
(* its blocks, whatever was recycled or marked invalid before.             *)
THEOREM CorrectionsAreApplied ==
  ASSUME LoadsInTime
  PROVE  Spec => []AppliedUpToDate
<1>1. Calibrated => AppliedUpToDate
  BY DEF Calibrated, AppliedSoFar, AppliedUpToDate, AtRest
<1> QED
  BY <1>1, CalibratedInvariant, PTL

-----------------------------------------------------------------------------
(* What the images of a correction are taken of: the only faults left are  *)
(* files that cannot be read or written.                                   *)
FilesFailOnly == Faults \subseteq {"badLoad", "writeError"}

Loading == Serving /\ Calibrated
Reference == PlainCalibration /\ OnReference

LEMMA FilesFailInTime ==
  ASSUME FilesFailOnly
  PROVE  LoadsInTime
BY DEF FilesFailOnly, LoadsInTime, Undisturbed

(* Once the calibration of a correction has been loaded, it stays.         *)
LEMMA LoadIsOver ==
  ASSUME Loading, state \notin {"Idle", "Start", "WaitForCalibData"}
  PROVE  load = Null /\ ~data
BY DEF Loading, Calibrated, CollectionKept

LEMMA CommandKeepsReference ==
  ASSUME FilesFailOnly, Loading, Reference, Command
  PROVE  Reference'
<1> USE DEF Loading, Serving, Acquiring, Restoring, LockedOut, process, calibration, detection
<1>1. UNCHANGED <<turn, state, error, bpd, run, calib, data, acq, started>>
  BY DEF Command, Disturbance, DebugStop, HostMovesICU, PowerOff, HostCorrect, HostLoad,
         HostStart, HostStop, HostWrite, IcuArrives, PowerOn, CommandsServed, acquisition
<1>2. state \notin {"Idle", "Start"} => load' = load
  BY DEF Command, Disturbance, DebugStop, HostMovesICU, PowerOff, HostCorrect, HostLoad,
         HostStart, HostStop, HostWrite, IcuArrives, PowerOn
<1>3. \/ UNCHANGED icu
      \/ icuPos = "transition" /\ icuPos' = icuSet /\ UNCHANGED icuSet
  BY DEF FilesFailOnly, Command, Disturbance, DebugStop, HostMovesICU, PowerOff, HostCorrect,
         HostLoad, HostStart, HostStop, HostWrite, IcuArrives, PowerOn, icu
<1>4. PlainCalibration'
  BY <1>1, <1>2 DEF Reference, PlainCalibration, Right, Expecting, Stopping, Acquired, AfterMeasure
<1>5. OnReference'
  <2>1. icuSet \in {"scene", "calib"} /\ icuPos \in {icuSet, "transition"}
    BY DEF Values
  <2> QED
    BY <1>1, <1>3, <2>1 DEF Reference, OnReference, Acquired, icu
<1> QED
  BY <1>4, <1>5 DEF Reference

LEMMA CalibrationKeepsReference ==
  ASSUME FilesFailOnly, Loading, Reference, CalibrationTurn
  PROVE  Reference'
<1> USE DEF process, calibration, detection, acquisition, icu
<1>0. UNCHANGED <<state, error, bpd, run, started, acq, icu, waiting, allowUpdate>> /\ calib \in Infos
  BY DEF CalibrationTurn, calUnchanged, Loading, Serving, Values
<1>1. OnReference'
  BY <1>0 DEF Reference, OnReference, Acquired
<1>2. PlainCalibration'
  <2>1. CASE state \in {"Idle", "Start"} \/ error
    BY <1>0, <2>1 DEF PlainCalibration
  <2>2. CASE state \notin {"Idle", "Start", "WaitForCalibData"} /\ ~error
    <3>1. load = Null /\ ~data
      BY <2>2, LoadIsOver
    <3>2. UNCHANGED <<load, data, calib>>
      BY <3>1, NullIsNoFile DEF CalibrationTurn, CalStart, CalBlock, CalDone, CalFail, CalWaits,
                                Loading, Calibrated, CollectionKept
    <3> QED
      BY <1>0, <3>2 DEF Reference, PlainCalibration, Right, Expecting, Stopping, Acquired, AfterMeasure
  <2>3. CASE state = "WaitForCalibData" /\ ~error
    <3>0. /\ waiting /\ (data => load # Null /\ ~calib.valid)
          /\ load # Null => Right(load)
          /\ load = Null /\ calib.valid => Right(calib.file)
          /\ data \/ load = Null => calib.corrected = {}
      BY <2>3 DEF Reference, PlainCalibration, AfterMeasure, Loading, Calibrated, CollectionKept,
                  Serving, Acquiring, Restoring, LockedOut
    <3>1. /\ load' # Null => Right(load')
          /\ load' = Null /\ calib'.valid => Right(calib'.file)
          /\ data' \/ load' = Null => calib'.corrected = {}
      <4>1. CASE CalStart
        BY <3>0, <4>1 DEF CalStart
      <4>2. CASE CalBlock
        BY <1>0, <3>0, <4>2 DEF CalBlock, Infos
      <4>3. CASE CalDone
        BY <1>0, <3>0, <4>3 DEF CalDone, Infos
      <4>4. CASE CalFail
        BY <1>0, <3>0, <4>4 DEF CalFail, Infos
      <4>5. CASE CalWaits
        BY <3>0, <4>5 DEF CalWaits
      <4> QED
        BY <4>1, <4>2, <4>3, <4>4, <4>5 DEF CalibrationTurn
    <3>2. \A f : Right(f)' <=> Right(f)
      BY <1>0 DEF Right
    <3> QED
      BY <1>0, <2>3, <3>0, <3>1, <3>2 DEF PlainCalibration, Right, Expecting, Stopping, Acquired
  <2> QED
    BY <2>1, <2>2, <2>3
<1> QED
  BY <1>1, <1>2 DEF Reference

(* No acquisition starts without a calibration.                            *)
LEMMA AcquisitionKeepsReference ==
  ASSUME Loading, Reference, AcquisitionTurn
  PROVE  Reference'
<1> USE DEF process, calibration, detection, icu
<1>1. ~AcqOff
  BY DEF Loading, Serving, Acquiring, CommandsServed, AcqOff
<1>2. UNCHANGED <<process, calibration, bpd, icu>>
  BY <1>1 DEF AcquisitionTurn, acqUnchanged, acqOnly, AcqStopped, AcqWaiting, AcqReady,
              AcqStarted, AcqIsOff
<1>3. (started' \/ acq' = "STARTED") => started \/ acq = "STARTED" \/ calib.valid
  BY <1>1 DEF AcquisitionTurn, AcqStopped, AcqWaiting, AcqReady, AcqStarted, AcqIsOff, MayStart,
              acquisition
<1> QED
  BY <1>2, <1>3 DEF Reference, PlainCalibration, Right, Expecting, Stopping, Acquired,
                    AfterMeasure, OnReference

LEMMA EndOfCallKeepsReference ==
  ASSUME Loading, Reference, EndOfCall
  PROVE  Reference'
<1> USE DEF EndOfCall, process, calibration, detection, icu, acquisition
<1>1. CASE error
  <2>1. state' = "Idle" /\ ~error'
    BY <1>1 DEF Reverts
  <2> QED
    BY <2>1 DEF Reference, PlainCalibration, OnReference, Acquired
<1>2. CASE ~error
  <2>1. ~gStop
    BY DEF Loading, Serving, Acquiring, Restoring, LockedOut
  <2>2. UNCHANGED <<process, calibration, acquisition, icu, bpd>>
    BY <1>2, <2>1
  <2> QED
    BY <2>2 DEF Reference, PlainCalibration, Right, Expecting, Stopping, Acquired,
                AfterMeasure, OnReference
<1> QED
  BY <1>1, <1>2

(* The block under correction is one of the collection, or the reference   *)
(* block of the ICU.                                                       *)
LEMMA CurrentBlockKnown ==
  ASSUME Loading, Reference, ~error, state \in Acquired
  PROVE  /\ load = Null /\ ~data /\ calib.valid /\ Right(calib.file)
         /\ run.blockIdx \in DOMAIN calib.file
         /\ run.usingICU => /\ CurrentBlock = IcuBlock /\ IcuBlock # Null
                            /\ run.actBlocks = 1 /\ run.blockIdx = 1 /\ calib.file = <<IcuBlock>>
         /\ ~run.usingICU => CurrentBlock \in Blocks
<1>1. /\ state \notin {"Idle", "Start", "WaitForCalibData", "Finalize"}
      /\ run.blockIdx \in Nat \ {0} /\ run.actBlocks \in Nat
  BY RunType DEF Acquired, Loading, Serving, Values
<1>2. load = Null /\ ~data
  BY <1>1, LoadIsOver
<1>3. calib.valid /\ Right(calib.file)
  BY <1>1, <1>2 DEF Reference, PlainCalibration
<1>4. run.blockIdx \in DOMAIN calib.file
  BY <1>1, <1>3, FileType DEF Right, Loading, Serving
<1>5. CASE run.usingICU
  <2>1. calib.file = <<IcuBlock>> /\ (run.actBlocks # 1 => Len(calib.file) = run.actBlocks)
    BY <1>3, <1>5 DEF Right
  <2>2. run.actBlocks = 1 /\ run.blockIdx = 1
    BY <1>1, <1>4, <2>1
  <2>3. IcuBlock # Null
    BY <1>1, <1>5 DEF Reference, OnReference
  <2> QED
    BY <1>2, <1>3, <1>4, <1>5, <2>1, <2>2, <2>3 DEF CurrentBlock
<1>6. CASE ~run.usingICU
  <2>1. BlocksIn(calib.file) \subseteq Blocks
    BY <1>3, <1>6 DEF Right
  <2> QED
    BY <1>2, <1>3, <1>4, <1>6, <2>1 DEF CurrentBlock, BlocksIn
<1> QED
  BY <1>5, <1>6

LEMMA StartKeepsReference ==
  ASSUME Loading, Reference, Start, turn = "correction"
  PROVE  Reference'
<1> USE DEF Start
<1>1. /\ load = Null /\ ~data /\ calib.valid /\ calib.file \in Collections /\ calib.file # <<>>
      /\ mode \in Modes /\ calib \in Infos /\ run \in Runs
  BY NullIsNoFile DEF Loading, Calibrated, CollectionKept, Serving, Values, Acquiring, Restoring,
                      LockedOut
<1>2. CASE error'
  <2>1. state' \in {"Start", "WaitForCalibData"}
    BY DEF StartICU, StartBB
  <2>2. state' = "Start"
    BY <1>2 DEF StartICU, StartBB
  <2> QED
    BY <2>2, <1>2 DEF Reference, PlainCalibration, OnReference, Acquired
<1>3. CASE ~error'
  <2>1. state' = "WaitForCalibData" /\ UNCHANGED <<calib, data>>
    BY <1>3 DEF StartICU, StartBB, LoadFile, calibration
  <2>2. load' # Null /\ Right(load)'
    <3>1. CASE mode = "ICU"
      <4>1. /\ run' = [run EXCEPT !.usingICU = TRUE, !.actBlocks = 1, !.blockIdx = 1, !.sync = FALSE]
            /\ load' = <<IcuBlock>> /\ IcuBlock # Null
        BY <1>1, <1>3, <3>1 DEF StartICU, LoadFile
      <4>2. run'.usingICU /\ run'.actBlocks = 1 /\ run'.blockIdx = 1
        BY <1>1, <4>1 DEF Runs
      <4>3. <<IcuBlock>> \in Calibrations
        BY <4>1 DEF Calibrations, AllBlocks
      <4> QED
        BY <2>1, <4>1, <4>2, <4>3, NullIsNoFile DEF Right
    <3>2. CASE mode # "ICU"
      <4> DEFINE all == mode \in {"AllBlocks", "AllBlocksSync"}
                 sync == mode \in {"BlockSync", "AllBlocksSync"}
                 blocks == IF all THEN Len(calib.file) ELSE 1
      <4>4. calib.file \in Calibrations /\ Len(calib.file) \in Nat \ {0}
        BY <1>1, FileType DEF Loading, Serving
      <4>1. PICK i \in DOMAIN calib.file :
              /\ run' = [run EXCEPT !.usingICU = FALSE, !.actBlocks = blocks, !.sync = sync,
                           !.blockIdx = IF blocks = 1 /\ sync THEN i ELSE 1]
              /\ load' = IF blocks > 1 \/ sync THEN calib.file ELSE <<calib.file[i]>>
        <5>1. 1 \in DOMAIN calib.file
          BY <4>4, FileType DEF Loading, Serving
        <5> QED
          BY <1>1, <3>2, <5>1 DEF StartBB, LoadFile
      <4>2. /\ ~run'.usingICU /\ run'.actBlocks = blocks
            /\ run'.blockIdx = IF blocks = 1 /\ sync THEN i ELSE 1
        BY <1>1, <4>1 DEF Runs
      <4>3. /\ BlocksIn(calib.file) \subseteq Blocks /\ calib.file[i] \in BlocksIn(calib.file)
            /\ i \in Nat /\ i <= Len(calib.file)
        BY <1>1, FileType DEF Blocks, BlocksIn, Loading, Serving
      <4>5. /\ run'.actBlocks # 1 => Len(load') = run'.actBlocks
            /\ BlocksIn(load') \subseteq Blocks
            /\ run'.blockIdx <= Len(load')
        <5>1. CASE blocks > 1 \/ sync
          <6>1. load' = calib.file
            BY <4>1, <5>1
          <6>2. run'.actBlocks # 1 => Len(load') = run'.actBlocks
            BY <4>2, <6>1
          <6>3. run'.blockIdx <= Len(load')
            <7>1. run'.blockIdx = i \/ run'.blockIdx = 1
              BY <4>2
            <7> HIDE DEF all, sync, blocks
            <7> QED
              BY <4>3, <4>4, <6>1, <7>1
          <6> QED
            BY <4>3, <6>1, <6>2, <6>3
        <5>2. CASE ~(blocks > 1 \/ sync)
          <6>0. blocks = 1 /\ ~sync
            <7>1. blocks \in Nat \ {0}
              BY <4>4
            <7> HIDE DEF all, sync, blocks
            <7> QED
              BY <5>2, <7>1
          <6>1. load' = <<calib.file[i]>> /\ run'.actBlocks = 1 /\ run'.blockIdx = 1
            <7> HIDE DEF all, sync, blocks
            <7> QED
              BY <4>1, <4>2, <6>0
          <6>2. BlocksIn(load') = {calib.file[i]} /\ Len(load') = 1
            BY <6>1 DEF BlocksIn
          <6> QED
            BY <4>3, <6>1, <6>2
        <5> QED
          BY <5>1, <5>2
      <4>6. load' # Null
        <5>1. <<calib.file[i]>> \in Calibrations
          BY FileType DEF Calibrations, Loading, Serving
        <5> QED
          BY <4>1, <4>4, <5>1, NullIsNoFile
      <4> QED
        BY <2>1, <4>2, <4>5, <4>6 DEF Right
    <3> QED
      BY <3>1, <3>2
  <2>3. PlainCalibration'
    BY <1>1, <2>1, <2>2 DEF PlainCalibration, Right, Expecting, Stopping, Acquired, AfterMeasure
  <2>4. run'.usingICU => "ICU" \in Modes /\ IcuBlock # Null
    BY <1>1, <1>3 DEF StartICU, StartBB, Runs
  <2>5. OnReference'
    BY <2>1, <2>4 DEF OnReference, Acquired
  <2> QED
    BY <2>3, <2>5 DEF Reference
<1> QED
  BY <1>2, <1>3

LEMMA CorrectionKeepsReference ==
  ASSUME FilesFailOnly, Loading, Reference, Correction
  PROVE  Reference'
<1> USE DEF process, calibration, To, Fails, restUnchanged, computeUnchanged, icu, detection
<1>0. /\ turn = "correction" /\ ~error /\ calib \in Infos /\ run \in Runs
      /\ load # Null <=> data
      /\ state # "Idle" => waiting
      /\ icuSet \in {"scene", "calib"} /\ icuPos \in {icuSet, "transition"}
      /\ bpd # "Idle" => state = "DetectBadPixels"
  BY DEF Correction, Loading, Serving, Values, Acquiring, Restoring, LockedOut, CommandsServed,
         Calibrated, CollectionKept
<1>1. CASE Idle
  BY <1>1 DEF Idle, Reference, PlainCalibration, OnReference, Acquired
<1>2. CASE Start
  BY <1>0, <1>2, StartKeepsReference
<1>3. CASE WaitForCalibData
  <2>1. load = Null /\ UNCHANGED <<load, data, calib, bpd, error>>
    BY <1>0, <1>3 DEF WaitForCalibData, FilesFailOnly
  <2>2. CASE run.usingICU
    <3>1. /\ state' = "TransitionICU" /\ run' = [run EXCEPT !.icuPhase = 1]
      BY <1>0, <1>3, <2>1, <2>2 DEF WaitForCalibData
    <3>2. /\ run'.icuPhase = 1 /\ run'.usingICU /\ run'.actBlocks = run.actBlocks
          /\ run'.blockIdx = run.blockIdx
      BY <1>0, <2>2, <3>1 DEF Runs
    <3> QED
      BY <1>0, <1>3, <2>1, <2>2, <3>1, <3>2 DEF WaitForCalibData, Reference, PlainCalibration, Right,
          Expecting, Stopping, Acquired, AfterMeasure, OnReference
  <2>3. CASE ~run.usingICU
    <3>1. state' = "ConfigCamera" /\ UNCHANGED <<run, icu>>
      BY <1>0, <1>3, <2>1, <2>3 DEF WaitForCalibData
    <3> QED
      BY <1>0, <1>3, <2>1, <2>3, <3>1 DEF WaitForCalibData, Reference, PlainCalibration, Right,
          Expecting, Stopping, Acquired, AfterMeasure, OnReference
  <2> QED
    BY <2>2, <2>3
<1>4. CASE TransitionICU \/ WaitICU \/ ConfigCamera
  BY <1>0, <1>4 DEF TransitionICU, WaitICU, ConfigCamera, Reference, PlainCalibration, Right,
          Expecting, Stopping, Acquired, AfterMeasure, OnReference
<1>5. CASE StabilizeICU
  <2>0. UNCHANGED <<load, data, calib, bpd, error>> /\ run.usingICU /\ icuPos # "transition"
    BY <1>5 DEF StabilizeICU, Reference, OnReference
  <2>1. CASE run.icuPhase = 1
    <3>1. state' = "TransitionICU" /\ run' = [run EXCEPT !.icuPhase = 2] /\ MoveICU("calib")
      BY <1>5, <2>1 DEF StabilizeICU
    <3>2. /\ run'.icuPhase = 2 /\ run'.usingICU /\ run'.actBlocks = run.actBlocks
          /\ run'.blockIdx = run.blockIdx
      BY <1>0, <2>0, <3>1 DEF Runs
    <3>3. icuSet' = "calib"
      BY <1>5, <2>0, <3>1 DEF MoveICU, StabilizeICU, Reference, OnReference
    <3> QED
      BY <1>0, <1>5, <2>0, <3>1, <3>2, <3>3 DEF StabilizeICU, Reference, PlainCalibration, Right,
          Expecting, Stopping, Acquired, AfterMeasure, OnReference
  <2>2. CASE run.icuPhase # 1
    <3>1. state' = "ConfigCamera" /\ run' = [run EXCEPT !.icuPhase = 0] /\ UNCHANGED icu
      BY <1>5, <2>2 DEF StabilizeICU
    <3>2. /\ run'.usingICU /\ run'.actBlocks = run.actBlocks /\ run'.blockIdx = run.blockIdx
      BY <1>0, <2>0, <3>1 DEF Runs
    <3>3. icuPos' = "calib"
      BY <1>0, <1>5, <2>0, <2>2, <3>1 DEF StabilizeICU, Reference, OnReference
    <3> QED
      BY <1>0, <1>5, <2>0, <3>1, <3>2, <3>3 DEF StabilizeICU, Reference, PlainCalibration, Right,
          Expecting, Stopping, Acquired, AfterMeasure, OnReference
  <2> QED
    BY <2>1, <2>2
<1>6. CASE StartAECAcquisition
  <2>1. ~started \/ error'
    BY <1>6 DEF StartAECAcquisition, CameraReady
  <2>2. acq # "STARTED"
    BY <1>0, <1>6 DEF StartAECAcquisition, Loading, Serving, Acquiring, OwnAcquisition, Expecting,
                      Stopping
  <2>3. UNCHANGED <<load, data, calib, bpd, run, icu, started, acq>>
    BY <1>6 DEF StartAECAcquisition, StartAcquisition, acquisition
  <2>4. state' = "StartAEC" \/ (error' /\ state' = state)
    BY <1>6 DEF StartAECAcquisition
  <2> QED
    BY <1>0, <1>6, <2>1, <2>2, <2>3, <2>4 DEF StartAECAcquisition, Reference, PlainCalibration, Right,
          Expecting, Stopping, Acquired, AfterMeasure, OnReference
<1>7. CASE StartAEC \/ StopAECAcquisition \/ WaitAcquisitionReady
  BY <1>0, <1>7 DEF StartAEC, StopAECAcquisition, WaitAcquisitionReady, StopAcquisition, acquisition,
          Reference, PlainCalibration, Right, Expecting, Stopping, Acquired, AfterMeasure, OnReference
<1>8. CASE StartSequence
  <2>1. ~started /\ acq # "STARTED"
    BY <1>0, <1>8 DEF StartSequence, Loading, Serving, Acquiring, OwnAcquisition, Expecting, Stopping
  <2> QED
    BY <1>0, <1>8, <2>1 DEF StartSequence, StartAcquisition, Reference, PlainCalibration, Right,
          Expecting, Stopping, Acquired, AfterMeasure, OnReference
<1>9. CASE WaitSequenceReady
  <2>0. UNCHANGED <<load, data, calib, bpd, icu, acquisition>> /\ state = "WaitSequenceReady"
    BY <1>9 DEF WaitSequenceReady
  <2>1. CASE Fails
    BY <1>0, <2>0, <2>1 DEF Reference, PlainCalibration, OnReference, Acquired
  <2>2. CASE started /\ state' = "FinalizeSequence"
    <3>1. run.usingICU => icuPos = "calib"
      BY <2>0 DEF Reference, OnReference
    <3>2. run' = [run EXCEPT !.onReference = TRUE] /\ UNCHANGED error
      <4>1. (run.usingICU => icuPos = "calib") = TRUE
        BY <3>1
      <4>2. run' = [run EXCEPT !.onReference = (run.usingICU => icuPos = "calib")] /\ UNCHANGED error
        BY <1>9, <2>0, <2>2 DEF WaitSequenceReady
      <4> QED
        BY <4>1, <4>2
    <3>3. /\ run'.onReference /\ run'.usingICU = run.usingICU /\ run'.actBlocks = run.actBlocks
          /\ run'.blockIdx = run.blockIdx
      BY <1>0, <3>2 DEF Runs
    <3> QED
      BY <1>0, <2>0, <2>2, <3>2, <3>3 DEF Reference, PlainCalibration, Right,
          Expecting, Stopping, Acquired, AfterMeasure, OnReference, acquisition
  <2> QED
    BY <1>9, <2>1, <2>2 DEF WaitSequenceReady
<1>10. CASE FinalizeSequence
  <2>1. /\ UNCHANGED <<load, data, calib, bpd, run, acq, started>> /\ state = "FinalizeSequence"
        /\ state' \in {"FinalizeSequence", "InitComputation"}
    BY <1>10 DEF FinalizeSequence, StopAcquisition
  <2> QED
    BY <1>0, <2>1 DEF Reference, PlainCalibration, Right, Expecting, Stopping, Acquired, AfterMeasure,
                      OnReference
<1>11. CASE InitComputation \/ ComputeAveragedImage \/ ComputeBlackBodyFCal
  BY <1>0, <1>11 DEF InitComputation, ComputeAveragedImage, ComputeBlackBodyFCal, Reference,
          PlainCalibration, Right, Expecting, Stopping, Acquired, AfterMeasure, OnReference
<1>12. CASE ComputeDeltaBeta
  BY <1>0, <1>12 DEF ComputeDeltaBeta, AfterDetection, Reference,
          PlainCalibration, Right, Expecting, Stopping, Acquired, AfterMeasure, OnReference
<1>13. CASE ApplyBadPixelMap \/ ComputeDeltaBetaStats \/ QuantizeDeltaBeta
  BY <1>0, <1>13 DEF ApplyBadPixelMap, ComputeDeltaBetaStats, QuantizeDeltaBeta, Reference,
          PlainCalibration, Right, Expecting, Stopping, Acquired, AfterMeasure, OnReference
<1>14. CASE DetectBadPixels
  <2>1. /\ UNCHANGED <<load, data, run>> /\ state = "DetectBadPixels"
        /\ state' \in {"DetectBadPixels", "ApplyBadPixelMap", "ComputeDeltaBetaStats"}
        /\ calib'.valid = calib.valid /\ calib'.file = calib.file
    BY <1>0, <1>14 DEF DetectBadPixels, bpdUnchanged, BPD_Idle, BPD_UpdateBeta,
                 BPD_StartAcquisition, BPD_WaitSequenceReady, BPD_FinalizeSequence,
                 BPD_UpdateBPMap, BPD_Fails, BpdTo, AfterDetection, Infos
  <2>2. load = Null /\ ~data /\ calib.valid /\ run.usingICU
    BY <1>0, <2>1, LoadIsOver DEF Reference, PlainCalibration, OnReference, Acquired
  <2> QED
    BY <1>0, <2>1, <2>2 DEF Reference, PlainCalibration, Right, Expecting, Stopping, Acquired,
                            AfterMeasure, OnReference
<1>15. CASE WriteActualizationFile
  <2>1. /\ UNCHANGED <<load, data, calib, bpd, icu, acquisition>> /\ state = "WriteActualizationFile"
    BY <1>15 DEF WriteActualizationFile, writeUnchanged
  <2>2. load = Null /\ ~data /\ calib.valid
    BY <1>0, <2>1, LoadIsOver DEF Reference, PlainCalibration, Acquired
  <2>3. CASE FWR_CloseFile
    <3>1. /\ run'.usingICU = run.usingICU /\ run'.actBlocks = run.actBlocks
          /\ run'.onReference = run.onReference /\ run'.blockIdx = run.blockIdx + 1
          /\ run'.icuPhase = run.icuPhase
      BY <1>0, <2>3 DEF FWR_CloseFile, Runs
    <3>2. \/ state' = "Finalize"
          \/ /\ state' \in {"InitComputation", "WaitForCalibData"}
             /\ ~(run.blockIdx >= run.actBlocks)
      BY <2>3 DEF FWR_CloseFile
    <3>3. /\ run.actBlocks \in Nat /\ run.blockIdx \in Nat \ {0} /\ Right(calib.file)
          /\ run.usingICU => run.actBlocks = 1 /\ run.blockIdx = 1
      BY <1>0, <2>1, CurrentBlockKnown, RunType DEF Acquired
    <3>4. state' # "Finalize" => ~run'.usingICU /\ run'.blockIdx <= Len(calib.file)
      <4>1. CASE run.blockIdx >= run.actBlocks
        BY <3>2, <4>1
      <4>2. CASE ~(run.blockIdx >= run.actBlocks)
        <5>1. run.actBlocks # 1 /\ ~run.usingICU /\ run.blockIdx + 1 <= run.actBlocks
          BY <3>3, <4>2
        <5> QED
          BY <3>1, <3>3, <5>1 DEF Right
      <4> QED
        BY <4>1, <4>2
    <3>5. Right(calib.file)'
      BY <2>1, <3>1, <3>3, <3>4 DEF Right
    <3>6. error' = error
      BY <2>3 DEF FWR_CloseFile
    <3>7. /\ Right(calib.file) /\ run.onReference
          /\ run.usingICU => "ICU" \in Modes /\ IcuBlock # Null
          /\ ~run.usingICU => calib.corrected = {}
      BY <1>0, <2>1, <2>2 DEF Reference, PlainCalibration, OnReference, Acquired
    <3>8. PlainCalibration'
      BY <1>0, <2>1, <2>2, <3>1, <3>2, <3>4, <3>5, <3>7 DEF PlainCalibration, Right, Expecting,
         Stopping, Acquired, AfterMeasure
    <3>9. OnReference'
      BY <1>0, <2>1, <3>1, <3>2, <3>4, <3>7 DEF OnReference, Acquired
    <3> QED
      BY <3>8, <3>9 DEF Reference
  <2>4. CASE ~FWR_CloseFile
    <3>1. UNCHANGED <<state, run>>
      BY <1>15, <2>4 DEF WriteActualizationFile, FWR_Idle, FWR_InitIO, FWR_Write, FWR_Fails
    <3> QED
      BY <1>0, <2>1, <3>1 DEF Reference, PlainCalibration, Right, Expecting, Stopping, Acquired,
                              AfterMeasure, OnReference, acquisition
  <2> QED
    BY <2>3, <2>4
<1>16. CASE Finalize
  BY <1>16 DEF Finalize, Reverts, Reference, PlainCalibration, OnReference, Acquired
<1>17. CASE Waits
  BY <1>0, <1>17 DEF Waits, Reference, PlainCalibration, Right, Expecting, Stopping, Acquired,
                          AfterMeasure, OnReference, acquisition
<1> QED
  BY <1>1, <1>2, <1>3, <1>4, <1>5, <1>6, <1>7, <1>8, <1>9, <1>10, <1>11, <1>12, <1>13, <1>14,
     <1>15, <1>16, <1>17 DEF Correction

-----------------------------------------------------------------------------
(* The entries of the database.                                            *)
Measuring == Loading /\ Reference
Sound == EntriesDistinct /\ EntryKept

LEMMA ReferenceInvariant ==
  ASSUME FilesFailOnly
  PROVE  Spec => []Measuring
<1>1. Spec => []Loading
  BY FilesFailInTime, CalibratedInvariant DEF Loading
<1>2. Init => Reference
  BY DEF Init, Reference, PlainCalibration, OnReference, Acquired
<1>3. Loading /\ Reference /\ [Next]_vars => Reference'
  <2>1. Reference /\ UNCHANGED vars => Reference'
    BY DEF vars, process, calibration, detection, acquisition, icu, Reference, PlainCalibration,
           Right, Expecting, Stopping, Acquired, AfterMeasure, OnReference
  <2> QED
    BY <2>1, CommandKeepsReference, CalibrationKeepsReference, AcquisitionKeepsReference,
       CorrectionKeepsReference, EndOfCallKeepsReference DEF Next
<1> QED
  BY <1>1, <1>2, <1>3, PTL DEF Spec, Measuring

(* The entry of the block under correction is the one a search for the     *)
(* reference block finds.                                                  *)
LEMMA SearchKeepsEntry ==
  ASSUME Measuring, Sound, ~error, state = "DetectBadPixels"
  PROVE  /\ EntryAfterSearch(calib.file) = entry
         /\ Matching(CurrentBlock) = entry /\ entry # Null /\ db[entry].valid
<1>1. /\ run.usingICU /\ CurrentBlock = IcuBlock /\ calib.file = <<IcuBlock>>
      /\ entry \in DOMAIN db /\ db[entry].block = IcuBlock /\ db[entry].valid
  BY CurrentBlockKnown DEF Measuring, Reference, OnReference, Sound, EntryKept, Acquired
<1>2. DOMAIN db = 1..Len(db) /\ Len(db) \in Nat /\ Null \notin Nat
  BY CorrectionAssumption DEF Measuring, Loading, Serving, Values
<1>3. entry # Null
  BY <1>1, <1>2
<1>4. \A i \in DOMAIN db : db[i].block = IcuBlock => i = entry
  BY <1>1 DEF Sound, EntriesDistinct
<1>5. Suitable(IcuBlock) = entry
  <2> DEFINE xbb == {i \in DOMAIN db : db[i].valid /\ db[i].type = "XBB" /\ db[i].block = IcuBlock}
             ofIcu == {i \in DOMAIN db : db[i].valid /\ db[i].type = "ICU"}
  <2>1. xbb = {}
    BY DEF Sound, EntriesDistinct
  <2>2. ofIcu = {entry}
    BY <1>1, <1>4 DEF Sound, EntriesDistinct
  <2>3. Suitable(IcuBlock) = LastOf(ofIcu)
    BY <2>1 DEF Suitable
  <2>4. entry <= entry
    BY <1>1, <1>2
  <2>5. LastOf({entry}) = entry
    BY <2>4 DEF LastOf
  <2> QED
    BY <2>2, <2>3, <2>5
<1>6. EntryAfterSearch(calib.file) = entry
  <2>1. {i \in DOMAIN <<IcuBlock>> : Suitable(<<IcuBlock>>[i]) # Null} = {1}
    BY <1>3, <1>5
  <2>2. LastOf({1}) = 1
    BY DEF LastOf
  <2> QED
    BY <1>1, <1>5, <2>1, <2>2 DEF EntryAfterSearch
<1>7. Matching(CurrentBlock) = entry
  <2>1. Matching(CurrentBlock) # Null
    BY <1>1, MatchingType DEF Measuring, Loading, Serving
  <2>2. Matching(CurrentBlock) \in DOMAIN db /\ db[Matching(CurrentBlock)].block = CurrentBlock
    BY <2>1, MatchingType DEF Measuring, Loading, Serving
  <2> QED
    BY <1>1, <1>4, <2>2
<1> QED
  BY <1>1, <1>3, <1>6, <1>7

LEMMA SoundStutter ==
  ASSUME Sound, UNCHANGED <<db, entry, hasCurrent, measure, state, run, calib>>
  PROVE  Sound'
BY DEF Sound, EntriesDistinct, EntryKept, Acquired, Quantizing, CurrentBlock

(* What happens between two calls does not touch the entry of a correction *)
(* whose images have been taken.                                           *)
LEMMA CommandKeepsSound ==
  ASSUME Sound, Command
  PROVE  Sound'
BY SoundStutter DEF Command, Disturbance, DebugStop, HostMovesICU, PowerOff, HostCorrect, HostLoad,
   HostStart, HostStop, HostWrite, IcuArrives, PowerOn, deltas, process, calibration

Worked == Acquired \ {"FinalizeSequence", "InitComputation"}

LEMMA EntryNotNeeded ==
  ASSUME Sound, UNCHANGED <<db, hasCurrent, measure, state, run>>, state \notin Worked
  PROVE  Sound'
BY DEF Sound, EntriesDistinct, EntryKept, Acquired, Worked, Quantizing

LEMMA CalibrationKeepsSound ==
  ASSUME Measuring, Sound, CalibrationTurn
  PROVE  Sound'
<1>1. UNCHANGED <<db, hasCurrent, measure, state, run>>
  BY DEF CalibrationTurn, calUnchanged, process
<1>2. CASE state \in {"Idle", "Start", "WaitForCalibData"}
  BY <1>1, <1>2, EntryNotNeeded DEF Worked, Acquired
<1>3. CASE state \notin {"Idle", "Start", "WaitForCalibData"}
  <2>1. load = Null /\ ~data
    BY <1>3, LoadIsOver DEF Measuring
  <2>2. UNCHANGED <<calib, entry>>
    BY <2>1 DEF CalibrationTurn, CalStart, CalBlock, CalDone, CalFail, CalWaits, calibration
  <2> QED
    BY <1>1, <2>2, SoundStutter
<1> QED
  BY <1>2, <1>3

LEMMA AcquisitionKeepsSound ==
  ASSUME Measuring, Sound, AcquisitionTurn
  PROVE  Sound'
<1>0. ~AcqOff /\ turn = "acquisition" /\ ~error
  BY DEF Measuring, Loading, Serving, Acquiring, Restoring, LockedOut, CommandsServed, AcqOff,
         AcquisitionTurn
<1>1. UNCHANGED <<db, hasCurrent, measure, state, run, calib>>
  BY <1>0 DEF AcquisitionTurn, acqUnchanged, acqOnly, AcqStopped, AcqWaiting, AcqReady,
              AcqStarted, AcqIsOff, process, calibration
<1>2. CASE state \notin Worked
  BY <1>1, <1>2, EntryNotNeeded
<1>3. CASE entry' = entry
  BY <1>1, <1>3, SoundStutter
<1>4. CASE state \in Worked /\ entry' # entry
  <2>1. start /\ entry' = EntryAfterSearch(calib.file)
    BY <1>0, <1>4 DEF AcquisitionTurn, AcqStopped, AcqWaiting, AcqReady, AcqStarted, AcqIsOff
  <2>2. state = "DetectBadPixels"
    BY <1>0, <1>4, <2>1 DEF Worked, Acquired, Measuring, Loading, Serving, Acquiring,
                            OwnAcquisition, Expecting, Stopping
  <2> QED
    BY <1>0, <1>4, <2>1, <2>2, SearchKeepsEntry
<1> QED
  BY <1>2, <1>3, <1>4

(* An entry that is marked, and entries that are invalidated, stay those   *)
(* of their blocks.                                                        *)
LEMMA Marked ==
  ASSUME NEW d \in Seq(Entries), NEW k, NEW v \in BOOLEAN, NEW e,
         e = [d EXCEPT ![k].valid = v]
  PROVE  /\ DOMAIN e = DOMAIN d
         /\ \A i \in DOMAIN d : /\ e[i].block = d[i].block /\ e[i].type = d[i].type
                                /\ e[i].data = d[i].data
                                /\ i = k => e[i].valid = v
                                /\ i # k => e[i] = d[i]
<1>1. e = [d EXCEPT ![k] = [d[k] EXCEPT !.valid = v]] /\ DOMAIN e = DOMAIN d
  OBVIOUS
<1>2. \A i \in DOMAIN d : e[i] = IF i = k THEN [d[i] EXCEPT !.valid = v] ELSE d[i]
  BY <1>1
<1>3. \A x \in Entries : LET y == [x EXCEPT !.valid = v]
                        IN y.block = x.block /\ y.type = x.type /\ y.data = x.data /\ y.valid = v
  BY DEF Entries
<1>4. \A i \in DOMAIN d : d[i] \in Entries
  OBVIOUS
<1> QED
  BY <1>1, <1>2, <1>3, <1>4

LEMMA EntriesMarked ==
  ASSUME Values, Sound, NEW v \in BOOLEAN, db' = [db EXCEPT ![entry].valid = v]
  PROVE  /\ EntriesDistinct' /\ DOMAIN db' = DOMAIN db
         /\ \A i \in DOMAIN db : /\ db'[i].block = db[i].block /\ db'[i].data = db[i].data
                                 /\ i = entry => db'[i].valid = v
                                 /\ i # entry => db'[i] = db[i]
<1>1. db \in Seq(Entries)
  BY DEF Values
<1>2. /\ DOMAIN db' = DOMAIN db
      /\ \A i \in DOMAIN db : /\ db'[i].block = db[i].block /\ db'[i].data = db[i].data
                              /\ db'[i].type = db[i].type
                              /\ i = entry => db'[i].valid = v
                              /\ i # entry => db'[i] = db[i]
  BY <1>1, Marked
<1>3. EntriesDistinct'
  BY <1>2 DEF Sound, EntriesDistinct
<1> QED
  BY <1>2, <1>3

LEMMA EndOfCallKeepsSound ==
  ASSUME Measuring, Sound, EndOfCall
  PROVE  Sound'
<1> USE DEF EndOfCall
<1>1. CASE error
  <2>0. /\ db' = IF hasCurrent THEN [db EXCEPT ![entry].valid = FALSE] ELSE db
        /\ UNCHANGED entry /\ Reverts
    BY <1>1
  <2>1. /\ state' = "Idle" /\ UNCHANGED entry
        /\ hasCurrent => db' = [db EXCEPT ![entry].valid = FALSE]
        /\ ~hasCurrent => db' = db
    BY <2>0, Zenon DEF Reverts
  <2>2. Quantizing => hasCurrent /\ entry \in DOMAIN db
    BY DEF Quantizing, Sound, EntryKept, Acquired
  <2>3. CASE hasCurrent
    <3>1. /\ EntriesDistinct' /\ DOMAIN db' = DOMAIN db
          /\ \A i \in DOMAIN db : /\ i = entry => ~db'[i].valid
                                  /\ i # entry => db'[i] = db[i]
      BY <2>1, <2>3, EntriesMarked DEF Measuring, Loading, Serving
    <3> QED
      BY <2>1, <3>1 DEF Sound, EntryKept, Acquired, Quantizing
  <2>4. CASE ~hasCurrent
    <3>1. db' = db /\ ~Quantizing
      BY <2>1, <2>2, <2>4
    <3>2. \A i \in DOMAIN db : db[i].valid => db[i].data = [block |-> db[i].block, sound |-> TRUE]
      BY <3>1 DEF Sound, EntryKept
    <3>3. EntriesDistinct'
      BY <3>1 DEF Sound, EntriesDistinct
    <3>4. EntryKept'
      BY <2>1, <3>1, <3>2 DEF EntryKept, Acquired
    <3> QED
      BY <3>3, <3>4 DEF Sound
  <2> QED
    BY <2>3, <2>4
<1>2. CASE ~error
  <2>1. ~gStop
    BY DEF Measuring, Loading, Serving, Acquiring, Restoring, LockedOut
  <2>2. UNCHANGED <<db, entry, hasCurrent, measure, state, run, calib>>
    BY <1>2, <2>1 DEF process, deltas, calibration
  <2> QED
    BY <2>2, SoundStutter
<1> QED
  BY <1>1, <1>2

(* While no entry is under computation, and while one is.                  *)
LEMMA NotWorked ==
  ASSUME Sound, UNCHANGED deltas, state \notin Worked, state' \notin Worked
  PROVE  Sound'
BY DEF Sound, EntriesDistinct, EntryKept, Acquired, Worked, Quantizing, deltas

LEMMA StillWorked ==
  ASSUME Sound, UNCHANGED deltas, UNCHANGED <<run, calib>>, state \in Worked, state' \in Worked,
         Quantizing' => Quantizing \/ state' = "DetectBadPixels", Quantizing => Quantizing',
         state' = "DetectBadPixels" => state = "DetectBadPixels",
         state' = "WriteActualizationFile" => state = "WriteActualizationFile"
  PROVE  Sound'
BY DEF Sound, EntriesDistinct, EntryKept, Worked, Quantizing, deltas, CurrentBlock, Acquired

LEMMA AllocationKeepsSound ==
  ASSUME Measuring, Sound, ~error, InitComputation
  PROVE  Sound'
<1>1. PICK place \in Places(CurrentBlock) : Allocate(CurrentBlock, place)
  BY DEF InitComputation
<1>2. /\ state = "InitComputation" /\ state' = "ComputeAveragedImage"
      /\ UNCHANGED <<run, measure, calib>>
  BY DEF InitComputation, calibration
<1>3. /\ entry' = place /\ place \in DOMAIN db' /\ hasCurrent' = TRUE
      /\ db'[place].block = CurrentBlock /\ ~db'[place].valid
      /\ db'[place].type = IF run.usingICU THEN "ICU" ELSE "XBB"
      /\ DOMAIN db' = DOMAIN db \cup {place}
      /\ \A i \in DOMAIN db' \ {place} : db'[i] = db[i]
  BY <1>1, AllocateType DEF Measuring, Loading, Serving
<1>4. \A i \in DOMAIN db \ {place} : db[i].block # CurrentBlock
  <2>1. CASE Matching(CurrentBlock) = Null
    BY <2>1, MatchingType DEF Measuring, Loading, Serving
  <2>2. CASE Matching(CurrentBlock) # Null
    <3>1. place = Matching(CurrentBlock)
      BY <1>1, <2>2 DEF Places
    <3>2. place \in DOMAIN db /\ db[place].block = CurrentBlock
      BY <2>2, <3>1, MatchingType DEF Measuring, Loading, Serving
    <3> QED
      BY <3>2 DEF Sound, EntriesDistinct
  <2> QED
    BY <2>1, <2>2
<1>5. run.usingICU <=> CurrentBlock = IcuBlock
  BY <1>2, CurrentBlockKnown, CorrectionAssumption DEF Acquired, Measuring
<1>6. EntriesDistinct'
  BY <1>3, <1>4, <1>5 DEF Sound, EntriesDistinct
<1>7. EntryKept'
  <2>1. CurrentBlock' = CurrentBlock
    BY <1>2 DEF CurrentBlock
  <2> QED
    BY <1>2, <1>3, <2>1 DEF Sound, EntryKept, Quantizing, Acquired
<1> QED
  BY <1>6, <1>7 DEF Sound

LEMMA MeasureIsSound ==
  ASSUME Measuring, Sound, ~error, ComputeDeltaBeta
  PROVE  Sound'
<1>1. /\ state = "ComputeDeltaBeta" /\ UNCHANGED <<run, entry, hasCurrent, calib>>
      /\ state' \in {"DetectBadPixels", "ApplyBadPixelMap", "ComputeDeltaBetaStats"}
  BY DEF ComputeDeltaBeta, AfterDetection, calibration
<1>2. calib.valid /\ ~data /\ load = Null
  BY <1>1, CurrentBlockKnown DEF Acquired, Measuring
<1>3. run.onReference /\ calib.corrected = {}
  BY <1>1, <1>2 DEF Measuring, Reference, PlainCalibration, OnReference, Acquired, AfterMeasure
<1>4. measure' = [block |-> CurrentBlock, sound |-> TRUE]
  <2>1. measure'.sound = TRUE /\ measure' = [block |-> CurrentBlock, sound |-> measure'.sound]
    <3>1. (run.onReference /\ calib.valid /\ ~data /\ CurrentBlock \notin calib.corrected) = TRUE
      BY <1>2, <1>3
    <3>2. measure' = [block |-> CurrentBlock,
                      sound |-> (run.onReference /\ calib.valid /\ ~data
                                   /\ CurrentBlock \notin calib.corrected)]
      BY DEF ComputeDeltaBeta
    <3> QED
      BY <3>1, <3>2
  <2> QED
    BY <2>1
<1>5. CurrentBlock' = CurrentBlock /\ Quantizing' /\ ~Quantizing
  BY <1>1 DEF CurrentBlock, Quantizing
<1>6. entry \in DOMAIN db /\ db[entry].block = CurrentBlock /\ hasCurrent
  BY <1>1 DEF Sound, EntryKept, Acquired
<1>7. CASE db' = db /\ state' # "DetectBadPixels"
  BY <1>1, <1>4, <1>5, <1>6, <1>7 DEF Sound, EntriesDistinct, EntryKept, Acquired
<1>8. CASE db' = [db EXCEPT ![entry].valid = TRUE] /\ state' = "DetectBadPixels"
  <2>1. /\ EntriesDistinct' /\ DOMAIN db' = DOMAIN db
        /\ \A i \in DOMAIN db : /\ db'[i].block = db[i].block /\ db'[i].data = db[i].data
                                /\ i = entry => db'[i].valid
                                /\ i # entry => db'[i] = db[i]
    BY <1>8, EntriesMarked DEF Measuring, Loading, Serving
  <2> QED
    BY <1>1, <1>4, <1>5, <1>6, <1>8, <2>1 DEF Sound, EntryKept, Acquired
<1>9. \/ db' = db /\ state' # "DetectBadPixels"
      \/ db' = [db EXCEPT ![entry].valid = TRUE] /\ state' = "DetectBadPixels"
  BY DEF ComputeDeltaBeta, AfterDetection
<1> QED
  BY <1>7, <1>8, <1>9

LEMMA QuantizationKeepsSound ==
  ASSUME Measuring, Sound, ~error, QuantizeDeltaBeta
  PROVE  Sound'
<1>1. /\ state = "QuantizeDeltaBeta" /\ state' = "WriteActualizationFile"
      /\ UNCHANGED <<run, entry, hasCurrent, measure, calib>>
      /\ db' = [db EXCEPT ![entry].data = measure]
  BY DEF QuantizeDeltaBeta, To, calibration
<1>2. /\ entry \in DOMAIN db /\ db[entry].block = CurrentBlock /\ hasCurrent
      /\ measure = [block |-> CurrentBlock, sound |-> TRUE]
  BY <1>1 DEF Sound, EntryKept, Acquired, Quantizing
<1>3. CurrentBlock' = CurrentBlock
  BY <1>1 DEF CurrentBlock
<1>4. /\ DOMAIN db' = DOMAIN db
      /\ \A i \in DOMAIN db : /\ db'[i].block = db[i].block /\ db'[i].type = db[i].type
                              /\ db'[i].valid = db[i].valid
                              /\ i = entry => db'[i].data = measure
                              /\ i # entry => db'[i] = db[i]
  <2>1. \A i \in DOMAIN db : db[i] \in Entries
    BY DEF Measuring, Loading, Serving, Values
  <2>2. \A x \in Entries : LET y == [x EXCEPT !.data = measure]
                          IN y.block = x.block /\ y.type = x.type /\ y.valid = x.valid /\ y.data = measure
    BY DEF Entries
  <2>3. db' = [db EXCEPT ![entry] = [db[entry] EXCEPT !.data = measure]] /\ DOMAIN db' = DOMAIN db
    BY <1>1
  <2>4. \A i \in DOMAIN db : db'[i] = IF i = entry THEN [db[i] EXCEPT !.data = measure] ELSE db[i]
    BY <2>3
  <2> QED
    BY <2>1, <2>2, <2>3, <2>4
<1>5. EntriesDistinct'
  BY <1>4 DEF Sound, EntriesDistinct
<1>6. EntryKept'
  <2>1. \A i \in DOMAIN db' : db'[i].valid => db'[i].data = [block |-> db'[i].block, sound |-> TRUE]
    <3>1. \A i \in DOMAIN db \ {entry} :
            db[i].valid => db[i].data = [block |-> db[i].block, sound |-> TRUE]
      BY DEF Sound, EntryKept
    <3> QED
      BY <1>2, <1>4, <3>1
  <2>2. ~Quantizing'
    BY <1>1 DEF Quantizing
  <2> QED
    BY <1>1, <1>2, <1>3, <1>4, <2>1, <2>2 DEF EntryKept
<1> QED
  BY <1>5, <1>6 DEF Sound

LEMMA DetectionKeepsSound ==
  ASSUME Measuring, Sound, ~error, DetectBadPixels
  PROVE  Sound'
<1>1. /\ state = "DetectBadPixels" /\ UNCHANGED <<db, hasCurrent, measure, run>>
      /\ state' \in {"DetectBadPixels", "ApplyBadPixelMap", "ComputeDeltaBetaStats"}
      /\ calib'.file = calib.file
  <2>1. calib \in Infos
    BY DEF Measuring, Loading, Serving, Values
  <2> QED
    BY <2>1 DEF DetectBadPixels, bpdUnchanged, BPD_Idle, BPD_UpdateBeta, BPD_StartAcquisition,
           BPD_WaitSequenceReady, BPD_FinalizeSequence, BPD_UpdateBPMap, BPD_Fails, BpdTo,
           AfterDetection, Infos
<1>2. entry' = entry
  BY <1>1, SearchKeepsEntry DEF DetectBadPixels, BPD_Idle, BPD_UpdateBeta, BPD_StartAcquisition,
     BPD_WaitSequenceReady, BPD_FinalizeSequence, BPD_UpdateBPMap, BPD_Fails
<1>3. CurrentBlock' = CurrentBlock
  BY <1>1 DEF CurrentBlock
<1> QED
  BY <1>1, <1>2, <1>3 DEF Sound, EntriesDistinct, EntryKept, Acquired, Quantizing

LEMMA WritingKeepsSound ==
  ASSUME Measuring, Sound, ~error, WriteActualizationFile
  PROVE  Sound'
<1>1. state = "WriteActualizationFile" /\ UNCHANGED <<entry, hasCurrent, measure, calib>>
  BY DEF WriteActualizationFile, writeUnchanged, calibration
<1>2. CASE ~FWR_CloseFile
  <2>1. UNCHANGED <<db, state, run>>
    BY <1>2 DEF WriteActualizationFile, FWR_Idle, FWR_InitIO, FWR_Write, FWR_Fails
  <2> QED
    BY <1>1, <2>1, SoundStutter
<1>3. CASE FWR_CloseFile
  <2>1. /\ state' \in {"Finalize", "InitComputation", "WaitForCalibData"}
        /\ db' = [db EXCEPT ![entry].valid = TRUE]
    BY <1>3 DEF FWR_CloseFile
  <2>2. db[entry].data = [block |-> db[entry].block, sound |-> TRUE] /\ ~Quantizing
    BY <1>1 DEF Sound, EntryKept, Acquired, Quantizing
  <2>3. /\ EntriesDistinct' /\ DOMAIN db' = DOMAIN db
        /\ \A i \in DOMAIN db : /\ db'[i].block = db[i].block /\ db'[i].data = db[i].data
                                /\ i # entry => db'[i] = db[i]
    BY <2>1, EntriesMarked DEF Measuring, Loading, Serving
  <2>4. \A i \in DOMAIN db' : db'[i].valid => db'[i].data = [block |-> db'[i].block, sound |-> TRUE]
    <3>1. \A i \in DOMAIN db \ {entry} :
            db[i].valid => db[i].data = [block |-> db[i].block, sound |-> TRUE]
      BY DEF Sound, EntryKept
    <3> QED
      BY <2>2, <2>3, <3>1
  <2>5. EntryKept'
    BY <2>1, <2>4 DEF EntryKept, Acquired
  <2> QED
    BY <2>3, <2>5 DEF Sound
<1> QED
  BY <1>2, <1>3

LEMMA FinalizeKeepsSound ==
  ASSUME Measuring, Sound, Finalize
  PROVE  Sound'
<1>1. state = "Finalize" /\ state' = "Idle"
  BY DEF Finalize, Reverts
<1>2. /\ DOMAIN db' = DOMAIN db
      /\ \A i \in DOMAIN db : /\ db'[i].block = db[i].block /\ db'[i].type = db[i].type
                              /\ db'[i].data = db[i].data /\ (db'[i].valid => db[i].valid)
  <2>1. \A i \in DOMAIN db : db[i] \in Entries
    BY DEF Measuring, Loading, Serving, Values
  <2>2. db' = db \/ db' = Invalidated(db, {"XBB"})
    BY DEF Finalize
  <2>3. \A x \in Entries, v \in BOOLEAN :
          LET y == [x EXCEPT !.valid = v]
          IN y.block = x.block /\ y.type = x.type /\ y.data = x.data /\ y.valid = v
    BY DEF Entries
  <2>4. CASE db' = Invalidated(db, {"XBB"})
    <3>1. \A i \in DOMAIN db :
            db'[i] = [db[i] EXCEPT !.valid = db[i].valid /\ db[i].type \notin {"XBB"}]
      BY <2>4 DEF Invalidated
    <3>2. DOMAIN db' = DOMAIN db
      BY <2>4 DEF Invalidated
    <3> SUFFICES ASSUME NEW i \in DOMAIN db
                 PROVE  /\ db'[i].block = db[i].block /\ db'[i].type = db[i].type
                        /\ db'[i].data = db[i].data /\ (db'[i].valid => db[i].valid)
      BY <3>2
    <3>3. (db[i].valid /\ db[i].type \notin {"XBB"}) \in BOOLEAN
      OBVIOUS
    <3>4. PICK v \in BOOLEAN : v = (db[i].valid /\ db[i].type \notin {"XBB"})
      BY <3>3
    <3>5. db'[i] = [db[i] EXCEPT !.valid = v]
      BY <3>1, <3>4
    <3>6. v => db[i].valid
      BY <3>4
    <3> QED
      BY <2>1, <2>3, <3>5, <3>6
  <2> QED
    BY <2>2, <2>4
<1>3. EntriesDistinct'
  BY <1>2 DEF Sound, EntriesDistinct
<1>4. EntryKept'
  <2>1. \A i \in DOMAIN db : db[i].valid => db[i].data = [block |-> db[i].block, sound |-> TRUE]
    BY <1>1 DEF Sound, EntryKept, Quantizing
  <2>2. \A i \in DOMAIN db' : db'[i].valid => db'[i].data = [block |-> db'[i].block, sound |-> TRUE]
    BY <1>2, <2>1
  <2> QED
    BY <1>1, <2>2 DEF EntryKept, Acquired
<1> QED
  BY <1>3, <1>4 DEF Sound

LEMMA CorrectionKeepsSound ==
  ASSUME Measuring, Sound, Correction
  PROVE  Sound'
<1> USE DEF To, Fails, restUnchanged, computeUnchanged
<1>0. ~error
  BY DEF Correction, Measuring, Loading, Serving, Acquiring, Restoring, LockedOut
<1>1. CASE Idle \/ Start \/ WaitForCalibData \/ TransitionICU
  BY <1>1, NotWorked DEF Idle, Start, StartICU, StartBB, WaitForCalibData, TransitionICU,
                         Worked, Acquired, process
<1>2. CASE WaitICU \/ StabilizeICU \/ ConfigCamera
  BY <1>2, NotWorked DEF WaitICU, StabilizeICU, ConfigCamera, Worked, Acquired
<1>3. CASE StartAECAcquisition \/ StartAEC \/ StopAECAcquisition \/ WaitAcquisitionReady
  BY <1>3, NotWorked DEF StartAECAcquisition, StartAEC, StopAECAcquisition, WaitAcquisitionReady,
                         Worked, Acquired
<1>4. CASE StartSequence \/ WaitSequenceReady \/ FinalizeSequence
  BY <1>4, NotWorked DEF StartSequence, WaitSequenceReady, FinalizeSequence, Worked, Acquired, process
<1>5. CASE ComputeAveragedImage \/ ComputeBlackBodyFCal \/ ApplyBadPixelMap \/ ComputeDeltaBetaStats
  BY <1>5, StillWorked DEF ComputeAveragedImage, ComputeBlackBodyFCal, ApplyBadPixelMap,
                           ComputeDeltaBetaStats, Worked, Acquired, Quantizing, calibration
<1>6. CASE Waits
  BY <1>6, SoundStutter DEF Waits, process, deltas, calibration
<1> QED
  BY <1>0, <1>1, <1>2, <1>3, <1>4, <1>5, <1>6, AllocationKeepsSound, MeasureIsSound,
     QuantizationKeepsSound, DetectionKeepsSound, WritingKeepsSound, FinalizeKeepsSound
     DEF Correction

LEMMA SoundInvariant ==
  ASSUME FilesFailOnly
  PROVE  Spec => [](Measuring /\ Sound)
<1>1. Spec => []Measuring
  BY ReferenceInvariant
<1>2. Init => Sound
  <2> SUFFICES ASSUME Init PROVE Sound
    OBVIOUS
  <2>1. DOMAIN db = {} /\ state = "Idle"
    BY DEF Init
  <2> QED
    BY <2>1 DEF Sound, EntriesDistinct, EntryKept, Acquired
<1>3. Measuring /\ Sound /\ [Next]_vars => Sound'
  <2>1. Sound /\ UNCHANGED vars => Sound'
    BY SoundStutter DEF vars, deltas, process, calibration
  <2> QED
    BY <2>1, CommandKeepsSound, CalibrationKeepsSound, AcquisitionKeepsSound,
       CorrectionKeepsSound, EndOfCallKeepsSound DEF Next
<1> QED
  BY <1>1, <1>2, <1>3, PTL DEF Spec

(* A correction that may be applied was computed for the block it names,   *)
(* from images of the reference and from a calibration without correction, *)
(* whatever number of blocks the camera has and of entries its database,   *)
(* and whichever file could not be read or written before.                 *)
THEOREM ValidCorrectionsAreSound ==
  ASSUME FilesFailOnly
  PROVE  Spec => []ValidIsSound
<1>1. Sound => ValidIsSound
  BY DEF Sound, EntryKept, ValidIsSound
<1> QED
  BY <1>1, SoundInvariant, PTL

(* The whole of the inductive invariant.                                   *)
THEOREM Invariance ==
  ASSUME FilesFailOnly
  PROVE  Spec => []IInv
<1>1. Measuring /\ Sound /\ TypeOK => IInv
  BY DEF Measuring, Sound, Loading, Serving, Calibrated, Acquiring, Restoring, Reference, IInv
<1> QED
  BY <1>1, SoundInvariant, TypeCorrect, PTL
=============================================================================
