-------------------------- MODULE ImageCorrection --------------------------
(***************************************************************************)
(* The image correction process: Actualization_SM of sw/Actualization.c    *)
(* with its bad pixel detection and its file writer, over what it uses of  *)
(* the calibration manager (sw/Calibration.c), of the acquisition machine  *)
(* (sw/Acquisition.c) and of the internal calibration unit (ICU.c).        *)
(*                                                                         *)
(* turn follows the main loop: the host is served, then Calibration_SM,    *)
(* Acquisition_SM and Actualization_SM are called.  A call of the latter   *)
(* is two steps, the code of its state and the tail that handles errors.   *)
(* Whether a timer has expired is chosen by the step.  A calibration is    *)
(* known by the sequence of its blocks, a block by its POSIX time.         *)
(***************************************************************************)
EXTENDS Naturals, Sequences

CONSTANTS
  Collections,   \* the calibration collections, as sequences of blocks
  IcuBlock,      \* the ICU reference block of the collections, or Null
  Null,
  MaxEntries,    \* MAX_DELTA_BETA_SIZE
  Modes,         \* the kinds of correction the host asks for
  BPDetection,   \* flashSettings.BPDetectionEnabled
  Faults,        \* what may go wrong or be asked meanwhile, see FaultKinds
  MaxDisturbances \* a bound: how often "stop", "power" and "icuMoved" happen

(* slowLoad: a load outlasts its time-out.  heldLoad: the file manager is  *)
(* busy and holds loads back.  badLoad: a file cannot be read.             *)
(* writeError: the correction file cannot be written.  stop: the debug     *)
(* terminal interrupts.  power: the camera is switched off and on.         *)
(* icuMoved: the host writes ICUPositionSetpoint.  startRace: a correction *)
(* is asked for while the host's own start of an acquisition is pending.   *)
FaultKinds == {"slowLoad", "heldLoad", "badLoad", "writeError", "stop",
               "power", "icuMoved", "startRace"}

(* ImageCorrectionMode, ...BlockSelector and ...FWMode.                    *)
ModeKinds == {"ICU", "Block", "BlockSync", "AllBlocks", "AllBlocksSync"}

BlocksIn(c) == {c[i] : i \in DOMAIN c}
Blocks == UNION {BlocksIn(c) : c \in Collections}
AllBlocks == Blocks \cup ({IcuBlock} \ {Null})
Calibrations == Seq(AllBlocks)

ASSUME CorrectionAssumption ==
  /\ Null \notin Blocks /\ IcuBlock \notin Blocks
  /\ Null \notin Calibrations /\ Null \notin Nat
  /\ Collections \subseteq Calibrations \ {<<>>}
  /\ MaxEntries \in Nat \ {0}
  /\ Modes \subseteq ModeKinds /\ Faults \subseteq FaultKinds
  /\ BPDetection \in BOOLEAN /\ MaxDisturbances \in Nat

VARIABLES
  turn,          \* whose call the main loop makes next
  state,         \* the static state of Actualization_SM
  error,         \* its local variable error
  gStart, gStop, \* gStartActualization, gStopActualization
  waiting,       \* the status bit WaitingForImageCorrection
  allowStart,    \* gActAllowAcquisitionStart
  allowUpdate,   \* allowCalibUpdate
  mode,          \* the mode registers, locked while waiting
  saved,         \* savedCalibPosixTime, or Null
  run,           \* usingICU, actSyncFW, actBlocks, blockIdx, icuPhase...
  db,            \* deltaBetaDB
  entry,         \* deltaBeta.dbEntry, an index of db or Null
  hasCurrent,    \* currentDeltaBeta # NULL: it then points to deltaBeta
  measure,       \* what the array deltaBeta.deltaBeta was computed from
  bpd, gStartBpd, \* BadPixelDetection_SM's state, gStartBadPixelDetection
  bpMap,         \* gActBPMapAvailable
  writer, gWrite, \* ActualizationFileWriter_SM's state, gWriteActualizationFile
  fd,            \* its file descriptor: "none", "open" or "closed"
  regs, backup,  \* the registers a correction changes, and GCRegsBackup
  calib,         \* calibrationInfo: isValid, the file, the blocks corrected
  load,          \* cmCalibrationFile, or Null
  data,          \* the status bit WaitingForCalibrationData
  acq,           \* acquisitionState
  start, stop,   \* gcRegsData.AcquisitionStart and AcquisitionStop
  started,       \* the status bit AcquisitionStarted
  byCorrection,  \* the process gave the last start command
  icuSet, icuPos, \* ICUPositionSetpoint and ICUPosition
  power,         \* DevicePowerState
  wanted,        \* no variable of the code: the collection the host asked for
  disturbed      \* nor this: how often a disturbance has happened

process == <<state, error, gStart, gStop, waiting, allowStart, allowUpdate, saved, run>>
deltas == <<db, entry, hasCurrent, measure>>
detection == <<bpd, gStartBpd, bpMap>>
writing == <<writer, gWrite, fd>>
registers == <<regs, backup, mode>>
calibration == <<calib, load, data>>
acquisition == <<acq, start, stop, started, byCorrection>>
icu == <<icuSet, icuPos>>
vars == <<turn, process, deltas, detection, writing, registers, calibration, acquisition, icu, power, wanted,
          disturbed>>

-----------------------------------------------------------------------------
(* The database of corrections.  An entry is valid once it may be applied; *)
(* data says of which block its quantized values are, and whether they     *)
(* were computed from images of the reference and from the plain           *)
(* calibration of that block.                                              *)

LastOf(s) == IF s = {} THEN Null ELSE CHOOSE i \in s : \A j \in s : j <= i

(* findSuitableDeltaBetaForBlock: the external black body comes before the *)
(* ICU, whose correction suits every block of a collection that names its  *)
(* reference block.  The collections of the model name the same one and    *)
(* were made for the same resolution, binning, well depth and integration  *)
(* mode, so that the tests on these are left out.                          *)
Suitable(block) ==
  LET xbb == {i \in DOMAIN db : db[i].valid /\ db[i].type = "XBB" /\ db[i].block = block}
      ofIcu == {i \in DOMAIN db : db[i].valid /\ db[i].type = "ICU"}
  IN IF xbb # {} THEN LastOf(xbb) ELSE LastOf(ofIcu)

(* A search over the blocks of a calibration leaves deltaBeta on the last  *)
(* entry it has found.                                                     *)
EntryAfterSearch(file) ==
  LET found == {i \in DOMAIN file : Suitable(file[i]) # Null}
  IN IF found = {} THEN entry ELSE Suitable(file[LastOf(found)])

(* findMatchingDeltaBetaForBlock                                           *)
Matching(block) == LastOf({i \in DOMAIN db : db[i].block = block})

(* ACT_invalidateActualizations                                            *)
Invalidated(d, types) ==
  [i \in DOMAIN d |-> [d[i] EXCEPT !.valid = @ /\ d[i].type \notin types]]

NoData == [block |-> Null, sound |-> FALSE]

(* Mutant: one entry more than the database has.                           *)
Bug_Places(block) ==
  LET xbb == {i \in DOMAIN db : db[i].type = "XBB"}
  IN IF Matching(block) # Null THEN {Matching(block)}
     ELSE IF Len(db) <= MaxEntries THEN {Len(db) + 1}
     ELSE IF xbb = {} THEN {1} ELSE xbb

(* The places allocateDeltaBetaForCurrentBlock may choose: the entry of    *)
(* the block, a new one, or the oldest of an external black body (ages are *)
(* left out), or the first when all are of the ICU.                        *)
Places(block) ==
  LET xbb == {i \in DOMAIN db : db[i].type = "XBB"}
  IN IF Matching(block) # Null THEN {Matching(block)}
     ELSE IF Len(db) < MaxEntries THEN {Len(db) + 1}
     ELSE IF xbb = {} THEN {1} ELSE xbb

(* Mutant: an entry keeps its valid mark when it is given to a block.      *)
Bug_Allocate(block, place) ==
  LET new(e) == [e EXCEPT !.block = block, !.type = IF run.usingICU THEN "ICU" ELSE "XBB"]
  IN /\ db' = IF place > Len(db)
               THEN Append(db, new([block |-> block, type |-> "XBB", valid |-> FALSE,
                                    data |-> NoData]))
               ELSE [db EXCEPT ![place] = new(@)]
     /\ entry' = place
     /\ hasCurrent' = TRUE

Allocate(block, place) ==
  LET new(d) == [block |-> block, type |-> IF run.usingICU THEN "ICU" ELSE "XBB",
                 valid |-> FALSE, data |-> d]
  IN /\ db' = IF place > Len(db) THEN Append(db, new(NoData))
                                 ELSE [db EXCEPT ![place] = new(@.data)]
     /\ entry' = place
     /\ hasCurrent' = TRUE

-----------------------------------------------------------------------------
(* What the process asks of its neighbours.                                *)

(* Mutant: a load replaces the one that is pending.                        *)
Bug_LoadFile(file) ==
  /\ load' = file
  /\ UNCHANGED <<calib, data>>

(* Calibration_LoadCalibrationFile: refused while another load is pending, *)
(* and every caller ignores the refusal.                                   *)
LoadFile(file) ==
  /\ load' = IF load = Null THEN file ELSE load
  /\ UNCHANGED <<calib, data>>

StartAcquisition ==
  start' = TRUE /\ byCorrection' = TRUE /\ UNCHANGED <<acq, stop, started>>

(* Mutant: only an acquisition that is known to run is stopped.            *)
Bug_StopAcquisition ==
  stop' = (stop \/ started) /\ UNCHANGED <<acq, start, started, byCorrection>>

(* Mutant: the register is written with what is known of the acquisition.  *)
Bug_StopOverwrites ==
  stop' = started /\ UNCHANGED <<acq, start, started, byCorrection>>

StopAcquisition ==
  stop' = TRUE /\ UNCHANGED <<acq, start, started, byCorrection>>

(* ICU_setpointUpdated: the position is set to a transition early.         *)
MoveICU(p) ==
  IF "ICU" \in Modes
  THEN icuSet' = p /\ icuPos' = IF icuPos = p THEN p ELSE "transition"
  ELSE UNCHANGED icu

(* The camera can be armed, but for the correction's own status bit.       *)
CameraReady == power = "On" /\ ~data /\ ~started /\ icuPos # "transition"

(* Mutant: the registers are saved once they have been changed.            *)
Bug_BackupRegisters == backup' = "old"

(* ACT_backupGCRegisters, and the values of the correction.                *)
BackupRegisters == backup' = IF regs = "user" THEN "user" ELSE "old"

(* ACT_restoreGCRegisters                                                  *)
RestoreRegisters ==
  /\ regs' = IF backup = "user" THEN "user" ELSE "lost"
  /\ UNCHANGED <<backup, mode>>

(* Mutants: the update of calibrations stays disabled; the reference block *)
(* stays loaded after an error; an interruption leaves the host locked out.*)
Bug_Reverts_Update ==
  /\ UNCHANGED allowUpdate
  /\ RestoreRegisters
  /\ IF saved # Null THEN LoadFile(saved) ELSE UNCHANGED calibration
  /\ waiting' = FALSE /\ state' = "Idle"
Bug_Reverts_Load ==
  /\ allowUpdate' = TRUE
  /\ RestoreRegisters
  /\ IF saved # Null /\ ~error THEN LoadFile(saved) ELSE UNCHANGED calibration
  /\ waiting' = FALSE /\ state' = "Idle"
Bug_Reverts_Busy ==
  /\ allowUpdate' = TRUE
  /\ RestoreRegisters
  /\ IF saved # Null THEN LoadFile(saved) ELSE UNCHANGED calibration
  /\ waiting' = (waiting /\ gStop) /\ state' = "Idle"

(* What the end of a correction and an error have in common.               *)
Reverts ==
  /\ allowUpdate' = TRUE
  /\ RestoreRegisters
  /\ IF saved # Null THEN LoadFile(saved) ELSE UNCHANGED calibration
  /\ waiting' = FALSE /\ state' = "Idle"

(* The block of the index being corrected, in the calibration now loaded.  *)
CurrentBlock ==
  IF run.blockIdx \in DOMAIN calib.file THEN calib.file[run.blockIdx] ELSE Null

-----------------------------------------------------------------------------
(* Actualization_SM, one definition per state.  To keeps the rest of the   *)
(* process as it is.                                                       *)

To(s) ==
  /\ state' = s
  /\ UNCHANGED <<error, gStart, gStop, waiting, allowStart, allowUpdate, saved>>
Fails ==
  /\ error' = TRUE
  /\ UNCHANGED <<state, gStart, gStop, waiting, allowStart, allowUpdate, saved, run>>

restUnchanged == UNCHANGED <<deltas, detection, writing, registers, calibration>>

Idle ==
  /\ state = "Idle"
  /\ allowStart' = FALSE
  /\ IF gStart /\ power = "On" /\ calib.valid
     THEN /\ gStart' = FALSE
          /\ saved' = Null
          /\ run' = [run EXCEPT !.detect = BPDetection /\ ~bpMap]
          /\ state' = "Start"
     ELSE UNCHANGED <<gStart, saved, run, state>>
  /\ UNCHANGED <<error, gStop, waiting, allowUpdate, acquisition, icu>>
  /\ restUnchanged

(* findIcuReferenceBlock, and the loading of the block.                    *)
StartICU ==
  IF calib.valid /\ IcuBlock # Null
  THEN /\ run' = [run EXCEPT !.usingICU = TRUE, !.actBlocks = 1, !.blockIdx = 1, !.sync = FALSE]
       /\ LoadFile(<<IcuBlock>>)
       /\ state' = "WaitForCalibData" /\ error' = FALSE
  ELSE /\ run' = [run EXCEPT !.usingICU = TRUE]
       /\ error' = TRUE
       /\ UNCHANGED <<calibration, state>>

(* The current calibration is loaded again, or its current block alone     *)
(* when the wheel does not turn: behind the synchronous wheel one block is *)
(* corrected with the whole collection loaded.  Which block is current is  *)
(* left open; with no block in memory the search for it runs on beyond the *)
(* list.                                                                   *)
StartBB ==
  LET all == mode \in {"AllBlocks", "AllBlocksSync"}
      sync == mode \in {"BlockSync", "AllBlocksSync"}
      blocks == IF all THEN Len(calib.file) ELSE 1
  IN /\ \E current \in DOMAIN calib.file \cup {1} :
          /\ run' = [run EXCEPT !.usingICU = FALSE, !.actBlocks = blocks, !.sync = sync,
                                !.blockIdx = IF blocks = 1 /\ sync THEN current ELSE 1]
          /\ IF calib.file = <<>> THEN UNCHANGED calibration
             ELSE LoadFile(IF blocks > 1 \/ sync THEN calib.file ELSE <<calib.file[current]>>)
     /\ state' = "WaitForCalibData" /\ error' = FALSE

Start ==
  /\ state = "Start"
  /\ allowUpdate' = FALSE
  /\ allowStart' = TRUE
  /\ BackupRegisters
  /\ regs' = "correction"
  /\ saved' = IF calib.file = <<>> THEN Null ELSE calib.file
  /\ stop' = (stop \/ started)
  /\ IF mode = "ICU" THEN StartICU ELSE StartBB
  /\ UNCHANGED <<gStart, gStop, waiting, mode, acq, start, started, byCorrection,
                 icu, deltas, detection, writing>>

WaitForCalibData ==
  /\ state = "WaitForCalibData"
  /\ \/ /\ ~data
        /\ IF run.usingICU
           THEN /\ run' = [run EXCEPT !.icuPhase = 1]
                /\ MoveICU("scene")
                /\ To("TransitionICU")
           ELSE To("ConfigCamera") /\ UNCHANGED <<run, icu>>
     \/ /\ data /\ "slowLoad" \in Faults
        /\ Fails /\ UNCHANGED icu
  /\ UNCHANGED acquisition
  /\ restUnchanged

TransitionICU ==
  /\ state = "TransitionICU" /\ icuPos # "transition"
  /\ To("WaitICU")
  /\ UNCHANGED <<run, icu, acquisition>>
  /\ restUnchanged

WaitICU ==
  /\ state = "WaitICU"
  /\ To("StabilizeICU")
  /\ UNCHANGED <<run, icu, acquisition>>
  /\ restUnchanged

(* The temperature is stable or the time is up; the second phase is on the *)
(* black body.                                                             *)
StabilizeICU ==
  /\ state = "StabilizeICU"
  /\ IF run.icuPhase = 1
     THEN run' = [run EXCEPT !.icuPhase = 2] /\ MoveICU("calib") /\ To("TransitionICU")
     ELSE run' = [run EXCEPT !.icuPhase = 0] /\ UNCHANGED icu /\ To("ConfigCamera")
  /\ UNCHANGED acquisition
  /\ restUnchanged

ConfigCamera ==
  /\ state = "ConfigCamera"
  /\ To("StartAECAcquisition")
  /\ UNCHANGED <<run, icu, acquisition>>
  /\ restUnchanged

StartAECAcquisition ==
  /\ state = "StartAECAcquisition"
  /\ IF CameraReady THEN To("StartAEC") /\ StartAcquisition /\ UNCHANGED run
                    ELSE Fails /\ UNCHANGED acquisition
  /\ UNCHANGED icu
  /\ restUnchanged

(* Mutant: the wait for the acquisition has no time-out.                   *)
Bug_StartAEC ==
  /\ state = "StartAEC" /\ started
  /\ To("StopAECAcquisition")
  /\ UNCHANGED <<run, icu, acquisition>>
  /\ restUnchanged

StartAEC ==
  /\ state = "StartAEC"
  /\ IF started THEN To("StopAECAcquisition") /\ UNCHANGED run ELSE Fails
  /\ UNCHANGED <<icu, acquisition>>
  /\ restUnchanged

StopAECAcquisition ==
  /\ state = "StopAECAcquisition"
  /\ To(IF run.sync THEN "WaitAcquisitionReady" ELSE "StartAcquisition")
  /\ StopAcquisition
  /\ UNCHANGED <<run, icu>>
  /\ restUnchanged

WaitAcquisitionReady ==
  /\ state = "WaitAcquisitionReady"
  /\ IF CameraReady THEN To("StartAcquisition") /\ UNCHANGED run ELSE Fails
  /\ UNCHANGED <<icu, acquisition>>
  /\ restUnchanged

StartSequence ==
  /\ state = "StartAcquisition" /\ ~started
  /\ To("WaitSequenceReady")
  /\ StartAcquisition
  /\ UNCHANGED <<run, icu>>
  /\ restUnchanged

WaitSequenceReady ==
  /\ state = "WaitSequenceReady"
  /\ \/ /\ started
        /\ To("FinalizeSequence")
        /\ run' = [run EXCEPT !.onReference = run.usingICU => icuPos = "calib"]
     \/ Fails
  /\ UNCHANGED <<icu, acquisition>>
  /\ restUnchanged

(* Stopped again and again until the acquisition has stopped; the sequence *)
(* may be too short.                                                       *)
FinalizeSequence ==
  /\ state = "FinalizeSequence"
  /\ StopAcquisition
  /\ IF started
     THEN UNCHANGED <<process, icu>>
     ELSE /\ state' = "InitComputation"
          /\ error' \in BOOLEAN
          /\ IF run.usingICU THEN MoveICU("scene") ELSE UNCHANGED icu
          /\ UNCHANGED <<gStart, gStop, waiting, allowStart, allowUpdate, saved, run>>
  /\ restUnchanged

computeUnchanged == UNCHANGED <<gStart, gStop, waiting, allowStart, allowUpdate, saved,
                                writing, registers, acquisition>>

(* There may be no image of the block.                                     *)
InitComputation ==
  /\ state = "InitComputation"
  /\ \E place \in Places(CurrentBlock) : Allocate(CurrentBlock, place)
  /\ state' = "ComputeAveragedImage"
  /\ error' \in BOOLEAN
  /\ computeUnchanged
  /\ UNCHANGED <<run, measure, detection, calibration, icu>>

(* An image may be of another block, and the block may lack its table.     *)
ComputeAveragedImage ==
  /\ state = "ComputeAveragedImage"
  /\ \/ state' = "ComputeBlackBodyFCal" /\ error' = FALSE
     \/ state' \in {state, "ComputeBlackBodyFCal"} /\ error' = TRUE
  /\ computeUnchanged
  /\ UNCHANGED <<run, deltas, detection, calibration, icu>>

ComputeBlackBodyFCal ==
  /\ state = "ComputeBlackBodyFCal"
  /\ \/ state' = "ComputeDeltaBeta" /\ error' = FALSE
     \/ UNCHANGED state /\ error' = TRUE
  /\ computeUnchanged
  /\ UNCHANGED <<run, deltas, detection, calibration, icu>>

AfterDetection == IF bpMap' THEN "ApplyBadPixelMap" ELSE "ComputeDeltaBetaStats"

(* The entry is valid early when bad pixels are looked for: the detection  *)
(* needs it.                                                               *)
ComputeDeltaBeta ==
  /\ state = "ComputeDeltaBeta"
  /\ measure' = [block |-> CurrentBlock,
                 sound |-> /\ run.onReference /\ calib.valid /\ ~data
                           /\ CurrentBlock \notin calib.corrected]
  /\ IF run.usingICU /\ run.detect
     THEN /\ db' = [db EXCEPT ![entry].valid = TRUE]
          /\ gStartBpd' = TRUE /\ UNCHANGED <<bpd, bpMap>>
          /\ state' = "DetectBadPixels"
     ELSE /\ UNCHANGED <<db, detection>>
          /\ state' = AfterDetection
  /\ computeUnchanged
  /\ UNCHANGED <<error, run, entry, hasCurrent, calibration, icu>>

ApplyBadPixelMap ==
  /\ state = "ApplyBadPixelMap"
  /\ state' = "ComputeDeltaBetaStats"
  /\ computeUnchanged
  /\ UNCHANGED <<error, run, deltas, detection, calibration, icu>>

ComputeDeltaBetaStats ==
  /\ state = "ComputeDeltaBetaStats"
  /\ state' = "QuantizeDeltaBeta"
  /\ computeUnchanged
  /\ UNCHANGED <<error, run, deltas, detection, calibration, icu>>

QuantizeDeltaBeta ==
  /\ state = "QuantizeDeltaBeta"
  /\ db' = [db EXCEPT ![entry].data = measure]
  /\ gWrite' = TRUE
  /\ To("WriteActualizationFile")
  /\ UNCHANGED <<run, entry, hasCurrent, measure, detection, writer, fd, registers,
                 calibration, acquisition, icu>>

-----------------------------------------------------------------------------
(* BadPixelDetection_SM, called in ACT_DetectBadPixels.                    *)

bpdUnchanged == UNCHANGED <<gStart, gStop, waiting, allowStart, saved, run, hasCurrent,
                            measure, writing, registers, load, data>>

BpdTo(s) ==
  bpd' = s /\ UNCHANGED <<gStartBpd, bpMap, state, error, allowUpdate>>

BPD_Idle ==
  /\ bpd = "Idle" /\ gStartBpd
  /\ gStartBpd' = FALSE /\ bpMap' = FALSE
  /\ MoveICU("calib")
  /\ entry' = IF Matching(CurrentBlock) = Null THEN entry ELSE Matching(CurrentBlock)
  /\ bpd' = IF Matching(CurrentBlock) # Null /\ db[entry'].valid
            THEN "UpdateBeta" ELSE "StartAcquisition"
  /\ UNCHANGED <<state, error, allowUpdate, db, calib, acquisition>>

(* BPD_ComputeDeltaBetaStats and BPD_UpdateBeta: the loaded calibration is *)
(* corrected.                                                              *)
BPD_UpdateBeta ==
  /\ bpd = "UpdateBeta"
  /\ calib' = [calib EXCEPT !.corrected = @ \cup {CurrentBlock}]
  /\ BpdTo("StartAcquisition")
  /\ UNCHANGED <<db, entry, acquisition, icu>>

BPD_StartAcquisition ==
  /\ bpd = "StartAcquisition" /\ ~started
  /\ StartAcquisition
  /\ BpdTo("WaitSequenceReady")
  /\ UNCHANGED <<db, entry, calib, icu>>

BPD_WaitSequenceReady ==
  /\ bpd = "WaitSequenceReady" /\ started
  /\ BpdTo("FinalizeSequence")
  /\ UNCHANGED <<db, entry, calib, acquisition, icu>>

BPD_FinalizeSequence ==
  /\ bpd = "FinalizeSequence"
  /\ StopAcquisition
  /\ IF started THEN BpdTo(bpd) /\ UNCHANGED icu
                ELSE BpdTo("UpdateBPMap") /\ MoveICU("scene")
  /\ UNCHANGED <<db, entry, calib>>

(* BPD_ComputeStatistics to BPD_UpdateBPMap                                *)
BPD_UpdateBPMap ==
  /\ bpd = "UpdateBPMap"
  /\ bpMap' = TRUE
  /\ MoveICU("scene")
  /\ bpd' = "Idle"
  /\ state' = AfterDetection
  /\ UNCHANGED <<gStartBpd, error, allowUpdate, db, entry, calib, acquisition>>

(* A time-out, a sequence too short, too many bad pixels.                  *)
BPD_Fails ==
  /\ bpd \in {"StartAcquisition", "WaitSequenceReady", "FinalizeSequence", "UpdateBPMap"}
  /\ bpd = "StartAcquisition" => started
  /\ bpd = "FinalizeSequence" => ~started
  /\ bpMap' = FALSE
  /\ allowUpdate' = TRUE
  /\ MoveICU("scene")
  /\ StopAcquisition
  /\ bpd' = "Idle"
  /\ error' = TRUE
  /\ UNCHANGED <<gStartBpd, state, db, entry, calib>>

DetectBadPixels ==
  /\ state = "DetectBadPixels"
  /\ \/ BPD_Idle \/ BPD_UpdateBeta \/ BPD_StartAcquisition \/ BPD_WaitSequenceReady
     \/ BPD_FinalizeSequence \/ BPD_UpdateBPMap \/ BPD_Fails
  /\ bpdUnchanged

-----------------------------------------------------------------------------
(* ActualizationFileWriter_SM, called in ACT_WriteActualizationFile.       *)

writeUnchanged == UNCHANGED <<gStart, gStop, waiting, allowStart, allowUpdate, saved,
                              entry, hasCurrent, measure, detection, registers,
                              calibration, acquisition, icu>>

FWR_Idle ==
  /\ writer = "IDLE" /\ gWrite
  /\ gWrite' = FALSE
  /\ writer' = "DELETE_PREVIOUS"
  /\ UNCHANGED <<fd, state, error, run, db>>

(* FWR_DELETE_PREVIOUS and FWR_INIT_IO, in one call.                       *)
FWR_InitIO ==
  /\ writer = "DELETE_PREVIOUS"
  /\ fd' = "open"
  /\ writer' = "FILE_HEADER"
  /\ UNCHANGED <<gWrite, state, error, run, db>>

(* FWR_FILE_HEADER to FWR_DATA_HEADER, and FWR_DATA                        *)
FWR_Write ==
  /\ writer \in {"FILE_HEADER", "DATA"}
  /\ writer' = IF writer = "FILE_HEADER" THEN "DATA" ELSE "CLOSEFILE"
  /\ UNCHANGED <<fd, gWrite, state, error, run, db>>

(* The error path closes whatever the descriptor was.                      *)
FWR_Fails ==
  /\ "writeError" \in Faults
  /\ writer # "IDLE"
  /\ fd' = IF fd = "none" THEN fd ELSE "closed"
  /\ writer' = "IDLE"
  /\ error' = TRUE
  /\ UNCHANGED <<gWrite, state, run, db>>

(* Mutant: the next block is not taken.                                    *)
Bug_FWR_CloseFile ==
  /\ writer = "CLOSEFILE"
  /\ fd' = "closed"
  /\ writer' = "IDLE"
  /\ db' = [db EXCEPT ![entry].valid = TRUE]
  /\ state' = IF run.blockIdx >= run.actBlocks THEN "Finalize"
              ELSE IF run.sync THEN "InitComputation" ELSE "WaitForCalibData"
  /\ UNCHANGED <<gWrite, error, run>>

(* FWR_CLOSEFILE, and what follows in ACT_WriteActualizationFile: the      *)
(* entry becomes valid, and the next block is taken.                       *)
FWR_CloseFile ==
  /\ writer = "CLOSEFILE"
  /\ fd' = "closed"
  /\ writer' = "IDLE"
  /\ db' = [db EXCEPT ![entry].valid = TRUE]
  /\ run' = [run EXCEPT !.blockIdx = @ + 1]
  /\ state' = IF run.blockIdx >= run.actBlocks THEN "Finalize"
              ELSE IF run.sync THEN "InitComputation" ELSE "WaitForCalibData"
  /\ UNCHANGED <<gWrite, error>>

WriteActualizationFile ==
  /\ state = "WriteActualizationFile"
  /\ FWR_Idle \/ FWR_InitIO \/ FWR_Write \/ FWR_Fails \/ FWR_CloseFile
  /\ writeUnchanged

-----------------------------------------------------------------------------
Finalize ==
  /\ state = "Finalize"
  /\ run.usingICU => icuPos = "scene"
  /\ Reverts
  /\ db' = IF run.usingICU THEN Invalidated(db, {"XBB"}) ELSE db
  /\ UNCHANGED <<error, gStart, gStop, allowStart, saved, run, entry, hasCurrent,
                 measure, detection, writing, acquisition, icu>>

(* The tail of the call: what an error or an interruption leaves.          *)
EndOfCall ==
  /\ turn = "tail"
  /\ turn' = "calibration"
  /\ IF error \/ gStop
     THEN /\ error' = FALSE /\ gStop' = FALSE
          /\ Reverts
          /\ db' = IF hasCurrent THEN [db EXCEPT ![entry].valid = FALSE] ELSE db
          /\ MoveICU("scene")
          /\ StopAcquisition
          /\ UNCHANGED <<gStart, allowStart, saved, run, entry, hasCurrent, measure>>
     ELSE UNCHANGED <<process, deltas, registers, calibration, acquisition, icu>>
  /\ UNCHANGED <<detection, writing, power, wanted, disturbed>>

(* Otherwise a timer runs or a computation goes on.                        *)
MustAdvance ==
  \/ state \in {"Idle", "Start", "ConfigCamera", "InitComputation"}
  \/ state = "WaitForCalibData" /\ ~data
  \/ state = "TransitionICU" /\ icuPos # "transition"
  \/ state \in {"StartAECAcquisition", "WaitAcquisitionReady"} /\ CameraReady
  \/ state = "StartAEC" /\ started
  \/ state = "Finalize" /\ (run.usingICU => icuPos = "scene")

Waits ==
  /\ ~MustAdvance
  /\ UNCHANGED <<process, deltas, detection, writing, registers, calibration,
                 acquisition, icu>>

Correction ==
  /\ turn = "correction"
  /\ turn' = "tail"
  /\ \/ Idle \/ Start \/ WaitForCalibData \/ TransitionICU \/ WaitICU \/ StabilizeICU
     \/ ConfigCamera \/ StartAECAcquisition \/ StartAEC \/ StopAECAcquisition
     \/ WaitAcquisitionReady \/ StartSequence \/ WaitSequenceReady \/ FinalizeSequence
     \/ InitComputation \/ ComputeAveragedImage \/ ComputeBlackBodyFCal
     \/ ComputeDeltaBeta \/ DetectBadPixels \/ ApplyBadPixelMap
     \/ ComputeDeltaBetaStats \/ QuantizeDeltaBeta \/ WriteActualizationFile
     \/ Finalize \/ Waits
  /\ UNCHANGED <<power, wanted, disturbed>>

-----------------------------------------------------------------------------
(* Calibration_SM, as far as the process sees it: the status bit, the      *)
(* calibration invalid while it is loaded, and the blocks corrected in     *)
(* passing.                                                                *)

calUnchanged == UNCHANGED <<process, hasCurrent, measure, db, detection, writing,
                            registers, acquisition, icu, power, wanted, disturbed>>

CalStart ==
  /\ load # Null /\ ~data
  /\ data' = TRUE
  /\ calib' = [valid |-> FALSE, file |-> <<>>, corrected |-> {}]
  /\ UNCHANGED <<load, entry>>

(* CMS_LOAD_PIXEL_DATA, ACT_shouldUpdateCurrentCalibration and             *)
(* CMS_UPDATE_PIXEL_DATA                                                   *)
CalBlock ==
  LET next == load[Len(calib.file) + 1]
      found == Suitable(next)
  IN /\ load # Null /\ data /\ Len(calib.file) < Len(load)
     /\ entry' = IF found = Null THEN entry ELSE found
     /\ calib' = [calib EXCEPT
          !.file = Append(@, next),
          !.corrected = IF found # Null /\ allowUpdate /\ ~waiting THEN @ \cup {next} ELSE @]
     /\ UNCHANGED <<load, data>>

CalDone ==
  /\ data /\ calib.file = load
  /\ calib' = [calib EXCEPT !.valid = TRUE]
  /\ data' = FALSE /\ load' = Null
  /\ entry' = EntryAfterSearch(load)

(* CMS_ERROR                                                               *)
CalFail ==
  /\ data /\ "badLoad" \in Faults
  /\ calib' = [calib EXCEPT !.valid = FALSE]
  /\ data' = FALSE /\ load' = Null
  /\ UNCHANGED entry

CalWaits ==
  /\ load = Null \/ (~data /\ "heldLoad" \in Faults) \/ (data /\ "slowLoad" \in Faults)
  /\ UNCHANGED <<calibration, entry>>

CalibrationTurn ==
  /\ turn = "calibration"
  /\ turn' = "acquisition"
  /\ CalStart \/ CalBlock \/ CalDone \/ CalFail \/ CalWaits
  /\ calUnchanged

-----------------------------------------------------------------------------
(* Acquisition_SM of a detector that is not an SCD one.                    *)

acqUnchanged == UNCHANGED <<process, hasCurrent, measure, writing, registers, icu, wanted,
                          disturbed>>

(* The camera is switched off, and Power_SM sees it: no correction stays,  *)
(* and the calibration is loaded again.                                    *)
AcqOff ==
  /\ acq = "STOPPED" /\ power = "InTransition"
  /\ power' = "Standby"
  /\ acq' = "OFF"
  /\ stop' = FALSE /\ started' = FALSE /\ UNCHANGED <<start, byCorrection>>
  /\ IF calib.valid
     THEN /\ db' = Invalidated(db, {"ICU", "XBB"})
          /\ bpMap' = FALSE
          /\ LoadFile(calib.file)
     ELSE UNCHANGED <<db, bpMap, calibration>>
  /\ UNCHANGED <<entry, bpd, gStartBpd>>

acqOnly == UNCHANGED <<power, db, calibration, detection>>

(* A stop is dropped; a start arms the detector if the registers are good. *)
AcqStopped ==
  /\ acq = "STOPPED" /\ power # "InTransition"
  /\ stop' = FALSE /\ started' = FALSE
  /\ IF start
     THEN \E verified \in BOOLEAN :
            /\ acq' = IF verified THEN "WAITING" ELSE acq
            /\ start' = verified
            /\ entry' = IF verified THEN EntryAfterSearch(calib.file) ELSE entry
     ELSE UNCHANGED <<acq, start, entry>>
  /\ UNCHANGED byCorrection
  /\ acqOnly

AcqWaiting ==
  /\ acq = "WAITING"
  /\ acq' \in {"WAITING", "READY"}
  /\ UNCHANGED <<start, stop, started, byCorrection, entry>>
  /\ acqOnly

(* AllowAcquisitionStart and actualisationAcqStartReady                    *)
MayStart == /\ CameraReady /\ calib.valid
            /\ allowStart \/ ~waiting

AcqReady ==
  /\ acq = "READY"
  /\ start' = FALSE /\ stop' = FALSE
  /\ \E verified \in BOOLEAN :
       acq' = IF stop THEN "STOPPED"
              ELSE IF start /\ verified /\ MayStart THEN "STARTED" ELSE acq
  /\ UNCHANGED <<started, byCorrection, entry>>
  /\ acqOnly

AcqStarted ==
  /\ acq = "STARTED"
  /\ acq' = IF stop THEN "STOPPED" ELSE acq
  /\ started' = (started \/ ~stop)
  /\ stop' = FALSE
  /\ UNCHANGED <<start, byCorrection, entry>>
  /\ acqOnly

AcqIsOff == acq = "OFF" /\ UNCHANGED <<acquisition, entry>> /\ acqOnly

AcquisitionTurn ==
  /\ turn = "acquisition"
  /\ turn' = "correction"
  /\ AcqOff \/ AcqStopped \/ AcqWaiting \/ AcqReady \/ AcqStarted \/ AcqIsOff
  /\ acqUnchanged

-----------------------------------------------------------------------------
(* The host, the debug terminal and the power manager, served between two  *)
(* rounds of the machines; most commands are locked during a correction.   *)

(* GC_ImageCorrectionCallback and startActualization                       *)
HostCorrect ==
  /\ ~waiting /\ ~started
  /\ start => "startRace" \in Faults
  /\ gStart' = TRUE /\ waiting' = TRUE
  /\ mode' \in Modes
  /\ UNCHANGED <<state, error, gStop, allowStart, allowUpdate, saved, run, regs, backup,
                 calibration, acquisition, icu, power, wanted>>

(* stopActualization                                                       *)
DebugStop ==
  /\ "stop" \in Faults
  /\ gStop' = TRUE
  /\ UNCHANGED <<state, error, gStart, waiting, allowStart, allowUpdate, saved, run,
                 registers, calibration, acquisition, icu, power, wanted>>

HostLoad ==
  /\ ~waiting /\ ~started /\ load = Null
  /\ \E c \in Collections : load' = c /\ wanted' = c
  /\ UNCHANGED <<process, registers, calib, data, acquisition, icu, power>>

HostStart ==
  /\ ~waiting /\ CameraReady
  /\ start' = TRUE /\ byCorrection' = FALSE
  /\ UNCHANGED <<process, registers, calibration, acq, stop, started, icu, power, wanted>>

HostStop ==
  /\ ~waiting
  /\ stop' = TRUE
  /\ UNCHANGED <<process, registers, calibration, acq, start, started, byCorrection, icu,
                 power, wanted>>

(* The host changes a register a correction saves and restores.            *)
HostWrite ==
  /\ ~waiting /\ backup = "user"
  /\ backup' = "old"
  /\ UNCHANGED <<process, regs, mode, calibration, acquisition, icu, power, wanted>>

(* GC_ICUPositionSetpointCallback                                          *)
HostMovesICU ==
  /\ "icuMoved" \in Faults /\ ~started
  /\ \E p \in {"scene", "calib"} : MoveICU(p)
  /\ UNCHANGED <<process, registers, calibration, acquisition, power, wanted>>

(* ICU_getCurrentState: the position is read back.                         *)
IcuArrives ==
  /\ icuPos = "transition"
  /\ icuPos' = icuSet
  /\ UNCHANGED <<process, registers, calibration, acquisition, icuSet, power, wanted>>

PowerOff ==
  /\ "power" \in Faults /\ power = "On"
  /\ power' = "InTransition"
  /\ stop' = TRUE
  /\ UNCHANGED <<process, registers, calibration, acq, start, started, byCorrection, icu, wanted>>

(* ImageCorrectionAtPowerOn may ask for a correction.                      *)
PowerOn ==
  /\ power = "Standby"
  /\ power' = "On" /\ acq' = "STOPPED"
  /\ \E atPowerOn \in BOOLEAN :
       IF atPowerOn /\ "ICU" \in Modes
       THEN /\ mode' = "ICU"
            /\ gStart' = (gStart \/ ~waiting)
            /\ waiting' = TRUE
       ELSE UNCHANGED <<mode, gStart, waiting>>
  /\ UNCHANGED <<state, error, gStop, allowStart, allowUpdate, saved, run, regs, backup,
                 calibration, start, stop, started, byCorrection, icu, wanted>>

Disturbance ==
  /\ disturbed < MaxDisturbances
  /\ disturbed' = disturbed + 1
  /\ DebugStop \/ HostMovesICU \/ PowerOff

Command ==
  /\ turn = "calibration"
  /\ \/ Disturbance
     \/ /\ \/ HostCorrect \/ HostLoad \/ HostStart \/ HostStop \/ HostWrite
           \/ IcuArrives \/ PowerOn
        /\ UNCHANGED disturbed
  /\ UNCHANGED <<turn, deltas, detection, writing>>

-----------------------------------------------------------------------------
Init ==
  /\ turn = "calibration"
  /\ state = "Idle" /\ error = FALSE
  /\ gStart = FALSE /\ gStop = FALSE /\ waiting = FALSE
  /\ allowStart = FALSE /\ allowUpdate = TRUE
  /\ mode \in Modes
  /\ saved = Null
  /\ run = [usingICU |-> FALSE, sync |-> FALSE, actBlocks |-> 0, blockIdx |-> 1,
            icuPhase |-> 0, detect |-> FALSE, onReference |-> FALSE]
  /\ db = <<>> /\ entry = Null /\ hasCurrent = FALSE /\ measure = NoData
  /\ bpd = "Idle" /\ gStartBpd = FALSE /\ bpMap = FALSE
  /\ writer = "IDLE" /\ gWrite = FALSE /\ fd = "none"
  /\ regs = "user" /\ backup = "none"
  /\ wanted \in Collections
  /\ calib = [valid |-> TRUE, file |-> wanted, corrected |-> {}]
  /\ load = Null /\ data = FALSE
  /\ acq = "STOPPED" /\ start = FALSE /\ stop = FALSE
  /\ started = FALSE /\ byCorrection = FALSE
  /\ icuSet = "scene" /\ icuPos = "scene"
  /\ power = "On"
  /\ disturbed = 0

Next == CalibrationTurn \/ AcquisitionTurn \/ Correction \/ EndOfCall \/ Command

(* The loop turns; timers expire, computations, writings and loads end;    *)
(* a sensor gets ready; the ICU arrives.                                   *)
Progress == Correction /\ <<state, bpd, writer, error, stop>>' # <<state, bpd, writer, error, stop>>
Fairness ==
  /\ WF_vars(CalibrationTurn) /\ WF_vars(AcquisitionTurn)
  /\ WF_vars(Correction) /\ WF_vars(EndOfCall)
  /\ SF_vars(Progress)
  /\ SF_vars(AcquisitionTurn /\ acq' = "READY")
  /\ SF_vars(Command /\ icuPos = "transition" /\ icuPos' # icuPos /\ UNCHANGED icuSet)

Spec == Init /\ [][Next]_vars
FairSpec == Spec /\ Fairness

-----------------------------------------------------------------------------
(* Types.                                                                  *)
States == {"Idle", "Start", "WaitForCalibData", "TransitionICU", "WaitICU", "StabilizeICU",
           "ConfigCamera", "StartAECAcquisition", "StartAEC", "StopAECAcquisition",
           "WaitAcquisitionReady", "StartAcquisition", "WaitSequenceReady",
           "FinalizeSequence", "InitComputation", "ComputeAveragedImage",
           "ComputeBlackBodyFCal", "ComputeDeltaBeta", "DetectBadPixels",
           "ApplyBadPixelMap", "ComputeDeltaBetaStats", "QuantizeDeltaBeta",
           "WriteActualizationFile", "Finalize"}
Data == [block : AllBlocks \cup {Null}, sound : BOOLEAN]
Runs == [usingICU : BOOLEAN, sync : BOOLEAN, actBlocks : Nat, blockIdx : Nat \ {0},
         icuPhase : 0..2, detect : BOOLEAN, onReference : BOOLEAN]
Infos == [valid : BOOLEAN, file : Calibrations, corrected : SUBSET (AllBlocks \cup {Null})]
Entries == [block : AllBlocks \cup {Null}, type : {"ICU", "XBB"}, valid : BOOLEAN, data : Data]

Flags == {error, gStart, gStop, waiting, allowStart, allowUpdate, hasCurrent, gStartBpd, bpMap,
          gWrite, data, start, stop, started, byCorrection}

Values ==
  /\ turn \in {"calibration", "acquisition", "correction", "tail"} /\ state \in States
  /\ mode \in Modes /\ saved \in Calibrations \cup {Null}
  /\ run \in Runs
  /\ db \in Seq(Entries) /\ Len(db) <= MaxEntries /\ entry \in {Null} \cup DOMAIN db
  /\ measure \in Data
  /\ bpd \in {"Idle", "UpdateBeta", "StartAcquisition", "WaitSequenceReady",
              "FinalizeSequence", "UpdateBPMap"}
  /\ writer \in {"IDLE", "DELETE_PREVIOUS", "FILE_HEADER", "DATA", "CLOSEFILE"}
  /\ fd \in {"none", "open", "closed"}
  /\ regs \in {"user", "correction", "lost"} /\ backup \in {"none", "user", "old"}
  /\ calib \in Infos
  /\ load \in Calibrations \cup {Null} /\ wanted \in Collections
  /\ acq \in {"OFF", "STOPPED", "WAITING", "READY", "STARTED"}
  /\ icuSet \in {"scene", "calib"} /\ icuPos \in {icuSet, "transition"}
  /\ power \in {"On", "InTransition", "Standby"} /\ disturbed \in Nat

TypeOK == Values /\ Flags \subseteq BOOLEAN

AtRest == state = "Idle" /\ ~gStart /\ ~waiting /\ turn = "calibration"

(* However a correction ends, the registers it has changed have again the  *)
(* values the host gave them (ACT_backupGCRegisters and ACT_restore...).   *)
RegistersRestored == AtRest => regs = "user"

(* No acquisition the process started outlives it: the camera is not left  *)
(* acquiring, or about to, for nobody.                                     *)
NoStrayAcquisition ==
  AtRest /\ byCorrection /\ (start \/ acq = "STARTED") => stop

(* An entry that may be applied was computed for the block it names, from  *)
(* images of the reference and a calibration not yet corrected, however    *)
(* corrections of other blocks failed or recycled entries before.  The bad *)
(* pixel detection makes its entry valid before it is quantized.           *)
Quantizing == state \in {"DetectBadPixels", "ApplyBadPixelMap", "ComputeDeltaBetaStats",
                         "QuantizeDeltaBeta"}
ValidIsSound ==
  ~Quantizing /\ ~error =>
    \A i \in DOMAIN db :
      db[i].valid => db[i].data = [block |-> db[i].block, sound |-> TRUE]

(* At rest the camera applies the corrections that are valid, to the       *)
(* blocks they suit and to no other.                                       *)
AppliedUpToDate ==
  AtRest /\ load = Null /\ calib.valid =>
    calib.corrected = {b \in BlocksIn(calib.file) : Suitable(b) # Null}

(* At rest the camera serves the collection the host asked for, not the    *)
(* reference block a correction loaded.                                    *)
CalibrationRestored ==
  AtRest /\ load = Null /\ calib.valid => calib.file = wanted

(* The host is locked out (and the camera busy) for no other reason than a *)
(* correction that is pending or runs, whatever interrupts it.             *)
BusyIsExplained == waiting => gStart \/ state # "Idle"

(* No file stays open after a correction.                                  *)
NoDescriptorLeak == AtRest => fd # "open"

(* What the process relies on of the calibration manager is the contract   *)
(* that CalibrationManager keeps.                                          *)
Phase == IF load = Null THEN "free" ELSE IF data THEN "loading" ELSE "pending"
Served == IF calib.valid THEN calib.file ELSE Null

Contract == INSTANCE CalibrationContract WITH
  None <- Null, phase <- Phase, asked <- load, served <- Served

KeepsContract == Contract!Spec

(* What it relies on of the acquisition machine is the contract that       *)
(* CameraPower keeps, and it takes no command of another back.             *)
AcqRun == IF acq = "STARTED" THEN "on" ELSE IF acq \in {"WAITING", "READY"} THEN "armed" ELSE "off"

Commands == INSTANCE AcquisitionContract WITH run <- AcqRun, reported <- started

ObeysCommands == Commands!Spec

(* A correction does not go round for ever: from its start to its end, no  *)
(* step of a machine takes it back, whatever the host does meanwhile, and  *)
(* each block, each state of the bad pixel detection and each state of the *)
(* writer is gone through once.                                            *)
Running == state \notin {"Idle", "Start"}
BlocksLeft == IF run.blockIdx < run.actBlocks THEN run.actBlocks - run.blockIdx ELSE 0

OrderOfStates == [WaitForCalibData |-> 40, ConfigCamera |-> 33, StartAECAcquisition |-> 32,
  StartAEC |-> 31, StopAECAcquisition |-> 30, WaitAcquisitionReady |-> 29, StartAcquisition |-> 28,
  WaitSequenceReady |-> 27, FinalizeSequence |-> 26, InitComputation |-> 25,
  ComputeAveragedImage |-> 24, ComputeBlackBodyFCal |-> 23, ComputeDeltaBeta |-> 22,
  ApplyBadPixelMap |-> 13, ComputeDeltaBetaStats |-> 12, QuantizeDeltaBeta |-> 11, Finalize |-> 1]
StepsOfICU == [TransitionICU |-> 3, WaitICU |-> 2, StabilizeICU |-> 1]
StepsOfDetection == [Idle |-> 6, UpdateBeta |-> 5, StartAcquisition |-> 4,
  WaitSequenceReady |-> 3, FinalizeSequence |-> 2, UpdateBPMap |-> 1]
StepsOfWriter == [IDLE |-> 5, DELETE_PREVIOUS |-> 4, FILE_HEADER |-> 3, DATA |-> 2, CLOSEFILE |-> 1]

(* How many steps the block being corrected is from the end of the process *)
(* in state s, with the phase of the ICU, the detection in state d and the *)
(* writer in state w.                                                      *)
StepsOf(s, phase, d, w) ==
  CASE s \in {"TransitionICU", "WaitICU", "StabilizeICU"} ->
         StepsOfICU[s] + IF phase = 1 THEN 36 ELSE 33
    [] s = "DetectBadPixels" -> 13 + StepsOfDetection[d]
    [] s = "WriteActualizationFile" -> 2 + StepsOfWriter[w]
    [] OTHER -> OrderOfStates[s]

StepsLeft == StepsOf(state, run.icuPhase, bpd, writer)

Advances ==
  \/ ~Running' \/ (error' /\ ~error)
  \/ BlocksLeft' < BlocksLeft
  \/ BlocksLeft' = BlocksLeft /\ StepsLeft' < StepsLeft
CorrectionIsFinite ==
  [][Running => Advances \/ UNCHANGED <<state, bpd, writer, run>>]_vars

(* A correction the host asked for ends.                                   *)
CorrectionEnds == waiting ~> ~waiting
-----------------------------------------------------------------------------
(* The inductive invariant, in parts.  Each needs some of the faults left  *)
(* out: none of them survives every fault.                                 *)

(* A correction that runs has locked the host out, and an error is dealt   *)
(* with in the call it happens in.                                         *)
LockedOut ==
  /\ ~gStop
  /\ gStart \/ state # "Idle" => waiting
  /\ state # "Idle" => ~gStart
  /\ error => turn = "tail" /\ state # "Idle"

(* The registers are saved before they are changed, and the copy is theirs *)
(* until it is restored.                                                   *)
RegistersKept ==
  /\ state = "Idle" \/ (state = "Start" /\ ~error) => regs = "user"
  /\ state \notin {"Idle", "Start"} \/ error => backup = "user"

(* The writer has a file open only while it is called, and no error leaves *)
(* it at work.                                                             *)
FilesClosed ==
  /\ fd = "open" => writer # "IDLE"
  /\ writer # "IDLE" => state = "WriteActualizationFile" /\ ~error

(* The states in which the process has given a start, and those in which   *)
(* it has seen the acquisition run and stops it.                           *)
Expecting ==
  \/ state \in {"StartAEC", "WaitSequenceReady"}
  \/ state = "DetectBadPixels" /\ bpd = "WaitSequenceReady"
Stopping ==
  \/ state \in {"StopAECAcquisition", "FinalizeSequence"}
  \/ state = "DetectBadPixels" /\ bpd = "FinalizeSequence"

(* What Acquisition_SM makes of a command: a start of the process is taken *)
(* or refused by the next call, a stop is only lost when nothing runs.     *)
CommandsServed ==
  /\ power = "On" /\ acq \in {"STOPPED", "WAITING", "READY", "STARTED"}
  /\ acq = "WAITING" => start
  /\ started => acq \in {"STARTED", "STOPPED"}
  /\ byCorrection /\ acq = "STOPPED" /\ turn = "correction" => ~start
  /\ error /\ acq = "STOPPED" => ~start
  /\ byCorrection /\ acq = "STARTED" => ~start
  /\ bpd # "Idle" => state = "DetectBadPixels" /\ ~error

(* When an acquisition may run, or be about to, state by state.            *)
OwnAcquisition ==
  /\ state = "Idle" /\ ~waiting /\ byCorrection =>
       /\ start \/ acq = "STARTED" => stop
       /\ acq = "STOPPED" => ~start
  /\ state = "Idle" /\ waiting =>
       /\ ~start
       /\ acq = "STARTED" => started \/ turn \in {"calibration", "acquisition"}
  /\ state = "Start" /\ ~error => ~start /\ (acq = "STARTED" => started)
  /\ Expecting \/ Stopping => byCorrection
  /\ Stopping => ~start
  /\ ~Expecting /\ ~Stopping /\ state \notin {"Idle", "Start"} /\ ~error =>
       ~start /\ (acq = "STARTED" => stop /\ turn # "correction")

(* A load begins at the next call of the calibration manager and ends, and *)
(* the process knows which collection to load again.                       *)
CollectionKept ==
  /\ turn \in {"acquisition", "correction"} /\ load # Null => data
  /\ data => load # Null /\ ~calib.valid
  /\ state = "Idle" =>
       /\ load # Null => load = wanted
       /\ calib.valid /\ load = Null => calib.file = wanted
  /\ state = "Start" /\ ~error => load = Null /\ calib.valid /\ calib.file = wanted
  /\ state \notin {"Idle", "Start"} \/ error => saved = wanted
  /\ state \notin {"Idle", "Start", "WaitForCalibData"} \/ error => load = Null

(* While no correction is pending, the blocks read so far of a calibration *)
(* have been corrected, or a load is about to read it again.               *)
AppliedSoFar ==
  /\ state = "Idle" => allowUpdate
  /\ state = "Idle" /\ ~waiting =>
       \/ calib.corrected = {b \in BlocksIn(calib.file) : Suitable(b) # Null}
       \/ load # Null /\ ~data

(* The calibration a correction has loaded: the reference block, or a      *)
(* collection that has the block to correct, and all of them if it is to   *)
(* correct several.                                                        *)
Right(file) ==
  /\ IF run.usingICU THEN file = <<IcuBlock>> ELSE BlocksIn(file) \subseteq Blocks
  /\ run.actBlocks # 1 => Len(file) = run.actBlocks
  /\ state # "Finalize" => run.blockIdx <= Len(file)

Acquired == {"FinalizeSequence", "InitComputation", "ComputeAveragedImage",
             "ComputeBlackBodyFCal", "ComputeDeltaBeta", "WriteActualizationFile"} \cup
            {"DetectBadPixels", "ApplyBadPixelMap", "ComputeDeltaBetaStats", "QuantizeDeltaBeta"}
AfterMeasure == {"DetectBadPixels", "ApplyBadPixelMap", "ComputeDeltaBetaStats",
                 "QuantizeDeltaBeta", "WriteActualizationFile", "Finalize"}

(* The right calibration, not corrected yet, is what images are taken with *)
(* and computed from.                                                      *)
PlainCalibration ==
  state \notin {"Idle", "Start"} /\ ~error =>
    /\ load # Null => Right(load)
    /\ load = Null /\ calib.valid => Right(calib.file)
    /\ data \/ (load = Null /\ (run.usingICU => state \notin AfterMeasure)) =>
         calib.corrected = {}
    /\ (Expecting /\ (started \/ acq = "STARTED")) \/ Stopping \/ state \in Acquired =>
         calib.valid

(* The ICU is in front of the detector while its images are taken.         *)
OnReference ==
  /\ run.usingICU /\ state \notin {"Idle", "Start"} => "ICU" \in Modes /\ IcuBlock # Null
  /\ state \in {"TransitionICU", "WaitICU", "StabilizeICU"} =>
       run.usingICU /\ (run.icuPhase = 1 \/ icuSet = "calib")
  /\ state \in {"WaitICU", "StabilizeICU"} => icuPos # "transition"
  /\ state \in {"ConfigCamera", "StartAECAcquisition", "StartAEC", "StopAECAcquisition",
                "WaitAcquisitionReady", "StartAcquisition", "WaitSequenceReady"} =>
       (run.usingICU => icuPos = "calib")
  /\ state \in Acquired => run.onReference
  /\ state = "DetectBadPixels" => run.usingICU

(* An entry per block, and those of the ICU are of its block.              *)
EntriesDistinct ==
  /\ \A i, j \in DOMAIN db : db[i].block = db[j].block => i = j
  /\ \A i \in DOMAIN db : db[i].type = "ICU" <=> db[i].block = IcuBlock

(* The entry under computation stays the one that was allocated.           *)
EntryKept ==
  /\ state \in Acquired \ {"FinalizeSequence", "InitComputation"} =>
       /\ hasCurrent /\ entry \in DOMAIN db
       /\ db[entry].block = CurrentBlock
       /\ Quantizing => measure = [block |-> CurrentBlock, sound |-> TRUE]
       /\ state = "WriteActualizationFile" =>
            db[entry].data = [block |-> CurrentBlock, sound |-> TRUE]
       /\ state = "DetectBadPixels" => db[entry].valid
  /\ \A i \in DOMAIN db :
       db[i].valid /\ ~(i = entry /\ Quantizing) =>
         db[i].data = [block |-> db[i].block, sound |-> TRUE]

IInv ==
  /\ TypeOK /\ LockedOut /\ RegistersKept /\ FilesClosed
  /\ CommandsServed /\ OwnAcquisition
  /\ CollectionKept /\ AppliedSoFar
  /\ PlainCalibration /\ OnReference /\ EntriesDistinct /\ EntryKept
=============================================================================
