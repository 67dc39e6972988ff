------------------------- MODULE CalibrationManager -------------------------
(***************************************************************************)
(* Loading a calibration from the flash: Calibration_SM of sw/Calibration.c *)
(* over the file database of sw/FileManager.c, while File_Manager_SM goes  *)
(* through the collection files and serves the requests of a client that   *)
(* uploads, deletes or formats.  Each call of a state machine from the     *)
(* main loop is one step; the many calls that read one block file are one. *)
(*                                                                         *)
(* A file is known by its POSIX time.  A record of the database is a slot: *)
(* pointers to it are kept across calls, and a slot that was cleared is    *)
(* given to the next file.  List order keys are not set, so files are      *)
(* added at the end of a list.                                             *)
(***************************************************************************)
EXTENDS Naturals, Sequences, FiniteSets

CONSTANTS
  Collections, Blocks,  \* the calibration files, by POSIX time
  Null,                 \* the null pointer, and the POSIX time 0
  BlocksOf,             \* the blocks a collection file lists
  Bad,                  \* the files that cannot be parsed
  NumSlots,             \* FM_MAX_NUM_FILE
  OnFlash,              \* the files on the flash at boot
  Requests,             \* what the client asks: "create", "delete", "format"
  ChecksFail             \* a flash read may fail

Files == Collections \cup Blocks
Slots == 1..NumSlots

ASSUME CalibrationAssumption ==
  /\ Null \notin Files /\ Null \notin Slots
  /\ Collections \cap Blocks = {}
  /\ BlocksOf \in [Collections -> Seq(Blocks) \ {<<>>}]
  /\ Bad \subseteq Files
  /\ NumSlots \in Nat
  /\ OnFlash \in Seq(Files) /\ Len(OnFlash) <= NumSlots
  /\ \A i, j \in DOMAIN OnFlash : OnFlash[i] = OnFlash[j] => i = j
  /\ Requests \subseteq {"create", "delete", "format"}
  /\ ChecksFail \in BOOLEAN

VARIABLES
  fileDB,        \* gFM_fileDB: the file each record names, or Null
  closed,        \* the records with isClosed set
  collections,   \* gFM_collections
  blocks,        \* gFM_calibrationBlocks
  filled,        \* the records whose info.collection has been filled
  collectionIdx, \* gCollectionIdx
  fm,            \* File_Manager_SM's state: "fillCollection" or "waiting"
  cm,            \* cmCurrentState
  cmLoad,        \* cmLoadCalibration
  cmFile,        \* cmCalibrationFile
  blockFiles,    \* blockFiles
  blockIndex,    \* blockIndex, from 1
  fd,            \* fdCalib: "none" (-1), "open" or "stale"
  info,          \* calibrationInfo
  calInit,       \* the status bit WaitingForCalibrationInit
  calData,       \* the status bit WaitingForCalibrationData
  bit,           \* the result of the test CalibrationFilesLoading
  startup        \* gFlashDynamicValues.CalibrationCollectionPOSIXTimeAtStartup

database == <<fileDB, closed, collections, blocks>>
filling == <<filled, collectionIdx, fm>>
request == <<cmLoad, cmFile>>
status == <<calInit, calData, bit>>
loading == <<blockFiles, blockIndex>>
vars == <<database, filling, cm, request, loading, fd, info, status, startup>>

-----------------------------------------------------------------------------
(* The file database.                                                      *)

Listed(list) == {list[i] : i \in DOMAIN list}

(* FM_RemoveFileFromList: the records behind the first one are moved up.   *)
FirstAt(slot, list) == CHOOSE i \in DOMAIN list : list[i] = slot /\ \A j \in 1..(i - 1) : list[j] # slot

Without(list, slot) ==
  IF slot \notin Listed(list) THEN list
  ELSE [i \in 1..(Len(list) - 1) |-> IF i < FirstAt(slot, list) THEN list[i] ELSE list[i + 1]]

(* A list of the slots of a set, in their order.                           *)
Ascending(slots) ==
  {list \in [1..Cardinality(slots) -> slots] : \A i, j \in DOMAIN list : i < j => list[i] < list[j]}

(* FM_FindFilePOSIXTimeInList: no two records name the same file.           *)
Find(file, list) ==
  LET found == {s \in Listed(list) : fileDB[s] = file}
  IN IF found = {} THEN Null ELSE CHOOSE s \in found : TRUE

(* A record has the type of its file once the file is closed.              *)
IsCollection(slot) == slot \in closed /\ fileDB[slot] \in Collections
IsBlock(slot) == slot \in closed /\ fileDB[slot] \in Blocks

(* A file that is named and sound can be read.                             *)
Readable(slot) == fileDB[slot] # Null /\ fileDB[slot] \notin Bad

-----------------------------------------------------------------------------
(* Calibration_Init and Calibration_Reset: what both leave.                *)
NoCalibration ==
  [isValid |-> FALSE, file |-> Null, posixTime |-> Null, numberOfBlocks |-> 0,
   blocks |-> {}]

Calibration_Reset == info' = NoCalibration /\ calInit' = TRUE

(* The entries of calibrationInfo.blocks that NumberOfBlocks covers.       *)
LoadedBlocks == {b \in info.blocks : b.index <= info.numberOfBlocks}

(* CM_FileUsedByActualCalibration                                          *)
UsedByCalibration(slot) ==
  info.isValid /\ (info.file = slot \/ \E b \in LoadedBlocks : b.file = slot)

(* Mutant: a load replaces the one that is under way.                      *)
Bug_LoadReplaces(slot) ==
  /\ slot # Null
  /\ cmLoad' = TRUE
  /\ cmFile' = slot
  /\ UNCHANGED <<database, filling, cm, loading, fd, info, status, startup>>

(* Calibration_LoadCalibrationFile, for a file found in a list.  Every     *)
(* caller ignores a refusal: a load under way, a memory buffer in use.     *)
LoadCalibrationFile(slot) ==
  /\ cmFile = Null /\ slot # Null
  /\ cmLoad' = TRUE
  /\ cmFile' = slot
  /\ UNCHANGED <<database, filling, cm, loading, fd, info, status, startup>>

(* Calibration_LoadCalibrationFilePOSIXTime                                *)
LoadPOSIXTime(file) ==
  LoadCalibrationFile(IF Find(file, collections) # Null THEN Find(file, collections)
                                                        ELSE Find(file, blocks))

(* The host loads another collection; the power manager and the image      *)
(* correction load the current one again; the image correction loads a     *)
(* block by itself.                                                        *)
CollectionLoad ==
  \E slot \in Listed(collections) :
    /\ ~info.isValid \/ fileDB[slot] # info.posixTime
    /\ LoadPOSIXTime(fileDB[slot])

Reload == info.isValid /\ LoadPOSIXTime(info.posixTime)

BlockLoad ==
  \E slot \in Listed(blocks) : LoadPOSIXTime(fileDB[slot])

-----------------------------------------------------------------------------
(* Calibration_SM.                                                         *)

cmUnchanged == UNCHANGED <<database, filling>>

CM_Init ==
  /\ cm = "init"
  /\ Calibration_Reset
  /\ fd' = "none"
  /\ IF collections # <<>>
     THEN /\ cmFile' = IF Find(startup, collections) # Null
                       THEN Find(startup, collections) ELSE collections[1]
          /\ cmLoad' = TRUE
          /\ UNCHANGED bit
     ELSE /\ cmFile' = Null
          /\ cmLoad' = FALSE
          /\ bit' = "Failed"
  /\ cm' = "idle"
  /\ cmUnchanged
  /\ UNCHANGED <<loading, calData, startup>>

(* A load starts once the file manager is through with the collections.    *)
CM_Idle ==
  /\ cm = "idle"
  /\ cmLoad /\ Len(collections) = collectionIdx
  /\ cmLoad' = FALSE
  /\ calData' = TRUE /\ calInit' = TRUE
  /\ bit' = "Pending"
  /\ info' = [NoCalibration EXCEPT !.numberOfBlocks = IF IsBlock(cmFile) THEN 1 ELSE 0]
  /\ blockFiles' = IF IsBlock(cmFile) THEN <<cmFile>> ELSE <<>>
  /\ blockIndex' = 1
  /\ cm' = CASE IsCollection(cmFile) -> "loadCollection"
             [] IsBlock(cmFile) -> "openBlock"
             [] OTHER -> "error"
  /\ cmUnchanged
  /\ UNCHANGED <<cmFile, fd, startup>>

(* Mutant: a block that is not on the flash is left out.                   *)
Bug_MissingBlocksDropped ==
  /\ cm = "loadCollection"
  /\ \/ /\ Readable(cmFile) /\ fileDB[cmFile] \in Collections
        /\ LET listed == BlocksOf[fileDB[cmFile]]
               found == [i \in DOMAIN listed |-> Find(listed[i], blocks)]
           IN /\ blockFiles' = Without(found, Null)
              /\ info' = [info EXCEPT !.file = cmFile, !.posixTime = fileDB[cmFile],
                                      !.numberOfBlocks = Len(blockFiles')]
              /\ cm' = IF blockFiles' = <<>> \/ Null \in Listed(blockFiles')
                       THEN "error" ELSE "openBlock"
     \/ /\ ~Readable(cmFile) \/ fileDB[cmFile] \notin Collections \/ ChecksFail
        /\ cm' = "error"
        /\ UNCHANGED <<info, blockFiles>>
  /\ cmUnchanged
  /\ UNCHANGED <<request, blockIndex, fd, status, startup>>

CM_LoadCollection ==
  /\ cm = "loadCollection"
  /\ \/ /\ Readable(cmFile) /\ fileDB[cmFile] \in Collections
        /\ LET listed == BlocksOf[fileDB[cmFile]]
               found == [i \in DOMAIN listed |-> Find(listed[i], blocks)]
           IN /\ info' = [info EXCEPT !.file = cmFile, !.posixTime = fileDB[cmFile],
                                      !.numberOfBlocks = Len(listed)]
              /\ blockFiles' = found
              /\ cm' = IF Null \in Listed(found) THEN "error" ELSE "openBlock"
     \/ /\ ~Readable(cmFile) \/ fileDB[cmFile] \notin Collections \/ ChecksFail
        /\ cm' = "error"
        /\ UNCHANGED <<info, blockFiles>>
  /\ cmUnchanged
  /\ UNCHANGED <<request, blockIndex, fd, status, startup>>

(* The record of the block being loaded.                                   *)
CurrentBlock == blockFiles[blockIndex]

CM_OpenBlock ==
  /\ cm = "openBlock"
  /\ \/ /\ fileDB[CurrentBlock] # Null
        /\ fd' = "open"
        /\ cm' = "loadBlock"
     \/ /\ fileDB[CurrentBlock] = Null \/ ChecksFail
        /\ cm' = "error"
        /\ UNCHANGED fd
  /\ cmUnchanged
  /\ UNCHANGED <<request, loading, info, status, startup>>

(* The header and the data sections.  The header is compared with the      *)
(* collection's as long as the record of the file that was asked for is a  *)
(* collection; it becomes the collection when that record is a block.      *)
CM_LoadBlock ==
  /\ cm = "loadBlock"
  /\ LET file == fileDB[CurrentBlock]
         consistent == IsCollection(cmFile) =>
                         /\ info.posixTime \in Collections
                         /\ file \in Listed(BlocksOf[info.posixTime])
     IN \/ /\ fd = "open" /\ Readable(CurrentBlock) /\ file \in Blocks
           /\ info' = IF IsBlock(cmFile) THEN [info EXCEPT !.posixTime = file] ELSE info
           /\ cm' = "finalizeBlock"
        \/ /\ \/ fd # "open" \/ ~Readable(CurrentBlock) \/ file \notin Blocks
              \/ ~consistent \/ CurrentBlock \notin closed \/ ChecksFail
           /\ cm' = "error"
           /\ UNCHANGED info
  /\ cmUnchanged
  /\ UNCHANGED <<request, loading, fd, status, startup>>

(* Mutant: the block count is compared before the index is incremented.    *)
Bug_FinalizeBlockOneMore ==
  /\ cm = "finalizeBlock"
  /\ IF fd = "open"
     THEN /\ fd' = "none"
          /\ info' = [info EXCEPT !.blocks = @ \cup
                        {[index |-> blockIndex, file |-> CurrentBlock,
                          posixTime |-> fileDB[CurrentBlock]]}]
          /\ blockIndex' = blockIndex + 1
          /\ cm' = IF blockIndex <= info.numberOfBlocks
                   THEN "openBlock" ELSE "finalizeCollection"
     ELSE /\ cm' = "error"
          /\ UNCHANGED <<fd, info, blockIndex>>
  /\ cmUnchanged
  /\ UNCHANGED <<request, blockFiles, status, startup>>

(* Mutant: the next block is never taken.                                  *)
Bug_FinalizeBlockStays ==
  /\ cm = "finalizeBlock"
  /\ IF fd = "open"
     THEN /\ fd' = "none"
          /\ info' = [info EXCEPT !.blocks = @ \cup
                        {[index |-> blockIndex, file |-> CurrentBlock,
                          posixTime |-> fileDB[CurrentBlock]]}]
          /\ UNCHANGED blockIndex
          /\ cm' = IF blockIndex < info.numberOfBlocks
                   THEN "openBlock" ELSE "finalizeCollection"
     ELSE /\ cm' = "error"
          /\ UNCHANGED <<fd, info, blockIndex>>
  /\ cmUnchanged
  /\ UNCHANGED <<request, blockFiles, status, startup>>

CM_FinalizeBlock ==
  /\ cm = "finalizeBlock"
  /\ IF fd = "open"
     THEN /\ fd' = "none"
          /\ info' = [info EXCEPT !.blocks = @ \cup
                        {[index |-> blockIndex, file |-> CurrentBlock,
                          posixTime |-> fileDB[CurrentBlock]]}]
          /\ blockIndex' = blockIndex + 1
          /\ cm' = IF blockIndex < info.numberOfBlocks
                   THEN "openBlock" ELSE "finalizeCollection"
     ELSE /\ cm' = "error"
          /\ UNCHANGED <<fd, info, blockIndex>>
  /\ cmUnchanged
  /\ UNCHANGED <<request, blockFiles, status, startup>>

(* Calibration_LoadLUTRQ reads every block file again.                     *)
LoadLUTRQ == \A b \in LoadedBlocks : fileDB[b.file] = b.posixTime

(* The status bits are cleared before the last checks.  A failed check of   *)
(* the collection type leaves them so, a failed LoadLUTRQ has set calData. *)
CM_FinalizeCollection ==
  /\ cm = "finalizeCollection"
  /\ info' = [info EXCEPT !.isValid = TRUE]
  /\ bit' = "Passed"
  /\ calInit' = FALSE
  /\ \/ /\ LoadLUTRQ
        /\ calData' = FALSE
        /\ cm' = "idle"
        /\ cmFile' = Null
        /\ startup' = info.posixTime
     \/ /\ ~LoadLUTRQ \/ ChecksFail
        /\ calData' = TRUE
        /\ cm' = "error"
        /\ UNCHANGED <<cmFile, startup>>
     \/ /\ ChecksFail
        /\ calData' = FALSE
        /\ cm' = "error"
        /\ UNCHANGED <<cmFile, startup>>
  /\ cmUnchanged
  /\ UNCHANGED <<cmLoad, loading, fd>>

(* Mutant: the request is not forgotten.                                   *)
Bug_ErrorKeepsFile ==
  /\ cm = "error"
  /\ fd' = IF fd = "none" THEN "none" ELSE "stale"
  /\ Calibration_Reset
  /\ calData' = FALSE
  /\ bit' = "Failed"
  /\ cm' = "idle"
  /\ cmUnchanged
  /\ UNCHANGED <<request, loading, startup>>

(* Mutant: the acquisition is still held up after a failed load.           *)
Bug_ErrorKeepsDataBit ==
  /\ cm = "error"
  /\ fd' = IF fd = "none" THEN "none" ELSE "stale"
  /\ Calibration_Reset
  /\ cmFile' = Null
  /\ bit' = "Failed"
  /\ cm' = "idle"
  /\ cmUnchanged
  /\ UNCHANGED <<cmLoad, calData, loading, startup>>

(* The descriptor is closed and kept: a later error closes it again.       *)
CM_Error ==
  /\ cm = "error"
  /\ fd' = IF fd = "none" THEN "none" ELSE "stale"
  /\ Calibration_Reset
  /\ cmFile' = Null
  /\ calData' = FALSE
  /\ bit' = "Failed"
  /\ cm' = "idle"
  /\ cmUnchanged
  /\ UNCHANGED <<cmLoad, loading, startup>>

Calibration_SM ==
  \/ CM_Init \/ CM_Idle \/ CM_LoadCollection \/ CM_OpenBlock \/ CM_LoadBlock
  \/ CM_FinalizeBlock \/ CM_FinalizeCollection \/ CM_Error

(* Written while no load is under way, the calibration mode reads the      *)
(* tables of a valid calibration again; a failure leaves calData set.      *)
CalibrationMode ==
  /\ info.isValid
  /\ ~LoadLUTRQ \/ ChecksFail
  /\ calData' = TRUE
  /\ UNCHANGED <<database, filling, cm, request, loading, fd, info, calInit, bit, startup>>

-----------------------------------------------------------------------------
(* File_Manager_SM.                                                        *)

fmUnchanged == UNCHANGED <<cm, request, loading, bit, calData, startup>>

(* A collection that cannot be read is removed from the list and skipped   *)
(* all the same; the startup collection was filled at boot.                *)
FM_Fill ==
  /\ fm = "fillCollection"
  /\ collectionIdx < Len(collections)
  /\ LET slot == collections[collectionIdx + 1]
     IN \/ /\ fileDB[slot] = startup
           /\ UNCHANGED <<filled, collections>>
        \/ /\ fileDB[slot] # startup /\ Readable(slot)
           /\ filled' = filled \cup {slot}
           /\ UNCHANGED collections
        \/ /\ fileDB[slot] # startup
           /\ ~Readable(slot) \/ ChecksFail
           /\ collections' = Without(collections, slot)
           /\ UNCHANGED filled
  /\ collectionIdx' = collectionIdx + 1
  /\ fmUnchanged
  /\ UNCHANGED <<fileDB, closed, blocks, fm, fd, info, calInit>>

FM_FillDone ==
  /\ fm = "fillCollection"
  /\ collectionIdx >= Len(collections)
  /\ fm' = "waiting"
  /\ fmUnchanged
  /\ UNCHANGED <<database, filled, collectionIdx, fd, info, calInit>>

FM_Refill ==
  /\ fm = "waiting"
  /\ collectionIdx < Len(collections)
  /\ fm' = "fillCollection"
  /\ fmUnchanged
  /\ UNCHANGED <<database, filled, collectionIdx, fd, info, calInit>>

Serving(req) ==
  fm = "waiting" /\ collectionIdx >= Len(collections) /\ req \in Requests

(* FM_CreateFile takes the first empty record.                             *)
FM_Create ==
  /\ Serving("create")
  /\ \E file \in Files, slot \in Slots :
       /\ \A s \in Slots : fileDB[s] # file
       /\ fileDB[slot] = Null /\ \A s \in 1..(slot - 1) : fileDB[s] # Null
       /\ fileDB' = [fileDB EXCEPT ![slot] = file]
  /\ fmUnchanged
  /\ UNCHANGED <<closed, collections, blocks, filling, fd, info, calInit>>

(* FM_CloseFile: the file that was written is entered in its list.         *)
FM_Close ==
  /\ Serving("create")
  /\ \E slot \in Slots \ closed :
       /\ fileDB[slot] # Null
       /\ closed' = closed \cup {slot}
       /\ \/ /\ Readable(slot) /\ fileDB[slot] \in Collections
             /\ collections' = Append(collections, slot)
             /\ filled' = filled \cup {slot}
             /\ UNCHANGED blocks
          \/ /\ Readable(slot) /\ fileDB[slot] \in Blocks
             /\ blocks' = Append(blocks, slot)
             /\ UNCHANGED <<collections, filled>>
          \/ /\ ~Readable(slot) \/ ChecksFail
             /\ UNCHANGED <<collections, filled, blocks>>
  /\ fmUnchanged
  /\ UNCHANGED <<fileDB, collectionIdx, fm, fd, info, calInit>>

(* FM_RemoveFile: an open file cannot be removed; the calibration that     *)
(* uses the file is reset, once it is valid.                               *)
FM_Delete ==
  /\ Serving("delete")
  /\ \E slot \in Slots :
       /\ fileDB[slot] # Null
       /\ ~(fd = "open" /\ slot = CurrentBlock)
       /\ fileDB' = [fileDB EXCEPT ![slot] = Null]
       /\ closed' = closed \ {slot}
       /\ collections' = Without(collections, slot)
       /\ blocks' = Without(blocks, slot)
       /\ filled' = filled \ {slot}
       /\ IF UsedByCalibration(slot) THEN Calibration_Reset
                                     ELSE UNCHANGED <<info, calInit>>
  /\ fmUnchanged
  /\ UNCHANGED <<collectionIdx, fm, fd>>

(* FM_Format: open descriptors become invalid.                             *)
FM_Format ==
  /\ Serving("format")
  /\ Calibration_Reset
  /\ fileDB' = [s \in Slots |-> Null]
  /\ closed' = {} /\ collections' = <<>> /\ blocks' = <<>> /\ filled' = {}
  /\ fd' = IF fd = "open" THEN "stale" ELSE fd
  /\ fmUnchanged
  /\ UNCHANGED <<collectionIdx, fm>>

(* The calls that serve no request.                                        *)
File_Manager_SM == FM_Fill \/ FM_FillDone \/ FM_Refill

-----------------------------------------------------------------------------
(* Mutant: the collection filled at boot is taken for the first of the list. *)
Bug_AnyFilledCounts(sound, first, listed) == IF sound THEN 1 ELSE 0

(* Where the filling goes on after the boot has filled one collection.     *)
FirstToFill(sound, first, listed) == IF sound /\ first = listed[1] THEN 1 ELSE 0

(* FM_InitFileDB: every sound block and every collection is listed, and    *)
(* one collection is filled: the startup one, or the first.                *)
Init ==
  /\ fileDB = [s \in Slots |-> IF s <= Len(OnFlash) THEN OnFlash[s] ELSE Null]
  /\ closed = DOMAIN OnFlash
  /\ startup \in Collections \cup {Null}
  /\ blocks \in Ascending({s \in DOMAIN OnFlash : OnFlash[s] \in Blocks \ Bad})
  /\ \E listed \in Ascending({s \in DOMAIN OnFlash : OnFlash[s] \in Collections}) :
     LET first == IF Find(startup, listed) # Null THEN Find(startup, listed)
                  ELSE IF listed # <<>> THEN listed[1] ELSE Null
         sound == first # Null /\ OnFlash[first] \notin Bad
     IN /\ collections = IF first # Null /\ ~sound THEN Without(listed, first) ELSE listed
        /\ filled = IF sound THEN {first} ELSE {}
        /\ collectionIdx = FirstToFill(sound, first, listed)
  /\ fm = "fillCollection"
  /\ cm = "init" /\ cmLoad = FALSE /\ cmFile = Null
  /\ blockFiles = <<>> /\ blockIndex = 1 /\ fd = "none" /\ info = NoCalibration
  /\ calInit \in BOOLEAN /\ calData = FALSE
  /\ bit = "NotApplicable"

(* No request has been received when both machines are first called.       *)
Client ==
  /\ cm # "init"
  /\ \/ CollectionLoad \/ Reload \/ BlockLoad \/ CalibrationMode
     \/ FM_Create \/ FM_Close \/ FM_Delete \/ FM_Format

Next == Calibration_SM \/ File_Manager_SM \/ Client

Spec == Init /\ [][Next]_vars

(* The main loop calls both machines for ever.                             *)
Fairness ==
  /\ WF_vars(Calibration_SM)
  /\ WF_vars(File_Manager_SM)

FairSpec == Spec /\ Fairness

-----------------------------------------------------------------------------
(* Every variable has its type, and the block being loaded is in the list. *)
LoadedBlock == [index : Nat \ {0}, file : Slots, posixTime : Files]
TypeOK ==
  /\ fileDB \in [Slots -> Files \cup {Null}] /\ closed \subseteq Slots
  /\ collections \in Seq(Slots) /\ blocks \in Seq(Slots)
  /\ filled \subseteq Slots /\ collectionIdx \in Nat
  /\ fm \in {"fillCollection", "waiting"}
  /\ cm \in {"init", "idle", "loadCollection", "openBlock", "loadBlock",
             "finalizeBlock", "finalizeCollection", "error"}
  /\ cmLoad \in BOOLEAN /\ cmFile \in Slots \cup {Null}
  /\ blockFiles \in Seq(Slots \cup {Null}) /\ blockIndex \in Nat \ {0}
  /\ fd \in {"none", "open", "stale"}
  /\ info \in [isValid : BOOLEAN, file : Slots \cup {Null}, posixTime : Files \cup {Null},
               numberOfBlocks : Nat, blocks : SUBSET LoadedBlock]
  /\ calInit \in BOOLEAN /\ calData \in BOOLEAN
  /\ bit \in {"NotApplicable", "Pending", "Passed", "Failed"}
  /\ startup \in Files \cup {Null}

(* The manager is busy, and refuses another load, exactly while a load is  *)
(* pending or under way: no path leaves the pointer of a finished load     *)
(* behind, which would refuse every load until the next boot.              *)
BusyIsExplained ==
  cmFile # Null <=> cmLoad \/ cm \notin {"init", "idle"}

(* A valid calibration is complete: it holds every block that the          *)
(* collection lists, or the one block that was loaded by itself, as long   *)
(* as a format has not emptied it before it became valid.                  *)
ValidMeansLoaded ==
  cm = "idle" /\ info.isValid /\ info.posixTime # Null =>
    LET expected == IF info.posixTime \in Collections THEN BlocksOf[info.posixTime]
                                                      ELSE <<info.posixTime>>
    IN {<<b.index, b.posixTime>> : b \in LoadedBlocks}
         = {<<i, expected[i]>> : i \in DOMAIN expected}

(* Its blocks can be read again when the calibration mode changes: their   *)
(* records still name the files they were loaded from.                     *)
BlocksCanBeRead == cm = "idle" /\ info.isValid => LoadLUTRQ

(* The status bit says whether the calibration is valid, whatever removed  *)
(* it.                                                                     *)
InitBitAgrees == cm # "init" => (calInit <=> ~info.isValid)

(* What a load relies on: a request waits in the idle state, a calibration *)
(* being loaded is not valid yet, its blocks are in the list, and the one  *)
(* that is open still has its name.                                        *)
LoadInOrder ==
  /\ cmLoad => cm = "idle"
  /\ cm \in {"loadCollection", "openBlock", "loadBlock", "finalizeBlock",
             "finalizeCollection"} => ~info.isValid
  /\ cm = "loadCollection" => blockIndex = 1 /\ info.blocks = {}
  /\ cm \in {"openBlock", "loadBlock", "finalizeBlock"} =>
       /\ blockFiles \in Seq(Slots) /\ blockIndex \in DOMAIN blockFiles
       /\ info.numberOfBlocks <= Len(blockFiles)
  /\ cm \in {"loadBlock", "finalizeBlock"} /\ fd = "open" => fileDB[CurrentBlock] # Null

(* A collection being loaded, as long as no record is reused: its blocks   *)
(* are those it lists or have gone, and those before blockIndex are        *)
(* loaded.                                                                 *)
CollectionSoFar ==
  cm \in {"openBlock", "loadBlock", "finalizeBlock", "finalizeCollection"}
      /\ info.posixTime \in Collections =>
    LET expected == BlocksOf[info.posixTime]
    IN /\ info.numberOfBlocks = Len(expected) /\ Len(blockFiles) = Len(expected)
       /\ cm # "finalizeCollection" =>
            \A i \in DOMAIN expected : fileDB[blockFiles[i]] \in {expected[i], Null}
       /\ cm = "finalizeCollection" => blockIndex = Len(expected) + 1
       /\ \A b \in info.blocks : b.index < blockIndex /\ b.posixTime = expected[b.index]
       /\ \A i \in 1..(blockIndex - 1) : \E b \in info.blocks : b.index = i
       /\ ~IsBlock(cmFile)

(* A block that is loaded by itself; and nothing can be opened any more    *)
(* once a format has emptied the calibration being loaded.                 *)
BlockSoFar ==
  /\ cm \in {"openBlock", "loadBlock"} /\ IsBlock(cmFile) =>
       /\ blockFiles = <<cmFile>> /\ blockIndex = 1
       /\ info.numberOfBlocks = 1 /\ info.blocks = {}
  /\ cm \in {"openBlock", "loadBlock"} =>
       /\ info.posixTime \notin Blocks
       /\ info.posixTime = Null /\ ~IsBlock(cmFile) =>
            \A i \in DOMAIN blockFiles : fileDB[blockFiles[i]] = Null
  /\ cm = "finalizeBlock" /\ fd = "open" => info.posixTime # Null
  /\ cm = "finalizeBlock" /\ info.posixTime \in Blocks =>
       /\ blockFiles = <<cmFile>> /\ blockIndex = 1
       /\ info.numberOfBlocks = 1 /\ info.blocks = {}
       /\ fd = "open" => fileDB[cmFile] = info.posixTime
  /\ cm = "finalizeCollection" /\ info.posixTime \in Blocks =>
       /\ info.numberOfBlocks = 1
       /\ \E b \in info.blocks : info.blocks = {b} /\ b.index = 1 /\ b.posixTime = info.posixTime

(* The records of the database: those of a list are closed and of its      *)
(* kind, none is listed twice, and no two name the same file, on which the *)
(* searches by POSIX time rely.                                            *)
Distinct(list) == \A i, j \in DOMAIN list : list[i] = list[j] => i = j

DatabaseInOrder ==
  /\ \A s \in closed : fileDB[s] # Null
  /\ \A s, t \in Slots : fileDB[s] = fileDB[t] /\ fileDB[s] # Null => s = t
  /\ Distinct(collections) /\ \A s \in Listed(collections) : IsCollection(s)
  /\ Distinct(blocks) /\ \A s \in Listed(blocks) : IsBlock(s)

(* As long as every collection can be read: those before collectionIdx are *)
(* filled, and so is the startup one that FM_Fill passes over; a load only *)
(* runs when all are.                                                      *)
CollectionsReadable == ~ChecksFail /\ Bad \cap Collections = {}

FilledInOrder ==
  /\ \A i \in DOMAIN collections : i <= collectionIdx => collections[i] \in filled
  /\ \A s \in Listed(collections) : fileDB[s] = startup => s \in filled
  /\ cm \notin {"init", "idle"} => Listed(collections) \subseteq filled

(* A client that only uploads clears no record a load has found.           *)
RecordsKept ==
  /\ cmFile # Null => cmFile \in closed
  /\ cm \in {"openBlock", "loadBlock", "finalizeBlock"} =>
       \A i \in DOMAIN blockFiles : blockFiles[i] \in closed
  /\ cm \in {"openBlock", "loadBlock"} /\ info.posixTime = Null => IsBlock(cmFile)
  /\ cm = "finalizeBlock" => info.posixTime # Null

(* No record is cleared and given to another file: the client does not     *)
(* upload, or does nothing else.                                           *)
OnlyUploads == Requests \subseteq {"create"}
NoReuse == "create" \notin Requests \/ OnlyUploads

(* The inductive invariant behind the safety properties.                   *)
IInv ==
  /\ TypeOK /\ DatabaseInOrder /\ LoadInOrder
  /\ BusyIsExplained /\ InitBitAgrees /\ BlocksCanBeRead
  /\ CollectionsReadable => FilledInOrder
  /\ OnlyUploads => RecordsKept
  /\ NoReuse => CollectionSoFar /\ BlockSoFar /\ ValidMeansLoaded

(* Images are not acquired while a calibration is being loaded, and are    *)
(* not held up by one that is not.                                         *)
DataBitMeansLoading ==
  /\ cm \in {"loadCollection", "openBlock", "loadBlock", "finalizeBlock",
             "finalizeCollection"} => calData
  /\ cm \in {"init", "idle"} => ~calData

(* Every listed collection has been validated and its information filled   *)
(* once the file manager serves requests (FileManager.c:191, "Validate     *)
(* collection files and fill information").                                *)
FilledWhenServing ==
  fm = "waiting" /\ collectionIdx >= Len(collections)
    => Listed(collections) \subseteq filled

(* The manager keeps the contract of those that ask it for a calibration,  *)
(* as long as no record is reused: whatever is deleted or formated during  *)
(* a load, the file that comes into service is the one that was asked for. *)
Phase == IF cmFile = Null THEN "free" ELSE IF cmLoad THEN "pending" ELSE "loading"
Asked ==
  IF cmFile = Null \/ cm = "error" THEN Null
  ELSE IF cm \in {"idle", "loadCollection"} \/ (cm \in {"openBlock", "loadBlock"} /\ info.posixTime = Null)
       THEN fileDB[cmFile] ELSE info.posixTime
Served == IF info.isValid /\ cm = "idle" THEN info.posixTime ELSE Null

Contract == INSTANCE CalibrationContract WITH
  Calibrations <- Files, None <- Null, phase <- Phase, asked <- Asked, served <- Served

KeepsContract == Contract!Spec

(* A load is not prolonged for ever: until it ends, each call goes on to a *)
(* later stage, or through the blocks one by one, and nothing the client   *)
(* does in between takes it back.                                          *)
Stage ==
  CASE cm = "idle" -> 4
    [] cm = "loadCollection" -> 3
    [] cm \in {"openBlock", "loadBlock", "finalizeBlock"} -> 2
    [] cm = "finalizeCollection" -> 1
    [] OTHER -> 0
BlockSteps ==
  3 * (Len(blockFiles) - blockIndex) +
    (IF cm = "openBlock" THEN 3 ELSE IF cm = "loadBlock" THEN 2 ELSE 1)

LoadAdvances ==
  \/ cmFile' = Null
  \/ /\ cmFile' = cmFile
     /\ \/ Stage' < Stage
        \/ /\ Stage = 2 /\ Stage' = 2
           /\ BlockSteps' \in Nat /\ BlockSteps' < BlockSteps
LoadIsFinite ==
  [][cmFile # Null => LoadAdvances \/ UNCHANGED <<cmFile, cmLoad, cm, loading>>]_vars

(* A load that was accepted is started and ends (Calibration.c:71,         *)
(* "IRC_SUCCESS if successfully started to load calibration file").        *)
LoadEnds == cmFile # Null ~> cmFile = Null
=============================================================================
