----------------------- MODULE CalibrationManagerProofs -----------------------
(***************************************************************************)
(* Whatever files the flash holds, whatever the client deletes, formats or *)
(* uploads and whichever read fails, the calibration manager is busy only  *)
(* while a load is pending or under way, a load goes through its states    *)
(* and blocks once, the lists of the file manager are in order, and a      *)
(* valid calibration can be read again.  As long as no record is used      *)
(* twice, it is also whole, and the manager keeps the contract of          *)
(* CalibrationContract (Calibration.c, FileManager.c).                     *)
(***************************************************************************)
EXTENDS CalibrationManager, FiniteSetTheorems, TLAPS

(* A slot removed from a list leaves a list of the same slots.              *)
LEMMA WithoutType ==
  ASSUME NEW list \in Seq(Slots), NEW slot
  PROVE  Without(list, slot) \in Seq(Slots)
<1>1. CASE slot \notin Listed(list)
  BY <1>1 DEF Without
<1>2. CASE slot \in Listed(list)
  <2>1. Len(list) \in Nat /\ Len(list) # 0
    BY <1>2 DEF Listed
  <2>2. \A i \in 1..(Len(list) - 1) : list[i] \in Slots /\ list[i + 1] \in Slots
    BY <2>1
  <2>3. Len(list) - 1 \in Nat
    BY <2>1
  <2> DEFINE moved(i) == IF i < FirstAt(slot, list) THEN list[i] ELSE list[i + 1]
  <2>4. \A i \in 1..(Len(list) - 1) : moved(i) \in Slots
    BY <2>2
  <2>5. [i \in 1..(Len(list) - 1) |-> moved(i)] \in Seq(Slots)
    BY <2>3, <2>4
  <2> QED
    BY <1>2, <2>5 DEF Without
<1> QED
  BY <1>1, <1>2

(* Records can be counted.                                                 *)
LEMMA CountType ==
  ASSUME NEW S \in SUBSET Slots
  PROVE  Cardinality(S) \in Nat
<1>1. IsFiniteSet(Slots)
  BY CalibrationAssumption, FS_Interval DEF Slots
<1>2. IsFiniteSet(S)
  BY <1>1, FS_Subset
<1> QED
  BY <1>2, FS_CardinalityType

(* The lists made at boot are lists of slots.                              *)
LEMMA AscendingType ==
  ASSUME NEW S \in SUBSET Slots, NEW list \in Ascending(S)
  PROVE  list \in Seq(Slots)
BY CountType DEF Ascending

(* FM_RemoveFileFromList takes a record out of a list and keeps the others, *)
(* when none is listed twice.                                              *)
LEMMA WithoutListed ==
  ASSUME NEW list \in Seq(Slots), NEW slot, Distinct(list)
  PROVE  /\ Distinct(Without(list, slot))
         /\ Listed(Without(list, slot)) \subseteq Listed(list) \ {slot}
<1>1. CASE slot \notin Listed(list)
  BY <1>1 DEF Without
<1>2. CASE slot \in Listed(list)
  <2>1. Len(list) \in Nat /\ DOMAIN list = 1..Len(list)
    OBVIOUS
  <2>2. PICK k \in DOMAIN list : list[k] = slot
    BY <1>2 DEF Listed
  <2>3. k \in DOMAIN list /\ list[k] = slot /\ \A j \in 1..(k - 1) : list[j] # slot
    BY <2>1, <2>2 DEF Distinct
  <2>4. \E i \in DOMAIN list : list[i] = slot /\ \A j \in 1..(i - 1) : list[j] # slot
    BY <2>3
  <2>5. FirstAt(slot, list) \in DOMAIN list /\ list[FirstAt(slot, list)] = slot
    BY <2>4 DEF FirstAt
  <2>6. FirstAt(slot, list) = k
    BY <2>2, <2>5 DEF Distinct
  <2> DEFINE kept == [i \in 1..(Len(list) - 1) |-> IF i < k THEN list[i] ELSE list[i + 1]]
  <2>7. Without(list, slot) = kept
    BY <1>2, <2>6 DEF Without
  <2>8. \A i \in 1..(Len(list) - 1) :
          \E j \in DOMAIN list : j # k /\ kept[i] = list[j] /\ j = IF i < k THEN i ELSE i + 1
    BY <2>1, <2>2
  <2>9. DOMAIN kept = 1..(Len(list) - 1)
    OBVIOUS
  <2> HIDE DEF kept
  <2>10. Distinct(kept)
    BY <2>1, <2>8, <2>9 DEF Distinct
  <2>11. Listed(kept) \subseteq Listed(list) \ {slot}
    BY <2>2, <2>8, <2>9 DEF Distinct, Listed
  <2> QED
    BY <2>7, <2>10, <2>11
<1> QED
  BY <1>1, <1>2

(* A record that is not listed yet is added at the end.                    *)
LEMMA AppendListed ==
  ASSUME NEW list \in Seq(Slots), NEW slot \in Slots, Distinct(list), slot \notin Listed(list)
  PROVE  /\ Distinct(Append(list, slot))
         /\ Listed(Append(list, slot)) = Listed(list) \cup {slot}
<1> DEFINE longer == Append(list, slot)
<1>1. /\ longer \in Seq(Slots) /\ Len(longer) = Len(list) + 1 /\ Len(list) \in Nat
      /\ \A i \in 1..Len(list) : longer[i] = list[i]
      /\ longer[Len(list) + 1] = slot
      /\ DOMAIN longer = 1..(Len(list) + 1) /\ DOMAIN list = 1..Len(list)
  OBVIOUS
<1> HIDE DEF longer
<1>2. \A i \in DOMAIN longer : i \in DOMAIN list \/ i = Len(list) + 1
  BY <1>1
<1>3. Distinct(longer)
  BY <1>1, <1>2 DEF Distinct, Listed
<1>4. Listed(longer) = Listed(list) \cup {slot}
  <2>1. Len(list) + 1 \in DOMAIN longer
    BY <1>1
  <2>2. \A i \in DOMAIN list : i \in DOMAIN longer
    BY <1>1
  <2> QED
    BY <1>1, <1>2, <2>1, <2>2 DEF Listed
<1> QED
  BY <1>3, <1>4 DEF longer

(* The lists made at boot have no record twice.                            *)
LEMMA AscendingListed ==
  ASSUME NEW S \in SUBSET Slots, NEW list \in Ascending(S)
  PROVE  Distinct(list) /\ Listed(list) \subseteq S
<1>1. /\ list \in [1..Cardinality(S) -> S]
      /\ \A i, j \in DOMAIN list : i < j => list[i] < list[j]
  BY DEF Ascending
<1>2. Listed(list) \subseteq S
  BY <1>1 DEF Listed
<1>3. \A i, j \in DOMAIN list : list[i] = list[j] => i = j
  <2> SUFFICES ASSUME NEW i \in DOMAIN list, NEW j \in DOMAIN list, list[i] = list[j]
               PROVE  i = j
    OBVIOUS
  <2>1. i \in Int /\ j \in Int
    <3>1. Cardinality(S) \in Nat
      BY CountType
    <3> QED
      BY <1>1, <3>1
  <2>2. list[i] \in Int
    <3>1. NumSlots \in Nat
      BY CalibrationAssumption
    <3>2. list[i] \in S /\ S \subseteq 1..NumSlots
      BY <1>1 DEF Slots
    <3>3. \A n \in 1..NumSlots : n \in Int
      BY <3>1
    <3> QED
      BY <3>2, <3>3
  <2> QED
    BY <1>1, <2>1, <2>2
<1> QED
  BY <1>2, <1>3 DEF Distinct

(* The file that is found in a list is the one that was looked for.         *)
LEMMA FindType ==
  ASSUME NEW list \in Seq(Slots), NEW file
  PROVE  /\ Find(file, list) \in Slots \cup {Null}
         /\ Find(file, list) # Null => fileDB[Find(file, list)] = file
<1>1. Listed(list) \subseteq Slots
  BY DEF Listed
<1> QED
  BY <1>1 DEF Find

(* A set of blocks that covers a list, place by place.                      *)
Pairs(S) == {<<b.index, b.posixTime>> : b \in S}
Places(list) == {<<i, list[i]>> : i \in DOMAIN list}

LEMMA SamePairs ==
  ASSUME NEW S, NEW list,
         \A b \in S : b.index \in DOMAIN list /\ b.posixTime = list[b.index],
         \A i \in DOMAIN list : \E b \in S : b.index = i
  PROVE  Pairs(S) = Places(list)
<1>1. \A i \in DOMAIN list : \E b \in S : b.index = i /\ b.posixTime = list[i]
  OBVIOUS
<1> QED
  BY <1>1 DEF Pairs, Places

-----------------------------------------------------------------------------
(* The part of the invariant that holds with uploads as well.              *)
Sound == TypeOK /\ LoadInOrder /\ BusyIsExplained /\ InitBitAgrees /\ BlocksCanBeRead

LEMMA InitSound ==
  ASSUME Init
  PROVE  Sound
<1>1. DOMAIN OnFlash \subseteq Slots /\ DOMAIN OnFlash = 1..Len(OnFlash) /\ Len(OnFlash) \in Nat
  BY CalibrationAssumption DEF Slots
<1>2. fileDB \in [Slots -> Files \cup {Null}]
  <2>1. \A s \in Slots : s <= Len(OnFlash) => OnFlash[s] \in Files
    BY <1>1, CalibrationAssumption DEF Slots
  <2> QED
    BY <2>1 DEF Init
<1>3. blocks \in Seq(Slots)
  BY <1>1, AscendingType DEF Init
<1>4. PICK listed \in Ascending({s \in DOMAIN OnFlash : OnFlash[s] \in Collections}) :
        LET first == IF Find(startup, listed) # Null THEN Find(startup, listed)
                     ELSE IF listed # <<>> THEN listed[1] ELSE Null
            sound == first # Null /\ OnFlash[first] \notin Bad
        IN /\ collections = IF first # Null /\ ~sound THEN Without(listed, first) ELSE listed
           /\ filled = IF sound THEN {first} ELSE {}
           /\ collectionIdx = FirstToFill(sound, first, listed)
  BY DEF Init
<1>5. listed \in Seq(Slots)
  BY <1>1, AscendingType
<1> DEFINE first == IF Find(startup, listed) # Null THEN Find(startup, listed)
                    ELSE IF listed # <<>> THEN listed[1] ELSE Null
<1>6. first \in Slots \cup {Null}
  BY <1>5, FindType
<1>7. collections \in Seq(Slots) /\ filled \subseteq Slots /\ collectionIdx \in Nat
  <2>1. Without(listed, first) \in Seq(Slots)
    BY <1>5, WithoutType
  <2>2. filled \subseteq Slots
    BY <1>4, <1>6
  <2>3. collectionIdx \in Nat
    BY <1>4 DEF FirstToFill
  <2> QED
    BY <1>4, <1>5, <2>1, <2>2, <2>3
<1>8. TypeOK
  <2>1. info \in [isValid : BOOLEAN, file : Slots \cup {Null}, posixTime : Files \cup {Null},
                  numberOfBlocks : Nat, blocks : SUBSET LoadedBlock]
    BY DEF Init, NoCalibration
  <2>2. blockFiles \in Seq(Slots \cup {Null}) /\ blockIndex \in Nat \ {0}
    BY DEF Init
  <2>3. startup \in Files \cup {Null}
    BY DEF Init, Files
  <2> HIDE DEF first
  <2>4. /\ fm = "fillCollection" /\ cm = "init" /\ cmLoad = FALSE /\ cmFile = Null
        /\ fd = "none" /\ calInit \in BOOLEAN /\ calData = FALSE /\ bit = "NotApplicable"
        /\ closed \subseteq Slots
    BY <1>1 DEF Init
  <2> QED
    BY <1>2, <1>3, <1>7, <2>1, <2>2, <2>3, <2>4 DEF TypeOK
<1> QED
  BY <1>8 DEF Init, Sound, LoadInOrder, BusyIsExplained, InitBitAgrees, BlocksCanBeRead,
              NoCalibration

(* The steps of a load.                                                    *)
LEMMA CalibrationSound ==
  ASSUME Sound, Calibration_SM
  PROVE  Sound'
<1> USE CalibrationAssumption
    DEF Sound, TypeOK, LoadInOrder, BusyIsExplained, InitBitAgrees, BlocksCanBeRead,
        cmUnchanged, database, filling, request, loading, status, NoCalibration
<1>1. CASE CM_Init
  <2>1. collections # <<>> => collections[1] \in Slots
    OBVIOUS
  <2>2. Find(startup, collections) \in Slots \cup {Null}
    BY FindType
  <2> QED
    BY <1>1, <2>1, <2>2 DEF CM_Init, Calibration_Reset
<1>2. CASE CM_Idle
  <2>1. /\ cm' \in {"loadCollection", "openBlock", "error"} /\ cmLoad' = FALSE
        /\ info'.isValid = FALSE /\ info'.blocks = {}
        /\ blockIndex' = 1 /\ calInit' = TRUE /\ cmFile' = cmFile /\ cmFile # Null
    BY <1>2 DEF CM_Idle
  <2>2. cm' = "openBlock" => blockFiles' = <<cmFile>> /\ info'.numberOfBlocks = 1
    BY <1>2 DEF CM_Idle, IsCollection, IsBlock
  <2>3. /\ blockFiles' \in Seq(Slots)
        /\ info' \in [isValid : BOOLEAN, file : Slots \cup {Null},
                      posixTime : Files \cup {Null},
                      numberOfBlocks : Nat, blocks : SUBSET LoadedBlock]
    <3>1. <<cmFile>> \in Seq(Slots) /\ <<>> \in Seq(Slots)
      BY <2>1
    <3>2. blockFiles' = <<cmFile>> \/ blockFiles' = <<>>
      BY <1>2 DEF CM_Idle
    <3>3. \A n \in Nat : [NoCalibration EXCEPT !.numberOfBlocks = n] \in
                     [isValid : BOOLEAN, file : Slots \cup {Null},
                      posixTime : Files \cup {Null},
                      numberOfBlocks : Nat, blocks : SUBSET LoadedBlock]
      OBVIOUS
    <3> QED
      BY <1>2, <3>1, <3>2, <3>3 DEF CM_Idle
  <2>4. cm' = "openBlock" => 1 \in DOMAIN blockFiles' /\ Len(blockFiles') = 1
    BY <2>2
  <2>5. TypeOK'
    <3>1. blockFiles' \in Seq(Slots \cup {Null})
      BY <2>3
    <3>2. /\ UNCHANGED <<fileDB, closed, collections, blocks, filled, collectionIdx, fm,
                         fd, startup>>
          /\ calData' = TRUE /\ bit' = "Pending"
      BY <1>2 DEF CM_Idle
    <3>3. cm' \in {"init", "idle", "loadCollection", "openBlock", "loadBlock",
                   "finalizeBlock", "finalizeCollection", "error"}
      BY <2>1
    <3>4. cmLoad' \in BOOLEAN
      BY <2>1, Zenon
    <3>5. cmFile' \in Slots \cup {Null} /\ calInit' \in BOOLEAN
      BY <2>1
    <3>6. blockIndex' \in Nat \ {0}
      BY <2>1
    <3> QED
      BY <2>1, <2>3, <3>1, <3>2, <3>3, <3>4, <3>5, <3>6
  <2> QED
    BY <2>1, <2>2, <2>3, <2>4, <2>5
<1>3. CASE CM_LoadCollection
  <2>1. CASE cm' = "error" /\ UNCHANGED <<info, blockFiles>>
    BY <1>3, <2>1 DEF CM_LoadCollection
  <2>2. CASE ~(cm' = "error" /\ UNCHANGED <<info, blockFiles>>)
    <3> DEFINE listed == BlocksOf[fileDB[cmFile]]
               found == [i \in DOMAIN listed |-> Find(listed[i], blocks)]
    <3>1. /\ Readable(cmFile) /\ fileDB[cmFile] \in Collections
          /\ info' = [info EXCEPT !.file = cmFile, !.posixTime = fileDB[cmFile],
                                  !.numberOfBlocks = Len(listed)]
          /\ blockFiles' = found
          /\ cm' = IF Null \in Listed(found) THEN "error" ELSE "openBlock"
      BY <1>3, <2>2 DEF CM_LoadCollection
    <3>2. listed \in Seq(Blocks) /\ Len(listed) \in Nat \ {0}
      BY <3>1
    <3> DEFINE inFlash(i) == Find(listed[i], blocks)
    <3>3. found \in Seq(Slots \cup {Null}) /\ Len(found) = Len(listed)
      <4>1. \A i \in 1..Len(listed) : inFlash(i) \in Slots \cup {Null}
        BY FindType
      <4> HIDE DEF inFlash
      <4>2. [i \in 1..Len(listed) |-> inFlash(i)] \in Seq(Slots \cup {Null})
        BY <3>2, <4>1
      <4>3. Len([i \in 1..Len(listed) |-> inFlash(i)]) = Len(listed)
        BY <3>2, <4>2
      <4>4. DOMAIN listed = 1..Len(listed)
        BY <3>2
      <4> QED
        BY <4>2, <4>3, <4>4 DEF inFlash
    <3> HIDE DEF listed, found
    <3>4. Null \notin Listed(found) => found \in Seq(Slots)
      BY <3>3 DEF Listed
    <3>5. 1 \in DOMAIN found
      BY <3>2, <3>3
    <3>6. /\ info' \in [isValid : BOOLEAN, file : Slots \cup {Null},
                        posixTime : Files \cup {Null},
                        numberOfBlocks : Nat, blocks : SUBSET LoadedBlock]
          /\ info'.isValid = info.isValid /\ info'.numberOfBlocks = Len(listed)
      BY <1>3, <3>1, <3>2 DEF CM_LoadCollection, Files
    <3>7. TypeOK'
      BY <1>3, <3>1, <3>3, <3>6 DEF CM_LoadCollection
    <3> QED
      BY <1>3, <3>1, <3>2, <3>3, <3>4, <3>5, <3>6, <3>7 DEF CM_LoadCollection
  <2> QED
    BY <2>1, <2>2
<1>4. CASE CM_OpenBlock
  BY <1>4 DEF CM_OpenBlock, CurrentBlock
<1>5. CASE CM_LoadBlock
  <2>1. /\ info' \in [isValid : BOOLEAN, file : Slots \cup {Null},
                      posixTime : Files \cup {Null},
                      numberOfBlocks : Nat, blocks : SUBSET LoadedBlock]
        /\ info'.isValid = info.isValid /\ info'.numberOfBlocks = info.numberOfBlocks
    <3> DEFINE file == fileDB[CurrentBlock]
    <3>1. \/ info' = info
          \/ file \in Blocks /\ info' = [info EXCEPT !.posixTime = file]
      BY <1>5 DEF CM_LoadBlock
    <3> HIDE DEF file
    <3>2. info \in [isValid : BOOLEAN, file : Slots \cup {Null},
                    posixTime : Files \cup {Null},
                    numberOfBlocks : Nat, blocks : SUBSET LoadedBlock]
      OBVIOUS
    <3> QED
      BY <3>1, <3>2 DEF Files
  <2>2. cm' \in {"error", "finalizeBlock"}
    BY <1>5 DEF CM_LoadBlock
  <2>3. TypeOK'
    BY <1>5, <2>1, <2>2 DEF CM_LoadBlock
  <2> QED
    BY <1>5, <2>1, <2>2, <2>3 DEF CM_LoadBlock, CurrentBlock
<1>6. CASE CM_FinalizeBlock
  <2>1. CASE fd # "open"
    BY <1>6, <2>1 DEF CM_FinalizeBlock, CurrentBlock
  <2>2. CASE fd = "open"
    <3>1. /\ CurrentBlock \in Slots /\ fileDB[CurrentBlock] \in Files
          /\ blockFiles \in Seq(Slots) /\ info.numberOfBlocks <= Len(blockFiles)
          /\ blockIndex \in Nat \ {0} /\ blockIndex <= Len(blockFiles)
          /\ Len(blockFiles) \in Nat
      BY <1>6, <2>2 DEF CM_FinalizeBlock, CurrentBlock
    <3> DEFINE loaded == [index |-> blockIndex, file |-> CurrentBlock,
                          posixTime |-> fileDB[CurrentBlock]]
    <3>2. loaded \in LoadedBlock
      BY <3>1 DEF LoadedBlock
    <3> HIDE DEF loaded
    <3>3. /\ info' = [info EXCEPT !.blocks = @ \cup {loaded}]
          /\ blockIndex' = blockIndex + 1 /\ fd' = "none" /\ blockFiles' = blockFiles
          /\ cm' = IF blockIndex < info.numberOfBlocks THEN "openBlock"
                                                       ELSE "finalizeCollection"
      BY <1>6, <2>2 DEF CM_FinalizeBlock, loaded
    <3>4. /\ info' \in [isValid : BOOLEAN, file : Slots \cup {Null},
                        posixTime : Files \cup {Null},
                        numberOfBlocks : Nat, blocks : SUBSET LoadedBlock]
          /\ info'.isValid = info.isValid /\ info'.numberOfBlocks = info.numberOfBlocks
      BY <3>2, <3>3
    <3>5. TypeOK'
      BY <1>6, <3>1, <3>3, <3>4 DEF CM_FinalizeBlock
    <3>6. cm' = "openBlock" => /\ blockFiles' \in Seq(Slots)
                               /\ blockIndex' \in DOMAIN blockFiles'
                               /\ info'.numberOfBlocks <= Len(blockFiles')
      BY <3>1, <3>3, <3>4
    <3> QED
      BY <1>6, <3>3, <3>4, <3>5, <3>6 DEF CM_FinalizeBlock
  <2> QED
    BY <2>1, <2>2
<1>7. CASE CM_FinalizeCollection
  BY <1>7 DEF CM_FinalizeCollection, LoadLUTRQ, LoadedBlocks
<1>8. CASE CM_Error
  BY <1>8 DEF CM_Error, Calibration_Reset
<1> QED
  BY <1>1, <1>2, <1>3, <1>4, <1>5, <1>6, <1>7, <1>8 DEF Calibration_SM

(* The calls of the file manager.                                          *)
LEMMA FileManagerSound ==
  ASSUME Sound, File_Manager_SM
  PROVE  Sound'
<1> USE CalibrationAssumption
    DEF Sound, TypeOK, LoadInOrder, BusyIsExplained, InitBitAgrees, BlocksCanBeRead,
        fmUnchanged, database, filling, request, loading, LoadLUTRQ, LoadedBlocks,
        CurrentBlock
<1>1. CASE FM_Fill
  <2>1. collections[collectionIdx + 1] \in Slots
    BY <1>1 DEF FM_Fill
  <2>2. Without(collections, collections[collectionIdx + 1]) \in Seq(Slots)
    BY WithoutType
  <2> QED
    BY <1>1, <2>1, <2>2 DEF FM_Fill
<1>2. CASE FM_FillDone
  BY <1>2 DEF FM_FillDone
<1>3. CASE FM_Refill
  BY <1>3 DEF FM_Refill
<1> QED
  BY <1>1, <1>2, <1>3 DEF File_Manager_SM

(* The records that the blocks of a valid calibration were loaded from are *)
(* never cleared without resetting it.                                     *)
LEMMA ClientSound ==
  ASSUME Sound, Client
  PROVE  Sound'
<1> USE CalibrationAssumption
    DEF Sound, TypeOK, LoadInOrder, BusyIsExplained, InitBitAgrees, BlocksCanBeRead,
        fmUnchanged, database, filling, request, loading, LoadLUTRQ, LoadedBlocks,
        CurrentBlock
<1>1. CASE CollectionLoad \/ Reload \/ BlockLoad
  <2>1. PICK slot \in Slots : LoadCalibrationFile(slot)
    BY <1>1, FindType DEF CollectionLoad, Reload, BlockLoad, LoadPOSIXTime, LoadCalibrationFile
  <2>2. cm = "idle" /\ cmFile' = slot /\ cmLoad' = TRUE
    BY <2>1 DEF LoadCalibrationFile, Client
  <2>3. UNCHANGED <<fileDB, closed, collections, blocks, filled, collectionIdx, fm, cm,
                    blockFiles, blockIndex, fd, info, calInit, calData, bit, startup>>
    BY <2>1 DEF LoadCalibrationFile, status
  <2>4. TypeOK'
    BY <2>2, <2>3
  <2> QED
    BY <2>2, <2>3, <2>4
<1>2. CASE CalibrationMode
  BY <1>2 DEF CalibrationMode
<1>3. CASE FM_Create
  <2>1. PICK file \in Files, slot \in Slots :
          fileDB[slot] = Null /\ fileDB' = [fileDB EXCEPT ![slot] = file]
    BY <1>3 DEF FM_Create
  <2>2. /\ fileDB' \in [Slots -> Files \cup {Null}]
        /\ \A s \in Slots : fileDB[s] # Null => fileDB'[s] = fileDB[s]
    BY <2>1
  <2>3. UNCHANGED <<closed, collections, blocks, filled, collectionIdx, fm, cm, cmLoad, cmFile,
                    blockFiles, blockIndex, fd, info, calInit, calData, bit, startup>>
    BY <1>3 DEF FM_Create
  <2>4. TypeOK'
    BY <2>2, <2>3
  <2>5. LoadLUTRQ => LoadLUTRQ'
    BY <2>2, <2>3 DEF LoadedBlock
  <2>6. LoadInOrder'
    BY <2>2, <2>3
  <2> QED
    BY <2>3, <2>4, <2>5, <2>6
<1>4. CASE FM_Close
  <2>1. /\ closed' \subseteq Slots /\ filled' \subseteq Slots
        /\ collections' \in Seq(Slots) /\ blocks' \in Seq(Slots)
    <3>1. PICK slot \in Slots \ closed :
            /\ closed' = closed \cup {slot}
            /\ collections' \in {collections, Append(collections, slot)}
            /\ blocks' \in {blocks, Append(blocks, slot)}
            /\ filled' \in {filled, filled \cup {slot}}
      BY <1>4 DEF FM_Close
    <3>2. Append(collections, slot) \in Seq(Slots) /\ Append(blocks, slot) \in Seq(Slots)
      BY <3>1
    <3> QED
      BY <3>1, <3>2
  <2>2. UNCHANGED <<fileDB, collectionIdx, fm, cm, cmLoad, cmFile,
                    blockFiles, blockIndex, fd, info, calInit, calData, bit, startup>>
    BY <1>4 DEF FM_Close
  <2>3. TypeOK'
    BY <2>1, <2>2
  <2> QED
    BY <2>2, <2>3
<1>5. CASE FM_Delete
  <2>1. PICK slot \in Slots :
          /\ ~(fd = "open" /\ slot = CurrentBlock)
          /\ fileDB' = [fileDB EXCEPT ![slot] = Null]
          /\ closed' = closed \ {slot} /\ filled' = filled \ {slot}
          /\ collections' = Without(collections, slot) /\ blocks' = Without(blocks, slot)
          /\ IF UsedByCalibration(slot) THEN Calibration_Reset
                                        ELSE UNCHANGED <<info, calInit>>
    BY <1>5 DEF FM_Delete
  <2>2. /\ fileDB' \in [Slots -> Files \cup {Null}]
        /\ \A s \in Slots \ {slot} : fileDB'[s] = fileDB[s]
        /\ collections' \in Seq(Slots) /\ blocks' \in Seq(Slots)
    BY <2>1, WithoutType
  <2>3. UNCHANGED <<collectionIdx, fm, fd, cm, cmLoad, cmFile, blockFiles, blockIndex, bit,
                    calData, startup>>
    BY <1>5 DEF FM_Delete
  <2>4. CASE UsedByCalibration(slot)
    <3>1. info' = NoCalibration /\ calInit' = TRUE /\ info.isValid
      BY <2>1, <2>4 DEF Calibration_Reset, UsedByCalibration
    <3>2. TypeOK'
      BY <2>1, <2>2, <2>3, <3>1 DEF NoCalibration
    <3> QED
      BY <2>1, <2>2, <2>3, <3>1, <3>2 DEF NoCalibration
  <2>5. CASE ~UsedByCalibration(slot)
    <3>1. UNCHANGED <<info, calInit>>
      BY <2>1, <2>5
    <3>2. TypeOK'
      BY <2>1, <2>2, <2>3, <3>1
    <3>3. LoadInOrder'
      BY <2>1, <2>2, <2>3, <3>1
    <3>4. info.isValid /\ LoadLUTRQ => LoadLUTRQ'
      BY <2>2, <2>5, <3>1 DEF UsedByCalibration, LoadedBlock
    <3> QED
      BY <2>3, <3>1, <3>2, <3>3, <3>4
  <2> QED
    BY <2>4, <2>5
<1>6. CASE FM_Format
  BY <1>6 DEF FM_Format, Calibration_Reset, NoCalibration
<1> QED
  BY <1>1, <1>2, <1>3, <1>4, <1>5, <1>6 DEF Client

LEMMA SoundIsInductive ==
  ASSUME Sound, [Next]_vars
  PROVE  Sound'
<1>1. CASE Next
  BY <1>1, CalibrationSound, FileManagerSound, ClientSound DEF Next
<1>2. CASE UNCHANGED vars
  BY <1>2 DEF vars, database, filling, request, loading, status, Sound, TypeOK, LoadInOrder,
              BusyIsExplained, InitBitAgrees, BlocksCanBeRead, LoadLUTRQ, LoadedBlocks,
              CurrentBlock
<1> QED
  BY <1>1, <1>2

-----------------------------------------------------------------------------
(* The records of the database.  What Init makes of the files on the flash. *)
LEMMA InitDatabase ==
  ASSUME Init
  PROVE  DatabaseInOrder
<1>1. /\ DOMAIN OnFlash = 1..Len(OnFlash) /\ Len(OnFlash) \in Nat /\ DOMAIN OnFlash \subseteq Slots
      /\ \A i \in DOMAIN OnFlash : OnFlash[i] \in Files
      /\ \A i, j \in DOMAIN OnFlash : OnFlash[i] = OnFlash[j] => i = j
      /\ Null \notin Files
  BY CalibrationAssumption DEF Slots
<1>2. /\ \A s \in DOMAIN OnFlash : s \in Slots /\ fileDB[s] = OnFlash[s]
      /\ \A s \in Slots \ DOMAIN OnFlash : fileDB[s] = Null
      /\ closed = DOMAIN OnFlash
  <2>1. \A s \in Slots : s <= Len(OnFlash) <=> s \in DOMAIN OnFlash
    BY <1>1, CalibrationAssumption DEF Slots
  <2> QED
    BY <1>1, <2>1 DEF Init
<1>3. Distinct(blocks) /\ \A s \in Listed(blocks) : IsBlock(s)
  <2>1. Distinct(blocks) /\ Listed(blocks) \subseteq {s \in DOMAIN OnFlash : OnFlash[s] \in Blocks \ Bad}
    BY <1>1, AscendingListed DEF Init
  <2> QED
    BY <1>2, <2>1 DEF IsBlock
<1>4. Distinct(collections) /\ \A s \in Listed(collections) : IsCollection(s)
  <2>1. PICK listed \in Ascending({s \in DOMAIN OnFlash : OnFlash[s] \in Collections}) :
          \E first : collections = listed \/ collections = Without(listed, first)
    BY DEF Init
  <2>2. /\ listed \in Seq(Slots) /\ Distinct(listed)
        /\ Listed(listed) \subseteq {s \in DOMAIN OnFlash : OnFlash[s] \in Collections}
    BY <1>1, AscendingType, AscendingListed
  <2>3. Distinct(collections) /\ Listed(collections) \subseteq Listed(listed)
    BY <2>1, <2>2, WithoutListed
  <2> QED
    BY <1>2, <2>2, <2>3 DEF IsCollection
<1>5. \A s \in closed : fileDB[s] # Null
  BY <1>1, <1>2
<1>6. \A s, t \in Slots : fileDB[s] = fileDB[t] /\ fileDB[s] # Null => s = t
  BY <1>1, <1>2
<1> QED
  BY <1>3, <1>4, <1>5, <1>6 DEF DatabaseInOrder

(* Whatever the client does, the database stays in order.                  *)
LEMMA DatabaseStaysInOrder ==
  ASSUME TypeOK, DatabaseInOrder, [Next]_vars
  PROVE  DatabaseInOrder'
<1> USE DEF TypeOK, DatabaseInOrder, database
<1>1. CASE UNCHANGED database
  BY <1>1 DEF Distinct, Listed, IsCollection, IsBlock
<1>2. CASE FM_Fill
  <2>1. /\ UNCHANGED <<fileDB, closed, blocks>>
        /\ \/ collections' = collections
           \/ \E slot : collections' = Without(collections, slot)
    BY <1>2 DEF FM_Fill
  <2>2. Distinct(collections)' /\ Listed(collections)' \subseteq Listed(collections)
    BY <2>1, WithoutListed
  <2>3. Distinct(blocks)' /\ Listed(blocks)' = Listed(blocks)
    BY <2>1
  <2> QED
    BY <2>1, <2>2, <2>3 DEF IsCollection, IsBlock
<1>3. CASE FM_Create
  <2>1. PICK file \in Files, slot \in Slots :
          /\ \A s \in Slots : fileDB[s] # file
          /\ fileDB[slot] = Null
          /\ fileDB' = [fileDB EXCEPT ![slot] = file]
    BY <1>3 DEF FM_Create
  <2>2. UNCHANGED <<closed, collections, blocks>>
    BY <1>3 DEF FM_Create
  <2>3. /\ fileDB'[slot] = file /\ file # Null
        /\ \A s \in Slots \ {slot} : fileDB'[s] = fileDB[s]
        /\ slot \notin closed
    BY <2>1, CalibrationAssumption
  <2>4. \A s \in closed : fileDB'[s] = fileDB[s] /\ s \in Slots
    BY <2>3
  <2>5. \A s, t \in Slots : fileDB'[s] = fileDB'[t] /\ fileDB'[s] # Null => s = t
    BY <2>1, <2>3
  <2>6. /\ \A s \in Listed(collections)' : IsCollection(s)'
        /\ \A s \in Listed(blocks)' : IsBlock(s)'
        /\ Distinct(collections)' /\ Distinct(blocks)'
    BY <2>2, <2>4 DEF IsCollection, IsBlock
  <2> QED
    BY <2>2, <2>4, <2>5, <2>6
<1>4. CASE FM_Close
  <2>1. PICK slot \in Slots \ closed :
          /\ fileDB[slot] # Null
          /\ closed' = closed \cup {slot}
          /\ \/ fileDB[slot] \in Collections /\ collections' = Append(collections, slot) /\ blocks' = blocks
             \/ fileDB[slot] \in Blocks /\ blocks' = Append(blocks, slot) /\ collections' = collections
             \/ UNCHANGED <<collections, blocks>>
    BY <1>4 DEF FM_Close
  <2>2. UNCHANGED fileDB
    BY <1>4 DEF FM_Close
  <2>3. slot \notin Listed(collections) /\ slot \notin Listed(blocks)
    BY <2>1 DEF IsCollection, IsBlock
  <2>4. /\ \A s \in Listed(collections) : IsCollection(s)'
        /\ \A s \in Listed(blocks) : IsBlock(s)'
        /\ fileDB[slot] \in Collections => IsCollection(slot)'
        /\ fileDB[slot] \in Blocks => IsBlock(slot)'
    BY <2>1, <2>2 DEF IsCollection, IsBlock
  <2>5. Distinct(collections)' /\ \A s \in Listed(collections)' : IsCollection(s)'
    <3>1. /\ Distinct(Append(collections, slot))
          /\ Listed(Append(collections, slot)) = Listed(collections) \cup {slot}
      BY <2>3, AppendListed
    <3>2. CASE collections' = Append(collections, slot) /\ fileDB[slot] \in Collections
      BY <2>4, <3>1, <3>2
    <3>3. CASE collections' = collections
      BY <2>4, <3>3
    <3> QED
      BY <2>1, <3>2, <3>3
  <2>6. Distinct(blocks)' /\ \A s \in Listed(blocks)' : IsBlock(s)'
    <3>1. /\ Distinct(Append(blocks, slot))
          /\ Listed(Append(blocks, slot)) = Listed(blocks) \cup {slot}
      BY <2>3, AppendListed
    <3>2. CASE blocks' = Append(blocks, slot) /\ fileDB[slot] \in Blocks
      BY <2>4, <3>1, <3>2
    <3>3. CASE blocks' = blocks
      BY <2>4, <3>3
    <3> QED
      BY <2>1, <3>2, <3>3
  <2> QED
    BY <2>1, <2>2, <2>5, <2>6
<1>5. CASE FM_Delete
  <2>1. PICK slot \in Slots :
          /\ fileDB' = [fileDB EXCEPT ![slot] = Null]
          /\ closed' = closed \ {slot}
          /\ collections' = Without(collections, slot) /\ blocks' = Without(blocks, slot)
    BY <1>5 DEF FM_Delete
  <2>2. fileDB'[slot] = Null /\ \A s \in Slots \ {slot} : fileDB'[s] = fileDB[s]
    BY <2>1
  <2>3. /\ Distinct(collections)' /\ Listed(collections)' \subseteq Listed(collections) \ {slot}
        /\ Distinct(blocks)' /\ Listed(blocks)' \subseteq Listed(blocks) \ {slot}
    BY <2>1, WithoutListed
  <2> QED
    BY <2>1, <2>2, <2>3 DEF IsCollection, IsBlock
<1>6. CASE FM_Format
  BY <1>6 DEF FM_Format, Distinct, Listed
<1>7. CASE Next
  <2>1. Calibration_SM => UNCHANGED database
    BY DEF Calibration_SM, CM_Init, CM_Idle, CM_LoadCollection, CM_OpenBlock, CM_LoadBlock,
           CM_FinalizeBlock, CM_FinalizeCollection, CM_Error, cmUnchanged
  <2>2. FM_FillDone \/ FM_Refill => UNCHANGED database
    BY DEF FM_FillDone, FM_Refill
  <2>3. CollectionLoad \/ Reload \/ BlockLoad \/ CalibrationMode => UNCHANGED database
    BY DEF CollectionLoad, Reload, BlockLoad, LoadPOSIXTime, LoadCalibrationFile, CalibrationMode
  <2> QED
    BY <1>1, <1>2, <1>3, <1>4, <1>5, <1>6, <1>7, <2>1, <2>2, <2>3
       DEF Next, File_Manager_SM, Client
<1> QED
  BY <1>1, <1>7 DEF vars
-----------------------------------------------------------------------------
(* The filling of the collections.                                         *)
LEMMA InitFilled ==
  ASSUME Init, DatabaseInOrder, CollectionsReadable
  PROVE  FilledInOrder
<1> DEFINE OfCollections == {s \in DOMAIN OnFlash : OnFlash[s] \in Collections}
<1>1. PICK listed \in Ascending(OfCollections) :
        LET first == IF Find(startup, listed) # Null THEN Find(startup, listed)
                     ELSE IF listed # <<>> THEN listed[1] ELSE Null
            sound == first # Null /\ OnFlash[first] \notin Bad
        IN /\ collections = IF first # Null /\ ~sound THEN Without(listed, first) ELSE listed
           /\ filled = IF sound THEN {first} ELSE {}
           /\ collectionIdx = FirstToFill(sound, first, listed)
  BY DEF Init
<1>2. /\ OfCollections \subseteq Slots
      /\ \A s \in OfCollections : OnFlash[s] \in Collections /\ fileDB[s] = OnFlash[s]
  BY CalibrationAssumption DEF Slots, Init
<1>3. listed \in Seq(Slots) /\ Distinct(listed) /\ Listed(listed) \subseteq OfCollections
  BY <1>2, AscendingType, AscendingListed
<1> HIDE DEF OfCollections
<1> DEFINE first == IF Find(startup, listed) # Null THEN Find(startup, listed)
                    ELSE IF listed # <<>> THEN listed[1] ELSE Null
<1>4. first # Null => first \in Listed(listed)
  <2>1. Find(startup, listed) # Null => Find(startup, listed) \in Listed(listed)
    BY DEF Find
  <2>2. listed # <<>> => listed[1] \in Listed(listed)
    BY <1>3 DEF Listed
  <2> QED
    BY <2>1, <2>2
<1>5. first # Null => OnFlash[first] \notin Bad
  BY <1>2, <1>3, <1>4 DEF CollectionsReadable
<1>6. \A s \in Listed(listed) : fileDB[s] = startup => s = first
  <2> SUFFICES ASSUME NEW s \in Listed(listed), fileDB[s] = startup
               PROVE  s = first
    OBVIOUS
  <2>1. s \in Slots /\ s # Null /\ fileDB[s] # Null
    BY <1>2, <1>3, CalibrationAssumption DEF Files
  <2>2. s \in {r \in Listed(listed) : fileDB[r] = startup}
    OBVIOUS
  <2>3. Find(startup, listed) \in {r \in Listed(listed) : fileDB[r] = startup}
    BY <2>2 DEF Find
  <2>4. Find(startup, listed) = s
    BY <1>2, <1>3, <2>1, <2>3 DEF DatabaseInOrder
  <2> QED
    BY <2>1, <2>4
<1>7. /\ collections = listed
      /\ filled = IF first # Null THEN {first} ELSE {}
      /\ collectionIdx = IF first # Null /\ first = listed[1] THEN 1 ELSE 0
  BY <1>1, <1>5 DEF FirstToFill
<1> HIDE DEF first
<1>8. \A i \in DOMAIN collections : i <= collectionIdx => collections[i] \in filled
  <2> SUFFICES ASSUME NEW i \in DOMAIN listed, i <= collectionIdx
               PROVE  listed[i] \in filled
    BY <1>7
  <2>1. i \in Nat /\ i # 0
    BY <1>3
  <2>2. first # Null /\ first = listed[1] /\ i = 1
    BY <1>7, <2>1
  <2> QED
    BY <1>7, <2>2
<1>9. \A s \in Listed(collections) : fileDB[s] = startup => s \in filled
  <2>1. \A s \in Listed(listed) : s # Null
    BY <1>3, CalibrationAssumption DEF Listed
  <2> QED
    BY <1>6, <1>7, <2>1
<1>10. cm = "init"
  BY DEF Init
<1> QED
  BY <1>8, <1>9, <1>10 DEF FilledInOrder

(* A collection is filled before the file manager goes on to the next one, *)
(* and none is added or taken out that is not.                             *)
LEMMA FillingStaysInOrder ==
  ASSUME TypeOK, DatabaseInOrder, DatabaseInOrder', LoadInOrder, BusyIsExplained,
         CollectionsReadable, FilledInOrder, [Next]_vars
  PROVE  FilledInOrder'
<1> USE DEF TypeOK, FilledInOrder, database, filling
<1>1. collectionIdx >= Len(collections) => Listed(collections) \subseteq filled
  BY DEF Listed
<1>2. CASE UNCHANGED <<fileDB, collections, filled, collectionIdx, startup>> /\ ((cm \in {"init", "idle"}) => (cm' \in {"init", "idle"}))
  BY <1>2 DEF Listed
<1>3. CASE CM_Idle
  <2>1. Listed(collections) \subseteq filled
    BY <1>1, <1>3 DEF CM_Idle
  <2> QED
    BY <1>3, <2>1 DEF CM_Idle, cmUnchanged, Listed
<1>4. CASE CM_FinalizeCollection
  BY <1>4 DEF CM_FinalizeCollection, cmUnchanged, Listed
<1>5. CASE FM_Fill
  <2> DEFINE slot == collections[collectionIdx + 1]
  <2>1. slot \in Listed(collections) /\ fileDB[slot] \in Collections
    BY <1>5 DEF FM_Fill, Listed, DatabaseInOrder, IsCollection
  <2>2. Readable(slot) /\ ~ChecksFail
    BY <2>1, CalibrationAssumption DEF CollectionsReadable, Readable, Files
  <2>3. /\ \/ fileDB[slot] = startup /\ filled' = filled
           \/ filled' = filled \cup {slot}
        /\ collections' = collections /\ collectionIdx' = collectionIdx + 1
        /\ UNCHANGED <<fileDB, cm, startup>>
    BY <1>5, <2>2 DEF FM_Fill, fmUnchanged
  <2>4. filled \subseteq filled' /\ slot \in filled'
    BY <2>1, <2>3
  <2>5. \A i \in DOMAIN collections : i <= collectionIdx + 1 => collections[i] \in filled'
    <3> SUFFICES ASSUME NEW i \in DOMAIN collections, i <= collectionIdx + 1
                 PROVE  collections[i] \in filled'
      OBVIOUS
    <3>1. i \in Nat
      OBVIOUS
    <3>2. i <= collectionIdx \/ i = collectionIdx + 1
      BY <3>1
    <3> QED
      BY <2>4, <3>2
  <2> HIDE DEF slot
  <2> QED
    BY <2>3, <2>4, <2>5 DEF Listed
<1>6. CASE FM_Create
  <2>1. PICK slot \in Slots : fileDB[slot] = Null /\ \A s \in Slots \ {slot} : fileDB'[s] = fileDB[s]
    BY <1>6 DEF FM_Create
  <2>2. slot \notin Listed(collections)
    BY <2>1, CalibrationAssumption DEF DatabaseInOrder, IsCollection, Files
  <2>3. \A s \in Listed(collections) : fileDB'[s] = fileDB[s]
    BY <2>1, <2>2 DEF Listed
  <2> QED
    BY <1>6, <2>3 DEF FM_Create, fmUnchanged, Listed
<1>7. CASE FM_Close
  <2>1. Listed(collections) \subseteq filled
    BY <1>1, <1>7 DEF FM_Close, Serving
  <2>2. PICK slot \in Slots :
          \/ collections' = Append(collections, slot) /\ filled' = filled \cup {slot}
          \/ UNCHANGED <<collections, filled>>
    BY <1>7 DEF FM_Close
  <2>3. Listed(collections)' \subseteq filled'
    <3>1. \A i \in DOMAIN Append(collections, slot) :
            \/ i \in DOMAIN collections /\ Append(collections, slot)[i] = collections[i]
            \/ Append(collections, slot)[i] = slot
      OBVIOUS
    <3>2. Listed(Append(collections, slot)) \subseteq Listed(collections) \cup {slot}
      BY <3>1 DEF Listed
    <3> QED
      BY <2>1, <2>2, <3>2
  <2>4. \A i \in DOMAIN collections' : collections'[i] \in filled'
    BY <2>3 DEF Listed
  <2> QED
    BY <2>3, <2>4
<1>8. CASE FM_Delete \/ FM_Format
  <2>1. Listed(collections)' \subseteq filled'
    <3>1. CASE FM_Delete
      <4>1. PICK slot \in Slots : collections' = Without(collections, slot) /\ filled' = filled \ {slot}
        BY <3>1 DEF FM_Delete
      <4>2. Listed(collections) \subseteq filled
        BY <1>1, <3>1 DEF FM_Delete, Serving
      <4>3. Distinct(collections)
        BY DEF DatabaseInOrder
      <4>4. Listed(Without(collections, slot)) \subseteq Listed(collections) \ {slot}
        BY <4>3, WithoutListed
      <4> QED
        BY <4>1, <4>2, <4>4
    <3>2. CASE FM_Format
      BY <3>2 DEF FM_Format, Listed
    <3> QED
      BY <1>8, <3>1, <3>2
  <2>2. \A i \in DOMAIN collections' : collections'[i] \in filled'
    BY <2>1 DEF Listed
  <2> QED
    BY <2>1, <2>2
<1>9. CASE UNCHANGED vars
  BY <1>2, <1>9 DEF vars
<1>10. CASE Next
  <2>1. Calibration_SM => CM_Idle \/ CM_FinalizeCollection \/
          (UNCHANGED <<fileDB, collections, filled, collectionIdx, startup>>
             /\ ((cm \in {"init", "idle"}) => (cm' \in {"init", "idle"})))
    BY DEF Calibration_SM, CM_Init, CM_Idle, CM_LoadCollection, CM_OpenBlock, CM_LoadBlock,
           CM_FinalizeBlock, CM_FinalizeCollection, CM_Error, cmUnchanged
  <2>2. FM_FillDone \/ FM_Refill =>
          UNCHANGED <<fileDB, collections, filled, collectionIdx, startup, cm>>
    BY DEF FM_FillDone, FM_Refill, fmUnchanged
  <2>3. CollectionLoad \/ Reload \/ BlockLoad \/ CalibrationMode =>
          UNCHANGED <<fileDB, collections, filled, collectionIdx, startup, cm>>
    BY DEF CollectionLoad, Reload, BlockLoad, LoadPOSIXTime, LoadCalibrationFile, CalibrationMode
  <2> QED
    BY <1>2, <1>3, <1>4, <1>5, <1>6, <1>7, <1>8, <1>10, <2>1, <2>2, <2>3
       DEF Next, File_Manager_SM, Client
<1> QED
  BY <1>9, <1>10

-----------------------------------------------------------------------------
(* A client that only uploads clears no record: those a load has found     *)
(* still name their files.                                                 *)
LEMMA RecordsStay ==
  ASSUME TypeOK, DatabaseInOrder, LoadInOrder, BusyIsExplained, OnlyUploads, RecordsKept, [Next]_vars
  PROVE  RecordsKept'
<1> USE DEF TypeOK, RecordsKept, OnlyUploads, database, request, loading
<1>1. \A s \in Listed(collections) \cup Listed(blocks) : s \in closed
  BY DEF DatabaseInOrder, IsCollection, IsBlock
<1>2. \A file : /\ Find(file, collections) \in closed \cup {Null}
                /\ Find(file, blocks) \in closed \cup {Null}
  BY <1>1 DEF Find
<1>3. CASE CM_Init
  <2>1. collections # <<>> => collections[1] \in closed
    BY <1>1 DEF Listed
  <2> QED
    BY <1>2, <1>3, <2>1 DEF CM_Init, cmUnchanged
<1>4. CASE CM_Idle
  <2>1. cm' = "openBlock" => blockFiles' = <<cmFile>> /\ IsBlock(cmFile)
    BY <1>4 DEF CM_Idle, IsBlock, IsCollection
  <2>2. DOMAIN <<cmFile>> = {1} /\ <<cmFile>>[1] = cmFile
    OBVIOUS
  <2>3. cm' \in {"loadCollection", "openBlock", "error"} /\ UNCHANGED <<cmFile, closed, fileDB>>
    BY <1>4 DEF CM_Idle, cmUnchanged
  <2> QED
    BY <2>1, <2>2, <2>3 DEF IsBlock
<1>5. CASE CM_LoadCollection
  <2>1. UNCHANGED <<cmFile, closed>> /\ cm' \in {"openBlock", "error"}
    BY <1>5 DEF CM_LoadCollection, cmUnchanged
  <2>2. ASSUME cm' = "openBlock"
        PROVE  /\ \A i \in DOMAIN blockFiles' : blockFiles'[i] \in closed
               /\ info'.posixTime # Null
    <3> DEFINE listed == BlocksOf[fileDB[cmFile]]
               found == [i \in DOMAIN listed |-> Find(listed[i], blocks)]
    <3>1. /\ fileDB[cmFile] \in Collections
          /\ info' = [info EXCEPT !.file = cmFile, !.posixTime = fileDB[cmFile],
                                  !.numberOfBlocks = Len(listed)]
          /\ blockFiles' = found /\ Null \notin Listed(found)
      BY <1>5, <2>2 DEF CM_LoadCollection
    <3>2. info'.posixTime # Null
      BY <3>1, CalibrationAssumption DEF Files
    <3>3. \A i \in DOMAIN found : found[i] \in closed
      BY <1>2, <3>1 DEF Listed
    <3> QED
      BY <3>1, <3>2, <3>3
  <2> QED
    BY <2>1, <2>2
<1>6. CASE CM_OpenBlock \/ CM_LoadBlock \/ CM_FinalizeBlock
  <2>1. UNCHANGED <<fileDB, cmFile, closed, blockFiles>>
    BY <1>6 DEF CM_OpenBlock, CM_LoadBlock, CM_FinalizeBlock, cmUnchanged
  <2>2. cm \in {"openBlock", "loadBlock", "finalizeBlock"}
    BY <1>6 DEF CM_OpenBlock, CM_LoadBlock, CM_FinalizeBlock
  <2>3. CASE CM_OpenBlock
    <3>1. UNCHANGED info /\ cm = "openBlock" /\ cm' \in {"loadBlock", "error"}
      BY <2>3 DEF CM_OpenBlock
    <3> QED
      BY <2>1, <3>1 DEF IsBlock
  <2>4. CASE CM_LoadBlock
    <3>1. cm = "loadBlock" /\ cm' \in {"finalizeBlock", "error"}
      BY <2>4 DEF CM_LoadBlock
    <3>2. cm' = "finalizeBlock" => info'.posixTime # Null
      <4> SUFFICES ASSUME cm' = "finalizeBlock"
                   PROVE  info'.posixTime # Null
        OBVIOUS
      <4> DEFINE file == fileDB[CurrentBlock]
      <4>1. /\ file \in Blocks
            /\ info' = IF IsBlock(cmFile) THEN [info EXCEPT !.posixTime = file] ELSE info
        BY <2>4 DEF CM_LoadBlock
      <4>2. file # Null
        BY <4>1, CalibrationAssumption DEF Files
      <4> HIDE DEF file
      <4>3. CASE IsBlock(cmFile)
        BY <4>1, <4>2, <4>3
      <4>4. CASE ~IsBlock(cmFile)
        BY <3>1, <4>1, <4>4
      <4> QED
        BY <4>3, <4>4
    <3>3. \A i \in DOMAIN blockFiles' : blockFiles'[i] \in closed'
      BY <2>1, <2>2
    <3>4. cmFile' # Null => cmFile' \in closed'
      BY <2>1
    <3>5. cm' \notin {"openBlock", "loadBlock"}
      BY <3>1
    <3> QED
      BY <3>2, <3>3, <3>4, <3>5
  <2>5. CASE CM_FinalizeBlock
    <3>1. cm' = "openBlock" =>
            info' = [info EXCEPT !.blocks = @ \cup {[index |-> blockIndex, file |-> CurrentBlock,
                                                   posixTime |-> fileDB[CurrentBlock]]}]
      BY <2>5 DEF CM_FinalizeBlock
    <3>2. cm' = "openBlock" => info'.posixTime = info.posixTime
      BY <3>1
    <3>3. cm = "finalizeBlock" /\ cm' \in {"openBlock", "finalizeCollection", "error"}
      BY <2>5 DEF CM_FinalizeBlock
    <3> QED
      BY <2>1, <2>2, <3>2, <3>3
  <2> QED
    BY <1>6, <2>3, <2>4, <2>5
<1>7. CASE CM_FinalizeCollection \/ CM_Error
  BY <1>7 DEF CM_FinalizeCollection, CM_Error, cmUnchanged
<1>8. CASE CollectionLoad \/ Reload \/ BlockLoad
  <2>1. PICK file : LoadPOSIXTime(file)
    BY <1>8 DEF CollectionLoad, Reload, BlockLoad
  <2>2. /\ cmFile' \in closed /\ cmFile = Null
        /\ UNCHANGED <<database, loading, info, cm>>
    BY <1>2, <2>1 DEF LoadPOSIXTime, LoadCalibrationFile
  <2>3. cm' \notin {"openBlock", "loadBlock", "finalizeBlock"}
    BY <2>2 DEF BusyIsExplained
  <2> QED
    BY <2>2, <2>3
<1>9. CASE File_Manager_SM \/ CalibrationMode \/ FM_Create
  <2>1. /\ UNCHANGED <<closed, cm, cmFile, blockFiles, info>>
        /\ \A s \in closed : fileDB'[s] = fileDB[s]
    <3>1. UNCHANGED <<closed, cm, cmFile, blockFiles, info>>
      BY <1>9 DEF File_Manager_SM, FM_Fill, FM_FillDone, FM_Refill, CalibrationMode, FM_Create,
                  fmUnchanged
    <3>2. CASE File_Manager_SM \/ CalibrationMode
      BY <3>1, <3>2 DEF File_Manager_SM, FM_Fill, FM_FillDone, FM_Refill, CalibrationMode
    <3>3. CASE FM_Create
      <4>1. PICK slot \in Slots : fileDB[slot] = Null /\ \A s \in Slots \ {slot} : fileDB'[s] = fileDB[s]
        BY <3>3 DEF FM_Create
      <4> QED
        BY <3>1, <4>1 DEF DatabaseInOrder
    <3> QED
      BY <1>9, <3>1, <3>2, <3>3
  <2> QED
    BY <2>1 DEF IsBlock
<1>10. CASE FM_Close
  <2>1. closed \subseteq closed' /\ UNCHANGED <<fileDB, cm, cmFile, blockFiles, info>>
    BY <1>10 DEF FM_Close, fmUnchanged
  <2> QED
    BY <2>1 DEF IsBlock
<1>11. ~FM_Delete /\ ~FM_Format
  BY DEF FM_Delete, FM_Format, Serving
<1>12. CASE UNCHANGED vars
  BY <1>12 DEF vars, IsBlock
<1> QED
  BY <1>3, <1>4, <1>5, <1>6, <1>7, <1>8, <1>9, <1>10, <1>11, <1>12
     DEF Next, Calibration_SM, Client

-----------------------------------------------------------------------------
(* As long as no record is cleared and given to another file, a calibration *)
(* that becomes valid is whole.                                            *)
Whole == CollectionSoFar /\ BlockSoFar /\ ValidMeansLoaded

LEMMA CalibrationWhole ==
  ASSUME Sound, Whole, Calibration_SM
  PROVE  Whole'
<1> USE CalibrationAssumption
    DEF Sound, TypeOK, LoadInOrder, Whole, cmUnchanged, database, filling, request, loading,
        status, Files
<1>1. CASE CM_Init
  BY <1>1 DEF CM_Init, Calibration_Reset, NoCalibration, CollectionSoFar, BlockSoFar, ValidMeansLoaded
<1>2. CASE CM_Idle
  <2>1. /\ cm' \in {"loadCollection", "openBlock", "error"}
        /\ info'.posixTime = Null /\ info'.blocks = {}
    BY <1>2 DEF CM_Idle, NoCalibration
  <2>2. cm' = "openBlock" =>
          /\ blockFiles' = <<cmFile'>> /\ blockIndex' = 1
          /\ info'.numberOfBlocks = 1 /\ IsBlock(cmFile)'
    BY <1>2 DEF CM_Idle, NoCalibration, IsCollection, IsBlock
  <2> QED
    BY <2>1, <2>2 DEF CollectionSoFar, BlockSoFar, ValidMeansLoaded
<1>3. CASE CM_LoadCollection
  <2>1. CASE cm' = "error"
    BY <2>1 DEF CollectionSoFar, BlockSoFar, ValidMeansLoaded
  <2>2. CASE cm' # "error"
    <3> DEFINE listed == BlocksOf[fileDB[cmFile]]
               found == [i \in DOMAIN listed |-> Find(listed[i], blocks)]
    <3>1. /\ fileDB[cmFile] \in Collections
          /\ info' = [info EXCEPT !.file = cmFile, !.posixTime = fileDB[cmFile],
                                  !.numberOfBlocks = Len(listed)]
          /\ blockFiles' = found /\ blockIndex' = 1 /\ blockIndex = 1 /\ info.blocks = {}
          /\ cm' = "openBlock" /\ Null \notin Listed(found)
          /\ UNCHANGED <<cmFile, fileDB, closed>>
      BY <1>3, <2>2 DEF CM_LoadCollection
    <3>2. listed \in Seq(Blocks) /\ Len(listed) \in Nat
      BY <3>1
    <3>3. \A i \in DOMAIN listed : fileDB[found[i]] = listed[i]
      BY <3>1, <3>2, FindType DEF Listed
    <3>4. Len(found) = Len(listed) /\ DOMAIN found = DOMAIN listed
      BY <3>2
    <3>5. info'.posixTime = fileDB[cmFile] /\ info'.numberOfBlocks = Len(listed) /\ info'.blocks = {}
      BY <3>1
    <3>6. ~IsBlock(cmFile)' /\ info'.posixTime \notin Blocks /\ info'.posixTime # Null
      BY <3>1, <3>5 DEF IsBlock
    <3>7. CollectionSoFar'
      <4>1. BlocksOf[info'.posixTime] = listed
        BY <3>5
      <4>2. \A i \in DOMAIN listed : fileDB'[blockFiles'[i]] = listed[i]
        BY <3>1, <3>3
      <4>3. Len(blockFiles') = Len(listed) /\ blockIndex' = 1
        BY <3>1, <3>4
      <4> HIDE DEF listed, found
      <4>4. \A i \in 1..(blockIndex' - 1) : FALSE
        BY <4>3
      <4>5. \A b \in info'.blocks : FALSE
        BY <3>5
      <4>6. info'.numberOfBlocks = Len(BlocksOf[info'.posixTime])
        BY <3>5, <4>1
      <4>7. Len(blockFiles') = Len(BlocksOf[info'.posixTime])
        BY <4>3, <4>1
      <4>8. \A i \in DOMAIN BlocksOf[info'.posixTime] :
              fileDB'[blockFiles'[i]] = BlocksOf[info'.posixTime][i]
        BY <4>1, <4>2
      <4>9. cm' = "openBlock"
        BY <3>1
      <4> QED
        BY <3>6, <4>4, <4>5, <4>6, <4>7, <4>8, <4>9 DEF CollectionSoFar
    <3>8. BlockSoFar' /\ ValidMeansLoaded'
      BY <3>1, <3>6 DEF BlockSoFar, ValidMeansLoaded
    <3> QED
      BY <3>7, <3>8
  <2> QED
    BY <2>1, <2>2
<1>4. CASE CM_OpenBlock
  <2>1. cm' \in {"error", "loadBlock"}
    BY <1>4 DEF CM_OpenBlock
  <2>2. UNCHANGED <<fileDB, closed, info, blockFiles, blockIndex, cmFile>>
    BY <1>4 DEF CM_OpenBlock
  <2>3. CollectionSoFar'
    BY <1>4, <2>1, <2>2 DEF CM_OpenBlock, CollectionSoFar, IsBlock
  <2>4. BlockSoFar' /\ ValidMeansLoaded'
    BY <1>4, <2>1, <2>2 DEF CM_OpenBlock, BlockSoFar, ValidMeansLoaded, IsBlock
  <2> QED
    BY <2>3, <2>4
<1>5. CASE CM_LoadBlock
  <2>1. CASE cm' = "error"
    BY <2>1 DEF CollectionSoFar, BlockSoFar, ValidMeansLoaded
  <2>2. CASE cm' # "error"
    <3>1. /\ cm = "loadBlock" /\ cm' = "finalizeBlock"
          /\ fd' = "open" /\ fileDB[CurrentBlock] \in Blocks
          /\ UNCHANGED <<fileDB, closed, blockFiles, blockIndex, cmFile>>
          /\ info' = IF IsBlock(cmFile) THEN [info EXCEPT !.posixTime = fileDB[CurrentBlock]]
                                        ELSE info
      BY <1>5, <2>2 DEF CM_LoadBlock
    <3>2. CASE IsBlock(cmFile)
      <4>1. blockFiles = <<cmFile>> /\ blockIndex = 1 /\ info.numberOfBlocks = 1 /\ info.blocks = {}
        BY <3>1, <3>2 DEF BlockSoFar
      <4>2. CurrentBlock = cmFile
        BY <4>1 DEF CurrentBlock
      <4>3. /\ info'.posixTime = fileDB[cmFile] /\ info'.posixTime \in Blocks
            /\ info'.numberOfBlocks = 1 /\ info'.blocks = {}
        BY <3>1, <3>2, <4>1, <4>2
      <4> QED
        BY <3>1, <4>1, <4>3 DEF CollectionSoFar, BlockSoFar, ValidMeansLoaded
    <3>3. CASE ~IsBlock(cmFile)
      <4>1. UNCHANGED info /\ info.posixTime \notin Blocks
        BY <3>1, <3>3 DEF BlockSoFar
      <4>2. info.posixTime # Null
        BY <3>1, <3>3 DEF BlockSoFar, CurrentBlock
      <4>3. CollectionSoFar'
        BY <3>1, <4>1 DEF CollectionSoFar, IsBlock
      <4> QED
        BY <3>1, <4>1, <4>2, <4>3 DEF BlockSoFar, ValidMeansLoaded
    <3> QED
      BY <3>2, <3>3
  <2> QED
    BY <2>1, <2>2
<1>6. CASE CM_FinalizeBlock
  <2>1. CASE fd # "open"
    BY <1>6, <2>1 DEF CM_FinalizeBlock, CollectionSoFar, BlockSoFar, ValidMeansLoaded
  <2>2. CASE fd = "open"
    <3> DEFINE loaded == [index |-> blockIndex, file |-> CurrentBlock,
                          posixTime |-> fileDB[CurrentBlock]]
    <3>1. /\ cm = "finalizeBlock" /\ fd' = "none"
          /\ info' = [info EXCEPT !.blocks = @ \cup {loaded}]
          /\ blockIndex' = blockIndex + 1
          /\ cm' = IF blockIndex < info.numberOfBlocks THEN "openBlock"
                                                       ELSE "finalizeCollection"
          /\ UNCHANGED <<fileDB, closed, blockFiles, cmFile>>
      BY <1>6, <2>2 DEF CM_FinalizeBlock
    <3>2. /\ info'.posixTime = info.posixTime /\ info'.numberOfBlocks = info.numberOfBlocks
          /\ info'.blocks = info.blocks \cup {loaded}
      BY <3>1
    <3>3. /\ loaded.index = blockIndex /\ loaded.posixTime = fileDB[CurrentBlock]
          /\ fileDB[CurrentBlock] # Null /\ info.posixTime # Null
          /\ blockIndex \in Nat /\ blockIndex \in DOMAIN blockFiles /\ blockFiles \in Seq(Slots)
          /\ blockIndex >= 1 /\ blockIndex <= Len(blockFiles) /\ Len(blockFiles) \in Nat
      BY <2>2, <3>1 DEF BlockSoFar
    <3> HIDE DEF loaded
    <3>4. CASE info.posixTime \in Collections
      <4> DEFINE expected == BlocksOf[info.posixTime]
      <4>1. /\ info.numberOfBlocks = Len(expected) /\ Len(blockFiles) = Len(expected)
            /\ \A i \in DOMAIN expected : fileDB[blockFiles[i]] \in {expected[i], Null}
            /\ \A b \in info.blocks : b.index < blockIndex /\ b.posixTime = expected[b.index]
            /\ \A i \in 1..(blockIndex - 1) : \E b \in info.blocks : b.index = i
            /\ ~IsBlock(cmFile) /\ DOMAIN expected = 1..Len(expected)
        BY <3>1, <3>4 DEF CollectionSoFar
      <4>2. loaded.posixTime = expected[blockIndex]
        BY <3>3, <4>1 DEF CurrentBlock
      <4> HIDE DEF expected
      <4>3. \A b \in info'.blocks : b.index < blockIndex' /\ b.posixTime = expected[b.index]
        <5>1. \A b \in info.blocks : b.index \in Nat
          BY DEF LoadedBlock
        <5>2. \A b \in info.blocks : b.index < blockIndex + 1
          BY <3>3, <4>1, <5>1
        <5> QED
          BY <3>1, <3>2, <3>3, <4>1, <4>2, <5>2
      <4>4. \A i \in 1..(blockIndex' - 1) : \E b \in info'.blocks : b.index = i
        <5> SUFFICES ASSUME NEW i \in 1..(blockIndex' - 1)
                     PROVE  \E b \in info'.blocks : b.index = i
          OBVIOUS
        <5>1. i = blockIndex \/ i \in 1..(blockIndex - 1)
          BY <3>1, <3>3
        <5>2. CASE i = blockIndex
          BY <3>2, <3>3, <5>2
        <5>3. CASE i \in 1..(blockIndex - 1)
          BY <3>2, <4>1, <5>3
        <5> QED
          BY <5>1, <5>2, <5>3
      <4>5. cm' = "finalizeCollection" => blockIndex' = Len(expected) + 1
        BY <3>1, <3>3, <4>1
      <4>6. \A i \in DOMAIN expected : fileDB'[blockFiles'[i]] \in {expected[i], Null}
        BY <3>1, <4>1
      <4>7. Len(blockFiles') = Len(expected) /\ info'.numberOfBlocks = Len(expected)
        BY <3>1, <3>2, <4>1
      <4>8. ~IsBlock(cmFile)'
        BY <3>1, <4>1 DEF IsBlock
      <4>9. BlocksOf[info'.posixTime] = expected
        BY <3>2 DEF expected
      <4>10. CollectionSoFar'
        BY <4>3, <4>4, <4>5, <4>6, <4>7, <4>8, <4>9 DEF CollectionSoFar
      <4>11. info'.posixTime \notin Blocks /\ info'.posixTime # Null
        BY <3>2, <3>4
      <4>12. cm' \in {"openBlock", "finalizeCollection"}
        BY <3>1
      <4>13. BlockSoFar' /\ ValidMeansLoaded'
        BY <4>8, <4>11, <4>12 DEF BlockSoFar, ValidMeansLoaded
      <4> QED
        BY <4>10, <4>13
    <3>5. CASE info.posixTime \in Blocks
      <4>1. /\ blockFiles = <<cmFile>> /\ blockIndex = 1 /\ info.numberOfBlocks = 1
            /\ info.blocks = {} /\ fileDB[cmFile] = info.posixTime
        BY <2>2, <3>1, <3>5 DEF BlockSoFar
      <4>2. cm' = "finalizeCollection" /\ info'.blocks = {loaded} /\ loaded.index = 1
            /\ loaded.posixTime = info'.posixTime /\ info'.numberOfBlocks = 1
        BY <3>1, <3>2, <3>3, <4>1 DEF CurrentBlock
      <4>3. info'.posixTime \notin Collections /\ info'.posixTime \in Blocks
        BY <3>2, <3>5
      <4> QED
        BY <4>2, <4>3 DEF CollectionSoFar, BlockSoFar, ValidMeansLoaded
    <3> QED
      BY <3>3, <3>4, <3>5
  <2> QED
    BY <2>1, <2>2
<1>7. CASE CM_FinalizeCollection
  <2>1. CASE cm' = "error"
    BY <2>1 DEF CollectionSoFar, BlockSoFar, ValidMeansLoaded
  <2>2. CASE cm' # "error"
    <3>1. /\ cm = "finalizeCollection" /\ cm' = "idle"
          /\ info' = [info EXCEPT !.isValid = TRUE]
      BY <1>7, <2>2 DEF CM_FinalizeCollection
    <3>2. /\ info'.posixTime = info.posixTime /\ info'.blocks = info.blocks
          /\ info'.numberOfBlocks = info.numberOfBlocks
      BY <3>1
    <3>3. CASE info.posixTime \in Collections
      <4> DEFINE expected == BlocksOf[info.posixTime]
      <4>1. /\ info.numberOfBlocks = Len(expected) /\ blockIndex = Len(expected) + 1
            /\ \A b \in info.blocks : b.index < blockIndex /\ b.posixTime = expected[b.index]
            /\ \A i \in 1..(blockIndex - 1) : \E b \in info.blocks : b.index = i
            /\ DOMAIN expected = 1..Len(expected) /\ Len(expected) \in Nat
        BY <3>1, <3>3 DEF CollectionSoFar
      <4>2. \A b \in info.blocks : b.index \in Nat \ {0}
        BY DEF LoadedBlock
      <4> HIDE DEF expected
      <4>3. {<<b.index, b.posixTime>> : b \in info.blocks} = {<<i, expected[i]>> : i \in DOMAIN expected}
        <5>1. \A b \in info.blocks : b.index \in DOMAIN expected /\ b.posixTime = expected[b.index]
          BY <4>1, <4>2
        <5>2. DOMAIN expected = 1..(blockIndex - 1)
          BY <4>1
        <5>3. \A i \in DOMAIN expected : \E b \in info.blocks : b.index = i
          BY <4>1, <5>2
        <5>4. Pairs(info.blocks) = Places(expected)
          BY <5>1, <5>3, SamePairs
        <5> QED
          BY <5>4 DEF Pairs, Places
      <4>4. {b \in info.blocks : b.index <= info.numberOfBlocks} = info.blocks
        BY <4>1, <4>2
      <4>5. {<<b.index, b.posixTime>> : b \in LoadedBlocks'} = {<<i, expected[i]>> : i \in DOMAIN expected}
        BY <3>2, <4>3, <4>4 DEF LoadedBlocks
      <4> QED
        BY <3>1, <3>2, <3>3, <4>5 DEF expected, CollectionSoFar, BlockSoFar, ValidMeansLoaded
    <3>4. CASE info.posixTime \in Blocks
      <4>1. info.numberOfBlocks = 1
        BY <3>1, <3>4 DEF BlockSoFar
      <4>2. PICK b \in info.blocks : info.blocks = {b} /\ b.index = 1 /\ b.posixTime = info.posixTime
        BY <3>1, <3>4 DEF BlockSoFar
      <4>3. LoadedBlocks' = {b}
        BY <3>2, <4>1, <4>2 DEF LoadedBlocks
      <4>4. DOMAIN <<info.posixTime>> = {1}
        OBVIOUS
      <4>5. {<<c.index, c.posixTime>> : c \in LoadedBlocks'}
              = {<<i, <<info.posixTime>>[i]>> : i \in DOMAIN <<info.posixTime>>}
        BY <4>2, <4>3, <4>4
      <4> QED
        BY <3>1, <3>2, <3>4, <4>5 DEF CollectionSoFar, BlockSoFar, ValidMeansLoaded
    <3>5. CASE info.posixTime = Null
      BY <3>1, <3>2, <3>5 DEF CollectionSoFar, BlockSoFar, ValidMeansLoaded
    <3> QED
      BY <3>3, <3>4, <3>5
  <2> QED
    BY <2>1, <2>2
<1>8. CASE CM_Error
  BY <1>8 DEF CM_Error, Calibration_Reset, NoCalibration, CollectionSoFar, BlockSoFar, ValidMeansLoaded
<1> QED
  BY <1>1, <1>2, <1>3, <1>4, <1>5, <1>6, <1>7, <1>8 DEF Calibration_SM

LEMMA FileManagerWhole ==
  ASSUME Whole, File_Manager_SM
  PROVE  Whole'
<1>1. UNCHANGED <<fileDB, closed, info, cm, cmFile, blockFiles, blockIndex, fd>>
  BY DEF File_Manager_SM, FM_Fill, FM_FillDone, FM_Refill, fmUnchanged, database, loading, request
<1> QED
  BY <1>1 DEF Whole, CollectionSoFar, BlockSoFar, ValidMeansLoaded, IsBlock, LoadedBlocks

(* An upload only names a record that a load has not found.                *)
LEMMA ClientWhole ==
  ASSUME Sound, Whole, DatabaseInOrder, OnlyUploads => RecordsKept, Client, NoReuse
  PROVE  Whole'
<1> USE CalibrationAssumption DEF Sound, TypeOK, LoadInOrder, Whole, Files
<1>1. CASE CollectionLoad \/ Reload \/ BlockLoad
  <2>1. PICK slot : LoadCalibrationFile(slot)
    BY <1>1 DEF CollectionLoad, Reload, BlockLoad, LoadPOSIXTime
  <2>2. cm = "idle" /\ cm' = "idle" /\ UNCHANGED info
    BY <2>1 DEF LoadCalibrationFile, Client, BusyIsExplained
  <2> QED
    BY <2>2 DEF CollectionSoFar, BlockSoFar, ValidMeansLoaded, LoadedBlocks
<1>2. CASE CalibrationMode
  <2>1. UNCHANGED <<fileDB, closed, info, cm, cmFile, blockFiles, blockIndex, fd>>
    BY <1>2 DEF CalibrationMode, database, request, loading
  <2> QED
    BY <2>1 DEF CollectionSoFar, BlockSoFar, ValidMeansLoaded, IsBlock, LoadedBlocks
<1>3. CASE FM_Create \/ FM_Close
  <2>1. RecordsKept /\ cmFile \in closed \cup {Null}
    BY <1>3 DEF FM_Create, FM_Close, Serving, NoReuse, RecordsKept
  <2>2. UNCHANGED <<fd, info, cm, cmFile, blockFiles, blockIndex>>
    BY <1>3 DEF FM_Create, FM_Close, fmUnchanged, request, loading
  <2>3. \A s \in closed : fileDB'[s] = fileDB[s] /\ s \in closed'
    <3>1. CASE FM_Create
      <4>1. PICK slot \in Slots :
              fileDB[slot] = Null /\ \A s \in Slots \ {slot} : fileDB'[s] = fileDB[s]
        BY <3>1 DEF FM_Create
      <4> QED
        BY <3>1, <4>1 DEF FM_Create, DatabaseInOrder
    <3>2. CASE FM_Close
      BY <3>2 DEF FM_Close
    <3> QED
      BY <1>3, <3>1, <3>2
  <2>4. IsBlock(cmFile)' <=> IsBlock(cmFile)
    <3>1. Null \notin closed /\ Null \notin closed'
      <4>1. closed' \subseteq Slots
        BY <1>3 DEF FM_Create, FM_Close
      <4> QED
        BY <4>1
    <3> QED
      BY <2>1, <2>2, <2>3, <3>1 DEF IsBlock
  <2>5. cm \in {"openBlock", "loadBlock", "finalizeBlock"} =>
          /\ \A i \in DOMAIN blockFiles : fileDB'[blockFiles[i]] = fileDB[blockFiles[i]]
          /\ fileDB'[cmFile] = fileDB[cmFile]
    BY <2>1, <2>3 DEF RecordsKept, BusyIsExplained
  <2>6. CollectionSoFar'
    BY <2>2, <2>4, <2>5 DEF CollectionSoFar
  <2>7. BlockSoFar'
    BY <2>1, <2>2, <2>4, <2>5 DEF BlockSoFar, RecordsKept
  <2>8. ValidMeansLoaded'
    BY <2>2 DEF ValidMeansLoaded, LoadedBlocks
  <2> QED
    BY <2>6, <2>7, <2>8
<1>4. CASE FM_Delete
  <2>1. PICK slot \in Slots :
          /\ ~(fd = "open" /\ slot = CurrentBlock)
          /\ fileDB' = [fileDB EXCEPT ![slot] = Null]
          /\ closed' = closed \ {slot}
          /\ IF UsedByCalibration(slot) THEN Calibration_Reset
                                        ELSE UNCHANGED <<info, calInit>>
    BY <1>4 DEF FM_Delete
  <2>2. /\ \A s \in Slots : fileDB'[s] \in {fileDB[s], Null}
        /\ \A s \in Slots \ {slot} : fileDB'[s] = fileDB[s]
        /\ fileDB'[slot] = Null /\ closed' \subseteq closed
    BY <2>1
  <2>3. UNCHANGED <<fd, cm, cmFile, blockFiles, blockIndex>>
    BY <1>4 DEF FM_Delete, fmUnchanged, request, loading
  <2>4. IsBlock(cmFile)' => IsBlock(cmFile)
    BY <2>2, <2>3 DEF IsBlock
  <2>5. CASE UsedByCalibration(slot)
    <3>1. info.isValid /\ info' = NoCalibration
      BY <2>1, <2>5 DEF UsedByCalibration, Calibration_Reset
    <3>2. cm' \notin {"openBlock", "loadBlock", "finalizeBlock", "finalizeCollection"}
      BY <2>3, <3>1
    <3> QED
      BY <3>1, <3>2 DEF NoCalibration, CollectionSoFar, BlockSoFar, ValidMeansLoaded
  <2>6. CASE ~UsedByCalibration(slot)
    <3>1. UNCHANGED info
      BY <2>1, <2>6
    <3>2. ValidMeansLoaded'
      BY <2>3, <3>1 DEF ValidMeansLoaded, LoadedBlocks
    <3>3. CollectionSoFar'
      BY <2>2, <2>3, <2>4, <3>1 DEF CollectionSoFar
    <3>4. BlockSoFar'
      BY <2>1, <2>2, <2>3, <2>4, <3>1 DEF BlockSoFar, CurrentBlock, IsBlock
    <3> QED
      BY <3>2, <3>3, <3>4
  <2> QED
    BY <2>5, <2>6
<1>5. CASE FM_Format
  <2>1. /\ info' = NoCalibration /\ fileDB' = [s \in Slots |-> Null] /\ fd' # "open"
        /\ closed' = {} /\ UNCHANGED <<cm, cmFile, blockFiles, blockIndex>>
    BY <1>5 DEF FM_Format, Calibration_Reset, fmUnchanged, request, loading
  <2> QED
    BY <2>1 DEF NoCalibration, CollectionSoFar, BlockSoFar, ValidMeansLoaded, IsBlock
<1> QED
  BY <1>1, <1>2, <1>3, <1>4, <1>5 DEF Client

-----------------------------------------------------------------------------
(* The inductive invariant holds in every reachable state.                 *)
THEOREM Invariance == Spec => []IInv
<1>1. IInv <=> /\ Sound /\ DatabaseInOrder
               /\ CollectionsReadable => FilledInOrder
               /\ OnlyUploads => RecordsKept
               /\ NoReuse => Whole
  BY DEF IInv, Sound, Whole
<1>2. Init => IInv
  <2> SUFFICES ASSUME Init
               PROVE  IInv
    OBVIOUS
  <2>1. Sound /\ DatabaseInOrder
    BY InitSound, InitDatabase
  <2>2. CollectionsReadable => FilledInOrder
    BY <2>1, InitFilled
  <2>3. RecordsKept
    BY DEF Init, RecordsKept
  <2>4. Whole
    BY DEF Init, NoCalibration, Whole, CollectionSoFar, BlockSoFar, ValidMeansLoaded
  <2> QED
    BY <1>1, <2>1, <2>2, <2>3, <2>4
<1>3. IInv /\ [Next]_vars => IInv'
  <2> SUFFICES ASSUME IInv, [Next]_vars
               PROVE  IInv'
    OBVIOUS
  <2>1. Sound /\ Sound'
    BY <1>1, SoundIsInductive
  <2>2. DatabaseInOrder /\ DatabaseInOrder'
    BY <1>1, <2>1, DatabaseStaysInOrder DEF Sound
  <2>3. CollectionsReadable => FilledInOrder'
    BY <1>1, <2>1, <2>2, FillingStaysInOrder DEF Sound
  <2>4. OnlyUploads => RecordsKept'
    BY <1>1, <2>1, <2>2, RecordsStay DEF Sound
  <2>5. ASSUME NoReuse
        PROVE  Whole'
    <3>1. Whole
      BY <1>1, <2>5
    <3>2. CASE Next
      BY <1>1, <2>1, <2>2, <2>5, <3>1, <3>2, CalibrationWhole, FileManagerWhole, ClientWhole
         DEF Next
    <3>3. CASE UNCHANGED vars
      BY <3>1, <3>3 DEF vars, database, request, loading, Whole, CollectionSoFar, BlockSoFar,
                        ValidMeansLoaded, IsBlock, LoadedBlocks
    <3> QED
      BY <3>2, <3>3
  <2> QED
    BY <2>1, <2>2, <2>3, <2>4, <2>5 DEF IInv, Sound, Whole, CollectionsReadable, OnlyUploads, NoReuse
<1> QED
  BY <1>2, <1>3, PTL DEF Spec

(* No two records ever name the same file, and a list only holds records   *)
(* that are closed and of its kind, each once: the searches by POSIX time  *)
(* find one record or none (FileManager.c).                                *)
THEOREM DatabaseIsSound == Spec => []DatabaseInOrder
<1>1. IInv => DatabaseInOrder
  BY DEF IInv
<1> QED
  BY <1>1, Invariance, PTL

(* As long as every collection can be read, no collection is served before *)
(* its information is filled, whatever the client uploads, deletes or      *)
(* formats while the list is gone through (FileManager.c).                 *)
THEOREM CollectionsAreFilled ==
  ASSUME CollectionsReadable
  PROVE  Spec => []FilledWhenServing
<1>1. IInv => FilledWhenServing
  <2> SUFFICES ASSUME IInv, collectionIdx >= Len(collections)
               PROVE  Listed(collections) \subseteq filled
    BY DEF FilledWhenServing
  <2>1. \A i \in DOMAIN collections : i <= collectionIdx
    BY DEF IInv, TypeOK
  <2> QED
    BY <2>1 DEF IInv, FilledInOrder, Listed
<1> QED
  BY <1>1, Invariance, PTL

(* A load that has ended, with or without an error, never leaves the       *)
(* manager refusing every later one (Calibration.c).                       *)
THEOREM ManagerIsBusyForAReason == Spec => []BusyIsExplained
<1>1. IInv => BusyIsExplained
  BY DEF IInv
<1> QED
  BY <1>1, Invariance, PTL

(* Whatever removes a calibration, or fails to load one, the status bit    *)
(* says so (Calibration.c, FileManager.c).                                 *)
THEOREM InitBitTellsValidity == Spec => []InitBitAgrees
<1>1. IInv => InitBitAgrees
  BY DEF IInv
<1> QED
  BY <1>1, Invariance, PTL

(* The tables of a valid calibration can be read again whenever the mode   *)
(* changes: no record it was loaded from is cleared or given to another    *)
(* file meanwhile (Calibration.c, FileManager.c).                          *)
THEOREM ValidCanBeReadAgain == Spec => []BlocksCanBeRead
<1>1. IInv => BlocksCanBeRead
  BY DEF IInv
<1> QED
  BY <1>1, Invariance, PTL

(* With deletions and formats at any step of a load, or with uploads at    *)
(* any step, a valid calibration holds every block that its collection     *)
(* lists, in its place (Calibration.c).                                    *)
THEOREM ValidCalibrationsAreWhole ==
  ASSUME NoReuse
  PROVE  Spec => []ValidMeansLoaded
<1>1. IInv => ValidMeansLoaded
  BY DEF IInv
<1> QED
  BY <1>1, Invariance, PTL

(* As long as no read fails, the images are held up exactly by the loads:  *)
(* a failed load does not leave the acquisition waiting, and the change of *)
(* a mode never starts waiting for nothing (Calibration.c).                *)
THEOREM ImagesWaitForLoadsOnly ==
  ASSUME ~ChecksFail
  PROVE  Spec => []DataBitMeansLoading
<1>1. Init => DataBitMeansLoading
  BY DEF Init, DataBitMeansLoading
<1>2. IInv /\ DataBitMeansLoading /\ [Next]_vars => DataBitMeansLoading'
  <2> SUFFICES ASSUME IInv, DataBitMeansLoading, [Next]_vars
               PROVE  DataBitMeansLoading'
    OBVIOUS
  <2> USE DEF DataBitMeansLoading
  <2>1. CASE Calibration_SM
    BY <2>1 DEF Calibration_SM, CM_Init, CM_Idle, CM_LoadCollection, CM_OpenBlock, CM_LoadBlock,
                CM_FinalizeBlock, CM_FinalizeCollection, CM_Error, status
  <2>2. CASE File_Manager_SM
    BY <2>2 DEF File_Manager_SM, FM_Fill, FM_FillDone, FM_Refill, fmUnchanged
  <2>3. CASE CollectionLoad \/ Reload \/ BlockLoad
    BY <2>3 DEF CollectionLoad, Reload, BlockLoad, LoadPOSIXTime, LoadCalibrationFile, status
  <2>4. CASE Client /\ CalibrationMode
    <3>1. info.isValid /\ ~LoadLUTRQ /\ cm # "init" /\ UNCHANGED cm
      BY <2>4 DEF CalibrationMode, Client
    <3>2. cm = "error"
      BY <3>1 DEF IInv, BlocksCanBeRead, LoadInOrder, TypeOK
    <3> QED
      BY <3>1, <3>2
  <2>5. CASE FM_Create \/ FM_Close \/ FM_Delete \/ FM_Format
    BY <2>5 DEF FM_Create, FM_Close, FM_Delete, FM_Format, fmUnchanged
  <2>6. CASE UNCHANGED vars
    BY <2>6 DEF vars, status
  <2> QED
    BY <2>1, <2>2, <2>3, <2>4, <2>5, <2>6 DEF Next, Client
<1> QED
  BY <1>1, <1>2, Invariance, PTL DEF Spec

-----------------------------------------------------------------------------
(* The contract of the manager, step by step.  Most steps are not seen     *)
(* from outside.                                                           *)
Unseen == UNCHANGED <<Phase, Asked, Served>>

LEMMA InitKept ==
  ASSUME Init
  PROVE  Contract!Init
BY DEF Init, NoCalibration, Contract!Init, Phase, Asked, Served

(* A request for a file that is listed, when none is pending.              *)
LEMMA AskKept ==
  ASSUME IInv, cm' = "idle", cmFile = Null, Served' = Served,
         cmLoad' = TRUE, UNCHANGED fileDB,
         cmFile' \in Listed(collections) \cup Listed(blocks)
  PROVE  Contract!Ask
<1> USE CalibrationAssumption
<1>1. cmFile' \in Slots /\ fileDB[cmFile'] \in Files
  BY DEF IInv, DatabaseInOrder, IsCollection, IsBlock, Listed, TypeOK, Files
<1>2. Phase = "free" /\ Phase' = "pending"
  BY <1>1 DEF Phase
<1>3. Asked' = fileDB[cmFile']
  BY <1>1 DEF Asked
<1> QED
  BY <1>1, <1>2, <1>3 DEF Contract!Ask

(* The steps of a load.                                                    *)
LEMMA LoadKept ==
  ASSUME IInv, NoReuse, Calibration_SM
  PROVE  Contract!Next \/ Unseen
<1> USE CalibrationAssumption DEF IInv, BusyIsExplained, LoadInOrder, cmUnchanged, database,
        request, status, NoCalibration
<1> cm \in {"init", "idle", "loadCollection", "openBlock", "loadBlock", "finalizeBlock",
            "finalizeCollection", "error"}
  BY DEF TypeOK
<1>1. CASE CM_Init
  <2>1. cm = "init" /\ cmFile = Null /\ cm' = "idle" /\ Served = Null /\ Served' = Null
        /\ UNCHANGED fileDB
    BY <1>1 DEF CM_Init, Calibration_Reset, Served
  <2>2. CASE collections = <<>>
    BY <1>1, <2>1, <2>2 DEF CM_Init, Unseen, Phase, Asked
  <2>3. CASE collections # <<>>
    <3>1. cmLoad' = TRUE /\ cmFile' = IF Find(startup, collections) # Null
                                      THEN Find(startup, collections) ELSE collections[1]
      BY <1>1, <2>3 DEF CM_Init
    <3>2. collections[1] \in Listed(collections)
      BY <2>3 DEF Listed, TypeOK
    <3>3. cmFile' \in Listed(collections)
      BY <3>1, <3>2 DEF Find
    <3> QED
      BY <2>1, <3>1, <3>3, AskKept DEF Contract!Next
  <2> QED
    BY <2>2, <2>3
<1>2. CASE CM_Idle
  <2>1. /\ cm = "idle" /\ cmLoad /\ cmLoad' = FALSE /\ cmFile # Null /\ UNCHANGED <<cmFile, fileDB>>
        /\ cm' \in {"loadCollection", "openBlock", "error"} /\ info'.posixTime = Null
    BY <1>2 DEF CM_Idle
  <2>2. Phase = "pending" /\ Phase' = "loading" /\ Served' = Null
    BY <2>1 DEF Phase, Served
  <2>3. Asked = fileDB[cmFile] /\ Asked' \in {fileDB[cmFile], Null}
    BY <2>1 DEF Asked
  <2> QED
    BY <2>2, <2>3 DEF Contract!Next, Contract!Begin
<1>3. ASSUME cm \notin {"init", "idle"}, UNCHANGED <<cmFile, cmLoad>>, cm' = "error"
      PROVE  Contract!Lose
  <2>1. Phase = "loading" /\ Phase' = "loading" /\ Served = Null /\ Served' = Null
    BY <1>3 DEF Phase, Served
  <2>2. Asked' = Null
    BY <1>3 DEF Asked
  <2> QED
    BY <2>1, <2>2 DEF Contract!Lose
<1>4. ASSUME cm \notin {"init", "idle"}, cm' \notin {"idle"}, UNCHANGED <<cmFile, cmLoad>>,
             Asked' = Asked
      PROVE  Unseen
  <2>1. Phase = "loading" /\ Phase' = "loading" /\ Served = Null /\ Served' = Null
    BY <1>4 DEF Phase, Served
  <2> QED
    BY <1>4, <2>1 DEF Unseen
<1>5. CASE CM_LoadCollection
  <2>1. cm = "loadCollection" /\ cm' \in {"openBlock", "error"} /\ UNCHANGED <<cmFile, cmLoad, fileDB>>
    BY <1>5 DEF CM_LoadCollection
  <2>2. cm' = "openBlock" => info'.posixTime = fileDB[cmFile] /\ fileDB[cmFile] \in Collections
    <3> SUFFICES ASSUME cm' = "openBlock"
                 PROVE  info'.posixTime = fileDB[cmFile] /\ fileDB[cmFile] \in Collections
      OBVIOUS
    <3> DEFINE n == Len(BlocksOf[fileDB[cmFile]])
    <3>1. /\ fileDB[cmFile] \in Collections
          /\ info' = [info EXCEPT !.file = cmFile, !.posixTime = fileDB[cmFile], !.numberOfBlocks = n]
      BY <1>5 DEF CM_LoadCollection
    <3> HIDE DEF n
    <3> QED
      BY <3>1 DEF TypeOK
  <2>3. cm' = "openBlock" => Asked' = Asked
    BY <2>1, <2>2 DEF Asked, Files
  <2> QED
    BY <1>3, <1>4, <2>1, <2>3 DEF Contract!Next
<1>6. CASE CM_OpenBlock
  <2>1. cm = "openBlock" /\ cm' \in {"loadBlock", "error"} /\ UNCHANGED <<cmFile, cmLoad, fileDB, info>>
    BY <1>6 DEF CM_OpenBlock
  <2>2. cm' = "loadBlock" => Asked' = Asked
    BY <2>1 DEF Asked
  <2> QED
    BY <1>3, <1>4, <2>1, <2>2 DEF Contract!Next
<1>7. CASE CM_LoadBlock
  <2>1. cm = "loadBlock" /\ cm' \in {"finalizeBlock", "error"} /\ UNCHANGED <<cmFile, cmLoad, fileDB>>
    BY <1>7 DEF CM_LoadBlock
  <2>2. ASSUME cm' = "finalizeBlock"
        PROVE  Asked' = Asked
    <3>1. /\ fileDB[CurrentBlock] \in Blocks
          /\ info' = IF IsBlock(cmFile) THEN [info EXCEPT !.posixTime = fileDB[CurrentBlock]]
                                        ELSE info
      BY <1>7, <2>2 DEF CM_LoadBlock
    <3>2. CASE IsBlock(cmFile)
      <4>1. CurrentBlock = cmFile
        BY <2>1, <3>2 DEF BlockSoFar, CurrentBlock
      <4>2. info.posixTime = Null
        BY <2>1, <3>2 DEF BlockSoFar, CollectionSoFar, TypeOK, Files
      <4>3. info'.posixTime = fileDB[cmFile] /\ fileDB[cmFile] # Null
        BY <3>1, <3>2, <4>1 DEF TypeOK, Files
      <4> QED
        BY <2>1, <2>2, <4>2, <4>3 DEF Asked
    <3>3. CASE ~IsBlock(cmFile)
      <4>1. fileDB[CurrentBlock] # Null
        BY <3>1 DEF Files
      <4>2. blockIndex \in DOMAIN blockFiles
        BY <2>1
      <4>3. info.posixTime # Null
        BY <2>1, <3>3, <4>1, <4>2 DEF BlockSoFar, CurrentBlock
      <4> QED
        BY <2>1, <2>2, <3>1, <3>3, <4>3 DEF Asked
    <3> QED
      BY <3>2, <3>3
  <2> QED
    BY <1>3, <1>4, <2>1, <2>2 DEF Contract!Next
<1>8. CASE CM_FinalizeBlock
  <2>1. /\ cm = "finalizeBlock" /\ cm' \in {"openBlock", "finalizeCollection", "error"}
        /\ UNCHANGED <<cmFile, cmLoad, fileDB>>
    BY <1>8 DEF CM_FinalizeBlock
  <2>2. ASSUME cm' # "error"
        PROVE  Asked' = Asked
    <3>1. fd = "open" /\ info.posixTime # Null
      BY <1>8, <2>1, <2>2 DEF CM_FinalizeBlock, BlockSoFar
    <3> DEFINE loaded == [index |-> blockIndex, file |-> CurrentBlock,
                          posixTime |-> fileDB[CurrentBlock]]
    <3>2. info' = [info EXCEPT !.blocks = @ \cup {loaded}]
      BY <1>8, <3>1 DEF CM_FinalizeBlock
    <3> HIDE DEF loaded
    <3>3. info'.posixTime = info.posixTime
      BY <3>2 DEF TypeOK
    <3> QED
      BY <2>1, <2>2, <3>1, <3>3 DEF Asked
  <2> QED
    BY <1>3, <1>4, <2>1, <2>2 DEF Contract!Next
<1>9. CASE CM_FinalizeCollection
  <2>1. /\ cm = "finalizeCollection" /\ info' = [info EXCEPT !.isValid = TRUE]
        /\ UNCHANGED <<cmLoad, fileDB>>
        /\ \/ cm' = "idle" /\ cmFile' = Null
           \/ cm' = "error" /\ UNCHANGED cmFile
    BY <1>9 DEF CM_FinalizeCollection
  <2>2. CASE cm' = "idle" /\ cmFile' = Null
    <3>1. info'.isValid /\ info'.posixTime = info.posixTime
      BY <2>1 DEF TypeOK
    <3>2. Asked = info.posixTime /\ Asked' = Null
      BY <2>1, <2>2 DEF Asked
    <3>3. Phase = "loading" /\ Phase' = "free" /\ Served' = info.posixTime
      BY <2>1, <2>2, <3>1 DEF Phase, Served
    <3> QED
      BY <3>2, <3>3 DEF Contract!Next, Contract!Finish
  <2> QED
    BY <1>3, <2>1, <2>2 DEF Contract!Next
<1>10. CASE CM_Error
  <2>1. cm = "error" /\ cm' = "idle" /\ cmFile' = Null /\ info' = NoCalibration
    BY <1>10 DEF CM_Error, Calibration_Reset
  <2>2. Phase = "loading" /\ Phase' = "free" /\ Served' = Null /\ Asked' = Null
    BY <2>1 DEF Phase, Served, Asked
  <2> QED
    BY <2>2 DEF Contract!Next, Contract!Fail
<1> QED
  BY <1>1, <1>2, <1>5, <1>6, <1>7, <1>8, <1>9, <1>10 DEF Calibration_SM

(* What the client does to files is at most the loss of the one in service *)
(* or of the one asked for.                                                *)
LEMMA ClientKept ==
  ASSUME IInv, NoReuse, Client
  PROVE  Contract!Next \/ Unseen
<1> USE CalibrationAssumption DEF IInv, BusyIsExplained, database, request
<1>1. CASE CollectionLoad \/ Reload \/ BlockLoad
  <2>1. PICK file : LoadPOSIXTime(file)
    BY <1>1 DEF CollectionLoad, Reload, BlockLoad
  <2>2. /\ cmFile = Null /\ cmFile' # Null /\ cmLoad' = TRUE
        /\ cmFile' \in {Find(file, collections), Find(file, blocks)}
        /\ UNCHANGED <<fileDB, info, cm>>
    BY <2>1 DEF LoadPOSIXTime, LoadCalibrationFile
  <2>3. cm' = "idle"
    BY <2>2 DEF Client, TypeOK
  <2>4. cmFile' \in Listed(collections) \cup Listed(blocks)
    BY <2>2 DEF Find
  <2>5. Served' = Served
    BY <2>2 DEF Served
  <2> QED
    BY <2>2, <2>3, <2>4, <2>5, AskKept DEF Contract!Next
<1>2. ASSUME UNCHANGED <<cm, cmFile, cmLoad, info>>,
             cmFile # Null => fileDB'[cmFile] = fileDB[cmFile]
      PROVE  Unseen
  BY <1>2 DEF Unseen, Phase, Asked, Served
<1>3. CASE CalibrationMode \/ FM_Close
  BY <1>2, <1>3 DEF CalibrationMode, FM_Close, fmUnchanged
<1>4. CASE FM_Create
  <2>1. cmFile # Null => cmFile \in closed
    BY <1>4 DEF FM_Create, Serving, NoReuse, RecordsKept
  <2>2. PICK slot \in Slots : fileDB[slot] = Null /\ \A s \in Slots \ {slot} : fileDB'[s] = fileDB[s]
    BY <1>4 DEF FM_Create, TypeOK
  <2>3. cmFile # Null => fileDB'[cmFile] = fileDB[cmFile]
    BY <2>1, <2>2 DEF DatabaseInOrder, TypeOK
  <2> QED
    BY <1>2, <1>4, <2>3 DEF FM_Create, fmUnchanged
<1>5. CASE FM_Delete
  <2>1. PICK slot \in Slots :
          /\ fileDB' = [fileDB EXCEPT ![slot] = Null]
          /\ IF UsedByCalibration(slot) THEN Calibration_Reset ELSE UNCHANGED <<info, calInit>>
    BY <1>5 DEF FM_Delete
  <2>2. UNCHANGED <<cm, cmFile, cmLoad>>
    BY <1>5 DEF FM_Delete, fmUnchanged
  <2>3. cmFile # Null => fileDB'[cmFile] \in {fileDB[cmFile], Null}
    BY <2>1 DEF TypeOK
  <2>4. CASE UsedByCalibration(slot)
    <3>1. info.isValid /\ info' = NoCalibration
      BY <2>1, <2>4 DEF UsedByCalibration, Calibration_Reset
    <3>2. cm \in {"idle", "error"} \/ cmFile = Null
      BY <3>1 DEF LoadInOrder, TypeOK
    <3>3. Served' = Null /\ Phase' = Phase
      BY <2>2, <3>1 DEF Served, Phase, NoCalibration
    <3>4. Asked' \in {Asked, Null}
      BY <2>2, <2>3, <3>2 DEF Asked
    <3> QED
      BY <3>3, <3>4 DEF Contract!Next, Contract!Lose
  <2>5. CASE ~UsedByCalibration(slot)
    <3>1. UNCHANGED info
      BY <2>1, <2>5
    <3>2. Served' = Served /\ Phase' = Phase
      BY <2>2, <3>1 DEF Served, Phase
    <3>3. Asked' \in {Asked, Null}
      BY <2>2, <2>3, <3>1 DEF Asked
    <3> QED
      BY <3>2, <3>3 DEF Contract!Next, Contract!Lose
  <2> QED
    BY <2>4, <2>5
<1>6. CASE FM_Format
  <2>1. /\ info' = NoCalibration /\ fileDB' = [s \in Slots |-> Null]
        /\ UNCHANGED <<cm, cmFile, cmLoad>>
    BY <1>6 DEF FM_Format, Calibration_Reset, fmUnchanged
  <2>2. info'.posixTime = Null /\ info'.isValid = FALSE
    BY <2>1 DEF NoCalibration
  <2>3. cmFile # Null => fileDB'[cmFile] = Null
    BY <2>1 DEF TypeOK
  <2>4. Served' = Null /\ Phase' = Phase /\ Asked' = Null
    BY <2>1, <2>2, <2>3 DEF Served, Phase, Asked
  <2> QED
    BY <2>4 DEF Contract!Next, Contract!Lose
<1> QED
  BY <1>1, <1>3, <1>4, <1>5, <1>6 DEF Client

(* As long as no record is reused, the file that comes into service is the *)
(* one that was asked for, or none: no request replaces another, nothing   *)
(* is served while a load lasts, and what is deleted or formated meanwhile *)
(* can only take a calibration away (Calibration.c, FileManager.c).        *)
THEOREM ImplementsContract ==
  ASSUME NoReuse
  PROVE  Spec => KeepsContract
<1>1. Init => Contract!Init
  BY InitKept
<1>2. IInv /\ [Next]_vars => [Contract!Next]_(Contract!vars)
  <2> SUFFICES ASSUME IInv, [Next]_vars
               PROVE  Contract!Next \/ Unseen
    BY DEF Contract!vars, Unseen
  <2>1. CASE File_Manager_SM \/ UNCHANGED vars
    <3>1. UNCHANGED <<fileDB, cm, cmLoad, cmFile, info>>
      BY <2>1 DEF File_Manager_SM, FM_Fill, FM_FillDone, FM_Refill, fmUnchanged, vars, database,
                  request
    <3> QED
      BY <3>1 DEF Unseen, Phase, Asked, Served
  <2> QED
    BY <2>1, LoadKept, ClientKept DEF Next
<1> QED
  BY <1>1, <1>2, Invariance, PTL DEF Spec, KeepsContract, Contract!Spec

(* From its first stage a load can only go on: at most one pass over its   *)
(* blocks, whatever is asked, deleted or formated meanwhile, and whatever  *)
(* records are reused (Calibration.c).                                     *)
THEOREM LoadsAreFinite == Spec => LoadIsFinite
<1>1. IInv /\ IInv' /\ [Next]_vars =>
        [cmFile # Null => LoadAdvances \/ UNCHANGED <<cmFile, cmLoad, cm, loading>>]_vars
  <2> SUFFICES ASSUME IInv, IInv', Next, cmFile # Null
               PROVE  LoadAdvances \/ UNCHANGED <<cmFile, cmLoad, cm, loading>>
    OBVIOUS
  <2> USE DEF IInv, LoadInOrder, BusyIsExplained, TypeOK, LoadAdvances, Stage, request
  <2>1. CASE CM_Init \/ CM_FinalizeCollection \/ CM_Error
    BY <2>1 DEF CM_Init, CM_FinalizeCollection, CM_Error
  <2>2. CASE CM_Idle
    BY <2>2 DEF CM_Idle
  <2>3. CASE CM_LoadCollection
    BY <2>3 DEF CM_LoadCollection
  <2>4. ASSUME cm \in {"openBlock", "loadBlock", "finalizeBlock"}
        PROVE  BlockSteps \in Nat
    <3>1. blockIndex \in Nat /\ Len(blockFiles) \in Nat /\ blockIndex <= Len(blockFiles)
      BY <2>4
    <3> QED
      BY <3>1 DEF BlockSteps
  <2>5. CASE CM_OpenBlock \/ CM_LoadBlock
    <3>1. /\ cm \in {"openBlock", "loadBlock"} /\ UNCHANGED <<cmFile, blockFiles, blockIndex>>
          /\ cm' = "error" \/ (cm = "openBlock" /\ cm' = "loadBlock")
                           \/ (cm = "loadBlock" /\ cm' = "finalizeBlock")
      BY <2>5 DEF CM_OpenBlock, CM_LoadBlock, loading
    <3>2. blockIndex \in Nat /\ Len(blockFiles) \in Nat /\ blockIndex <= Len(blockFiles)
      BY <3>1
    <3>3. cm' # "error" => BlockSteps' \in Nat /\ BlockSteps' < BlockSteps
      BY <3>1, <3>2 DEF BlockSteps
    <3> QED
      BY <3>1, <3>3
  <2>6. CASE CM_FinalizeBlock
    <3>1. /\ cm = "finalizeBlock" /\ UNCHANGED <<cmFile, blockFiles>>
          /\ cm' \in {"error", "finalizeCollection"} \/ (cm' = "openBlock" /\ blockIndex' = blockIndex + 1)
      BY <2>6 DEF CM_FinalizeBlock
    <3>2. /\ blockIndex \in Nat /\ Len(blockFiles) \in Nat
          /\ cm' = "openBlock" => blockIndex' <= Len(blockFiles)
      BY <3>1
    <3>3. cm' = "openBlock" => BlockSteps' \in Nat /\ BlockSteps' < BlockSteps
      BY <3>1, <3>2 DEF BlockSteps
    <3> QED
      BY <3>1, <3>3
  <2>7. CASE File_Manager_SM \/ Client
    <3>1. ~(CollectionLoad \/ Reload \/ BlockLoad)
      BY DEF CollectionLoad, Reload, BlockLoad, LoadPOSIXTime, LoadCalibrationFile
    <3> QED
      BY <2>7, <3>1 DEF File_Manager_SM, Client, FM_Fill, FM_FillDone, FM_Refill, FM_Create,
                        FM_Close, FM_Delete, FM_Format, CalibrationMode, fmUnchanged, loading
  <2> QED
    BY <2>1, <2>2, <2>3, <2>5, <2>6, <2>7 DEF Next, Calibration_SM
<1> QED
  BY <1>1, Invariance, PTL DEF Spec, LoadIsFinite
=============================================================================
