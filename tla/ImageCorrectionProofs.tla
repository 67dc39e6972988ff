----------------------- MODULE ImageCorrectionProofs -----------------------
(***************************************************************************)
(* For every camera, every mode and every number of blocks: every variable *)
(* keeps its type under every fault, the host is never locked out without  *)
(* a reason, and the registers, the file and the acquisition of a          *)
(* correction are as they were once it is over, whichever of its steps     *)
(* fails; what it does to the calibration is within CalibrationContract,   *)
(* and it goes through its states once (Actualization.c).  What the corrections are worth is proved in   *)
(* ImageCorrectionSoundness.                                               *)
(***************************************************************************)
EXTENDS ImageCorrection, FiniteSetTheorems, SequenceTheorems, WellFoundedInduction, TLAPS

(* A set of places has a last one.                                         *)
LEMMA LastExists ==
  ASSUME NEW n \in Nat, NEW S \in SUBSET (1..n), S # {}
  PROVE  \E i \in S : \A j \in S : j <= i
<1> DEFINE from(i) == {j \in S : i <= j}
           ends == {from(i) : i \in S}
<1>1. IsFiniteSet(S)
  <2>1. IsFiniteSet(1..n)
    BY FS_Interval
  <2> QED
    BY <2>1, FS_Subset
<1>2. ends \subseteq FiniteSubsetsOf(S) /\ ends # {}
  <2>1. \A i \in S : from(i) \in SUBSET S
    OBVIOUS
  <2> HIDE DEF from
  <2>2. \A i \in S : IsFiniteSet(from(i))
    BY <1>1, <2>1, FS_Subset
  <2> QED
    BY <2>1, <2>2 DEF FiniteSubsetsOf
<1>3. PICK x \in ends : \A y \in ends : <<y, x>> \notin StrictSubsetOrdering(S)
  <2>1. IsWellFoundedOn(StrictSubsetOrdering(S), FiniteSubsetsOf(S))
    BY FS_StrictSubsetOrderingWellFounded
  <2> HIDE DEF ends
  <2>2. \E x \in ends : \A y \in ends : ~ (<<y, x>> \in StrictSubsetOrdering(S))
    BY <1>2, <2>1, WFMin
  <2> QED
    BY <2>2
<1>4. PICK i \in S : x = from(i)
  BY <1>3
<1>5. \A j \in S : j <= i
  <2> SUFFICES ASSUME NEW j \in S, ~(j <= i)
               PROVE  FALSE
    OBVIOUS
  <2>0. S \subseteq Nat /\ i \in Nat /\ j \in Nat /\ i < j
    OBVIOUS
  <2>1. from(j) \subseteq from(i) /\ i \in from(i) /\ i \notin from(j)
    <3>1. \A k \in S : j <= k => i <= k
      BY <2>0
    <3>2. i <= i /\ ~(j <= i)
      BY <2>0
    <3> QED
      BY <3>1, <3>2
  <2>2. <<from(j), from(i)>> \in StrictSubsetOrdering(S)
    BY <2>1 DEF StrictSubsetOrdering
  <2> QED
    BY <1>3, <1>4, <2>2
<1> QED
  BY <1>5

LEMMA LastOfType ==
  ASSUME NEW n \in Nat, NEW S \in SUBSET (1..n)
  PROVE  /\ LastOf(S) = Null <=> S = {}
         /\ S # {} => LastOf(S) \in S
<1>1. CASE S = {}
  BY <1>1 DEF LastOf
<1>2. CASE S # {}
  <2>1. LastOf(S) = CHOOSE i \in S : \A j \in S : j <= i
    BY <1>2 DEF LastOf
  <2>2. \E i \in S : \A j \in S : j <= i
    BY <1>2, LastExists
  <2>3. LastOf(S) \in S
    BY <2>1, <2>2
  <2>4. Null \notin S
    <3>1. Null \notin Nat
      BY CorrectionAssumption
    <3>2. \A i \in S : i \in Nat
      OBVIOUS
    <3> QED
      BY <3>1, <3>2
  <2> QED
    BY <1>2, <2>3, <2>4
<1> QED
  BY <1>1, <1>2

LEMMA EntryChange ==
  ASSUME NEW d \in Seq(Entries), NEW i, NEW e, i \in DOMAIN d => e \in Entries
  PROVE  /\ [d EXCEPT ![i] = e] \in Seq(Entries)
         /\ Len([d EXCEPT ![i] = e]) = Len(d)
         /\ DOMAIN [d EXCEPT ![i] = e] = DOMAIN d
<1> DEFINE new == [d EXCEPT ![i] = e]
<1>1. DOMAIN new = 1..Len(d) /\ Len(d) \in Nat
  OBVIOUS
<1>2. \A j \in 1..Len(d) : new[j] \in Entries
  OBVIOUS
<1>3. new = [j \in 1..Len(d) |-> new[j]]
  BY <1>1
<1> HIDE DEF new
<1>4. new \in [1..Len(d) -> Entries]
  BY <1>2, <1>3
<1>5. new \in Seq(Entries) /\ Len(new) = Len(d)
  BY <1>1, <1>4
<1> QED
  BY <1>1, <1>5 DEF new

LEMMA SuitableType ==
  ASSUME Values, NEW b
  PROVE  /\ Suitable(b) \in DOMAIN db \cup {Null}
         /\ Suitable(b) # Null => db[Suitable(b)].valid
<1> DEFINE xbb == {i \in DOMAIN db : db[i].valid /\ db[i].type = "XBB" /\ db[i].block = b}
           ofIcu == {i \in DOMAIN db : db[i].valid /\ db[i].type = "ICU"}
<1>1. DOMAIN db = 1..Len(db) /\ Len(db) \in Nat
  BY DEF Values
<1>2. xbb \in SUBSET (1..Len(db)) /\ ofIcu \in SUBSET (1..Len(db))
  BY <1>1
<1>3. \A i \in xbb \cup ofIcu : i \in DOMAIN db /\ db[i].valid
  OBVIOUS
<1>4. Suitable(b) = IF xbb # {} THEN LastOf(xbb) ELSE LastOf(ofIcu)
  BY DEF Suitable
<1> HIDE DEF xbb, ofIcu
<1>5. xbb # {} => LastOf(xbb) \in xbb
  BY <1>1, <1>2, LastOfType
<1>6. LastOf(ofIcu) = Null \/ LastOf(ofIcu) \in ofIcu
  BY <1>1, <1>2, LastOfType
<1> QED
  BY <1>3, <1>4, <1>5, <1>6

LEMMA SearchType ==
  ASSUME Values, NEW file
  PROVE  EntryAfterSearch(file) \in {Null} \cup DOMAIN db
BY SuitableType DEF EntryAfterSearch, Values

LEMMA MatchingType ==
  ASSUME Values, NEW b
  PROVE  /\ Matching(b) = Null <=> \A i \in DOMAIN db : db[i].block # b
         /\ Matching(b) # Null => Matching(b) \in DOMAIN db /\ db[Matching(b)].block = b
<1> DEFINE places == {i \in DOMAIN db : db[i].block = b}
<1>1. DOMAIN db = 1..Len(db) /\ Len(db) \in Nat
  BY DEF Values
<1>2. places \in SUBSET (1..Len(db)) /\ Matching(b) = LastOf(places)
  BY <1>1 DEF Matching
<1>3. places = {} <=> \A i \in DOMAIN db : db[i].block # b
  OBVIOUS
<1>4. \A i \in places : i \in DOMAIN db /\ db[i].block = b
  OBVIOUS
<1> HIDE DEF places
<1> QED
  BY <1>1, <1>2, <1>3, <1>4, LastOfType

(* The records of a correction under way and of the calibration in use.    *)
LEMMA RunType ==
  ASSUME NEW r \in Runs, NEW f \in BOOLEAN
  PROVE  /\ r.usingICU \in BOOLEAN /\ r.blockIdx \in Nat \ {0} /\ r.actBlocks \in Nat
         /\ [r EXCEPT !.usingICU = TRUE] \in Runs
         /\ [r EXCEPT !.usingICU = TRUE, !.actBlocks = 1, !.blockIdx = 1, !.sync = FALSE] \in Runs
         /\ [r EXCEPT !.icuPhase = 0] \in Runs /\ [r EXCEPT !.icuPhase = 1] \in Runs
         /\ [r EXCEPT !.icuPhase = 2] \in Runs
         /\ [r EXCEPT !.detect = f] \in Runs /\ [r EXCEPT !.onReference = f] \in Runs
         /\ [r EXCEPT !.blockIdx = r.blockIdx + 1] \in Runs
<1>1. r.blockIdx + 1 \in Nat \ {0}
  BY DEF Runs
<1>2. 0 \in 0..2 /\ 1 \in 0..2 /\ 2 \in 0..2 /\ 1 \in Nat \ {0}
  OBVIOUS
<1> QED
  BY <1>1, <1>2 DEF Runs

LEMMA BlocksType ==
  ASSUME NEW r \in Runs, NEW f \in BOOLEAN, NEW n \in Nat, NEW k \in Nat \ {0}
  PROVE  [r EXCEPT !.usingICU = FALSE, !.actBlocks = n, !.sync = f, !.blockIdx = k] \in Runs
BY DEF Runs

LEMMA InfoType ==
  ASSUME NEW c \in Infos, NEW f \in Calibrations, NEW s \in SUBSET (AllBlocks \cup {Null})
  PROVE  /\ c.valid \in BOOLEAN /\ c.file \in Calibrations /\ c.corrected \subseteq AllBlocks \cup {Null}
         /\ [c EXCEPT !.valid = TRUE] \in Infos /\ [c EXCEPT !.valid = FALSE] \in Infos
         /\ [c EXCEPT !.file = f, !.corrected = s] \in Infos
         /\ [c EXCEPT !.corrected = s] \in Infos
BY DEF Infos

LEMMA FileType ==
  ASSUME Values
  PROVE  /\ calib \in Infos /\ calib.file \in Seq(AllBlocks) /\ calib.file \in Calibrations
         /\ Len(calib.file) \in Nat /\ DOMAIN calib.file = 1..Len(calib.file)
         /\ \A i \in DOMAIN calib.file : calib.file[i] \in AllBlocks
BY DEF Values, Infos, Calibrations

LEMMA MarkType ==
  ASSUME NEW d \in Seq(Entries), NEW i, NEW e,
         \/ e = d
         \/ e = [d EXCEPT ![i].valid = TRUE]
         \/ e = [d EXCEPT ![i].valid = FALSE]
  PROVE  e \in Seq(Entries) /\ Len(e) = Len(d) /\ DOMAIN e = DOMAIN d
<1>1. \A x \in Entries : [x EXCEPT !.valid = TRUE] \in Entries /\ [x EXCEPT !.valid = FALSE] \in Entries
  BY DEF Entries
<1>2. i \in DOMAIN d => /\ [d[i] EXCEPT !.valid = TRUE] \in Entries
                        /\ [d[i] EXCEPT !.valid = FALSE] \in Entries
  <2>1. i \in DOMAIN d => d[i] \in Entries
    OBVIOUS
  <2> QED
    BY <1>1, <2>1
<1>3. CASE e = d
  BY <1>3
<1>4. CASE e = [d EXCEPT ![i].valid = TRUE]
  <2>1. e = [d EXCEPT ![i] = [d[i] EXCEPT !.valid = TRUE]]
    BY <1>4
  <2> QED
    BY <1>2, <2>1, EntryChange
<1>5. CASE e = [d EXCEPT ![i].valid = FALSE]
  <2>1. e = [d EXCEPT ![i] = [d[i] EXCEPT !.valid = FALSE]]
    BY <1>5
  <2> QED
    BY <1>2, <2>1, EntryChange
<1> QED
  BY <1>3, <1>4, <1>5

LEMMA CurrentBlockType ==
  ASSUME Values
  PROVE  CurrentBlock \in AllBlocks \cup {Null}
BY FileType DEF CurrentBlock

(* The entry that is given to a block: the others stay what they were.     *)
LEMMA AllocateType ==
  ASSUME Values, NEW place \in Places(CurrentBlock), Allocate(CurrentBlock, place)
  PROVE  /\ db' \in Seq(Entries) /\ Len(db') <= MaxEntries
         /\ entry' = place /\ place \in DOMAIN db' /\ hasCurrent' = TRUE
         /\ db'[place].block = CurrentBlock /\ ~db'[place].valid
         /\ db'[place].type = IF run.usingICU THEN "ICU" ELSE "XBB"
         /\ DOMAIN db' = DOMAIN db \cup {place}
         /\ \A i \in DOMAIN db' \ {place} : db'[i] = db[i]
<1> DEFINE new(d) == [block |-> CurrentBlock, type |-> IF run.usingICU THEN "ICU" ELSE "XBB",
                      valid |-> FALSE, data |-> d]
<1>1. \A d \in Data : new(d) \in Entries
  BY CurrentBlockType DEF Entries
<1>2. NoData \in Data /\ \A i \in DOMAIN db : db[i].data \in Data
  <2>1. NoData \in Data
    BY DEF NoData, Data
  <2>2. \A i \in DOMAIN db : db[i] \in Entries
    BY DEF Values
  <2> QED
    BY <2>1, <2>2 DEF Entries
<1>3. Len(db) \in Nat /\ DOMAIN db = 1..Len(db) /\ Len(db) <= MaxEntries /\ MaxEntries \in Nat \ {0}
      /\ db \in Seq(Entries)
  BY CorrectionAssumption DEF Values
<1>4. place \in DOMAIN db \/ (place = Len(db) + 1 /\ Len(db) < MaxEntries)
  <2>1. CASE Matching(CurrentBlock) # Null
    BY <2>1, MatchingType DEF Places
  <2>2. CASE Matching(CurrentBlock) = Null
    BY <2>2, <1>3 DEF Places
  <2> QED
    BY <2>1, <2>2
<1>5. CASE place = Len(db) + 1 /\ Len(db) < MaxEntries
  <2>1. db' = Append(db, new(NoData)) /\ entry' = place /\ hasCurrent' = TRUE
    BY <1>3, <1>5 DEF Allocate
  <2>2. new(NoData) \in Entries
    BY <1>1, <1>2
  <2>3. new(NoData).block = CurrentBlock /\ ~new(NoData).valid
        /\ new(NoData).type = IF run.usingICU THEN "ICU" ELSE "XBB"
    OBVIOUS
  <2> HIDE DEF new
  <2>4. /\ db' \in Seq(Entries) /\ Len(db') = Len(db) + 1 /\ db'[place] = new(NoData)
        /\ \A i \in 1..Len(db) : db'[i] = db[i]
    BY <1>3, <1>5, <2>1, <2>2
  <2> QED
    BY <1>3, <1>5, <2>1, <2>3, <2>4
<1>6. CASE place \in DOMAIN db
  <2>0. ~(place > Len(db))
    BY <1>3, <1>6
  <2>1. db' = [db EXCEPT ![place] = new(db[place].data)] /\ entry' = place /\ hasCurrent' = TRUE
    BY <2>0, Zenon DEF Allocate
  <2>2. new(db[place].data) \in Entries
    BY <1>1, <1>2, <1>6
  <2>3. new(db[place].data).block = CurrentBlock /\ ~new(db[place].data).valid
        /\ new(db[place].data).type = IF run.usingICU THEN "ICU" ELSE "XBB"
    OBVIOUS
  <2> HIDE DEF new
  <2>4. db' \in Seq(Entries) /\ Len(db') = Len(db) /\ DOMAIN db' = DOMAIN db
    BY <1>3, <2>1, <2>2, EntryChange
  <2> QED
    BY <1>3, <1>6, <2>1, <2>3, <2>4
<1> QED
  BY <1>4, <1>5, <1>6

-----------------------------------------------------------------------------
(* Type correctness.                                                       *)

LEMMA InitType ==
  ASSUME Init
  PROVE  Values
<1>1. wanted \in Calibrations /\ 0 \in 0..2 /\ 1 \in Nat \ {0}
  BY CorrectionAssumption DEF Init
<1>2. db \in Seq(Entries) /\ Len(db) = 0
  BY DEF Init
<1>3. measure \in Data
  BY DEF Init, NoData, Data
<1>4. run \in Runs /\ calib \in Infos
  BY <1>1 DEF Init, Runs, Infos
<1> QED
  BY <1>1, <1>2, <1>3, <1>4, CorrectionAssumption DEF Init, Values, States

LEMMA CommandType ==
  ASSUME Values, Command
  PROVE  Values'
<1> USE DEF Values, process, deltas, detection, writing, acquisition, calibration, registers, icu
<1>0. UNCHANGED <<turn, deltas, detection, writing, state, error, allowStart, allowUpdate, saved, run>>
  BY DEF Command, Disturbance, DebugStop, HostMovesICU, PowerOff, HostCorrect, HostLoad,
         HostStart, HostStop, HostWrite, IcuArrives, PowerOn
<1>1. disturbed' \in Nat
  BY DEF Command, Disturbance
<1>2. CASE DebugStop \/ PowerOff \/ HostStart \/ HostStop
  BY <1>0, <1>1, <1>2 DEF DebugStop, PowerOff, HostStart, HostStop, CameraReady
<1>3. CASE HostMovesICU \/ IcuArrives
  BY <1>0, <1>1, <1>3 DEF HostMovesICU, MoveICU, IcuArrives
<1>4. CASE HostLoad \/ HostWrite
  BY <1>0, <1>1, <1>4, CorrectionAssumption DEF HostLoad, HostWrite
<1>5. CASE HostCorrect
  BY <1>0, <1>1, <1>5 DEF HostCorrect
<1>6. CASE PowerOn
  BY <1>0, <1>1, <1>6 DEF PowerOn
<1> QED
  BY <1>2, <1>3, <1>4, <1>5, <1>6 DEF Command, Disturbance

LEMMA CalibrationType ==
  ASSUME Values, CalibrationTurn
  PROVE  Values'
<1> USE DEF Values, CalibrationTurn, calUnchanged, process, detection, writing, registers,
            acquisition, icu, calibration
<1>1. CASE CalStart
  <2>1. calib' \in Infos
    BY <1>1 DEF CalStart, Infos, Calibrations
  <2> QED
    BY <1>1, <2>1 DEF CalStart
<1>2. CASE CalBlock
  <2> DEFINE next == load[Len(calib.file) + 1]
             corrected == IF Suitable(next) # Null /\ allowUpdate /\ ~waiting
                          THEN calib.corrected \cup {next} ELSE calib.corrected
  <2>1. load \in Seq(AllBlocks) /\ Len(calib.file) < Len(load) /\ Len(calib.file) \in Nat
    BY <1>2, FileType DEF CalBlock, Calibrations
  <2>2. next \in AllBlocks
    BY <2>1
  <2>3. calib' = [calib EXCEPT !.file = Append(calib.file, next), !.corrected = corrected]
    BY <1>2 DEF CalBlock
  <2>4. corrected \subseteq AllBlocks \cup {Null}
    BY <2>2, FileType DEF Infos
  <2>5. entry' \in {Null} \cup DOMAIN db
    BY <1>2, SuitableType DEF CalBlock
  <2> HIDE DEF next, corrected
  <2>6. Append(calib.file, next) \in Calibrations
    BY <2>2, FileType DEF Calibrations
  <2>7. calib' \in Infos
    BY <2>3, <2>4, <2>6, FileType, InfoType
  <2> QED
    BY <1>2, <2>5, <2>7 DEF CalBlock
<1>3. CASE CalDone
  <2>1. entry' \in {Null} \cup DOMAIN db
    BY <1>3, SearchType DEF CalDone
  <2>2. calib' \in Infos
    BY <1>3, FileType, InfoType DEF CalDone
  <2> QED
    BY <1>3, <2>1, <2>2 DEF CalDone
<1>4. CASE CalFail
  <2>1. calib' \in Infos
    BY <1>4, FileType, InfoType DEF CalFail
  <2> QED
    BY <1>4, <2>1 DEF CalFail
<1>5. CASE CalWaits
  BY <1>5 DEF CalWaits
<1> QED
  BY <1>1, <1>2, <1>3, <1>4, <1>5

LEMMA InvalidatedType ==
  ASSUME Values, NEW types
  PROVE  /\ Invalidated(db, types) \in Seq(Entries)
         /\ Len(Invalidated(db, types)) = Len(db)
         /\ DOMAIN Invalidated(db, types) = DOMAIN db
<1> DEFINE new(i) == [db[i] EXCEPT !.valid = @ /\ db[i].type \notin types]
<1>1. Len(db) \in Nat /\ DOMAIN db = 1..Len(db)
  BY DEF Values
<1>2. \A i \in 1..Len(db) : new(i) \in Entries
  <2> SUFFICES ASSUME NEW i \in 1..Len(db) PROVE new(i) \in Entries
    OBVIOUS
  <2>1. db[i] \in Entries
    BY <1>1 DEF Values
  <2>2. (db[i].valid /\ db[i].type \notin types) \in BOOLEAN
    OBVIOUS
  <2>3. new(i) = [db[i] EXCEPT !.valid = db[i].valid /\ db[i].type \notin types]
    OBVIOUS
  <2> HIDE DEF new
  <2> QED
    BY <2>1, <2>2, <2>3 DEF Entries
<1>3. Invalidated(db, types) = [i \in 1..Len(db) |-> new(i)]
  BY <1>1 DEF Invalidated
<1> HIDE DEF new
<1> QED
  BY <1>1, <1>2, <1>3

LEMMA AcquisitionType ==
  ASSUME Values, AcquisitionTurn
  PROVE  Values'
<1> USE DEF Values, AcquisitionTurn, acqUnchanged, acqOnly, process, detection, writing, registers,
            acquisition, icu, calibration
<1>1. CASE AcqOff
  <2>1. db' \in Seq(Entries) /\ Len(db') <= MaxEntries /\ DOMAIN db' = DOMAIN db
    BY <1>1, InvalidatedType DEF AcqOff
  <2>2. load' \in Calibrations \cup {Null} /\ calib' = calib /\ data' = data
    BY <1>1, FileType DEF AcqOff, LoadFile
  <2> QED
    BY <1>1, <2>1, <2>2 DEF AcqOff
<1>2. CASE AcqStopped
  BY <1>2, SearchType DEF AcqStopped
<1>3. CASE AcqWaiting
  BY <1>3 DEF AcqWaiting
<1>4. CASE AcqReady
  BY <1>4 DEF AcqReady
<1>5. CASE AcqStarted
  BY <1>5 DEF AcqStarted
<1>6. CASE AcqIsOff
  BY <1>6 DEF AcqIsOff
<1> QED
  BY <1>1, <1>2, <1>3, <1>4, <1>5, <1>6

(* What an end of a correction leaves, and what marks an entry.            *)
LEMMA RevertsType ==
  ASSUME Values, Reverts
  PROVE  /\ state' = "Idle" /\ regs' \in {"user", "lost"} /\ UNCHANGED <<backup, mode, calib>>
         /\ load' \in Calibrations \cup {Null}
BY DEF Values, Reverts, RestoreRegisters, LoadFile, calibration

LEMMA MoveType ==
  ASSUME Values, NEW p \in {"scene", "calib"}, MoveICU(p)
  PROVE  icuSet' \in {"scene", "calib"} /\ icuPos' \in {icuSet', "transition"}
BY DEF Values, MoveICU, icu

LEMMA CorrectionType ==
  ASSUME Values, Correction
  PROVE  Values'
<1> USE DEF process, deltas, detection, writing, acquisition, calibration, registers, icu,
            To, Fails, restUnchanged, computeUnchanged
<1>0. turn' = "tail" /\ UNCHANGED <<power, wanted, disturbed>>
  BY DEF Correction
<1>1. CASE Idle
  <2>1. run' \in Runs
    <3>1. run \in Runs /\ (BPDetection /\ ~bpMap) \in BOOLEAN
      BY DEF Values
    <3>2. run' = run \/ run' = [run EXCEPT !.detect = BPDetection /\ ~bpMap]
      BY <1>1 DEF Idle
    <3> QED
      BY <3>1, <3>2, RunType
  <2> QED
    BY <1>0, <1>1, <2>1 DEF Idle, Values, States
<1>2. CASE Start
  <2>1. IcuBlock # Null => <<IcuBlock>> \in Calibrations
    BY DEF Calibrations, AllBlocks
  <2>2. \A i \in DOMAIN calib.file : <<calib.file[i]>> \in Calibrations
    BY FileType DEF Calibrations
  <2>3. /\ run' \in Runs
        /\ load' \in Calibrations \cup {Null}
        /\ calib' = calib /\ state' \in States
    <3>0. run \in Runs /\ Len(calib.file) \in Nat
      BY FileType DEF Values
    <3>1. CASE mode = "ICU"
      <4>1. \/ run' = [run EXCEPT !.usingICU = TRUE, !.actBlocks = 1, !.blockIdx = 1, !.sync = FALSE]
            \/ run' = [run EXCEPT !.usingICU = TRUE]
        BY <1>2, <3>1 DEF Start, StartICU
      <4>2. run' \in Runs
        BY <3>0, <4>1, RunType
      <4> QED
        BY <1>2, <2>1, <3>1, <4>2 DEF Start, StartICU, LoadFile, Values, States
    <3>2. CASE mode # "ICU"
      <4> DEFINE all == mode \in {"AllBlocks", "AllBlocksSync"}
                 sync == mode \in {"BlockSync", "AllBlocksSync"}
                 blocks == IF all THEN Len(calib.file) ELSE 1
      <4>1. PICK current \in DOMAIN calib.file \cup {1} :
              /\ run' = [run EXCEPT !.usingICU = FALSE, !.actBlocks = blocks, !.sync = sync,
                           !.blockIdx = IF blocks = 1 /\ sync THEN current ELSE 1]
              /\ IF calib.file = <<>> THEN UNCHANGED calibration
                 ELSE LoadFile(IF blocks > 1 \/ sync THEN calib.file ELSE <<calib.file[current]>>)
        BY <1>2, <3>2, Zenon DEF Start, StartBB
      <4>2. /\ blocks \in Nat /\ sync \in BOOLEAN
            /\ (IF blocks = 1 /\ sync THEN current ELSE 1) \in Nat \ {0}
            /\ calib.file # <<>> => current \in DOMAIN calib.file
        BY <3>0, FileType
      <4>4. run' \in Runs
        BY <3>0, <4>1, <4>2, BlocksType
      <4>3. state' = "WaitForCalibData"
        BY <1>2, <3>2, Zenon DEF Start, StartBB
      <4>5. /\ calib' = calib
            /\ \/ load' = load \/ load' = calib.file
               \/ \E i \in DOMAIN calib.file : load' = <<calib.file[i]>>
        <5>1. CASE calib.file = <<>>
          BY <4>1, <5>1
        <5>2. CASE calib.file # <<>>
          <6>1. \/ LoadFile(calib.file)
                \/ \E i \in DOMAIN calib.file : LoadFile(<<calib.file[i]>>)
            BY <4>1, <4>2, <5>2
          <6> QED
            BY <6>1 DEF LoadFile
        <5> QED
          BY <5>1, <5>2
      <4>6. load' \in Calibrations \cup {Null}
        <5>1. load \in Calibrations \cup {Null} /\ calib.file \in Calibrations
          BY FileType DEF Values
        <5> QED
          BY <2>2, <4>5, <5>1
      <4> QED
        BY <4>3, <4>4, <4>5, <4>6 DEF States
    <3> QED
      BY <3>1, <3>2
  <2>4. saved' \in Calibrations \cup {Null} /\ regs' = "correction" /\ backup' \in {"user", "old"}
    BY <1>2, FileType DEF Start, BackupRegisters
  <2>5. UNCHANGED <<mode, acq, icu, deltas, detection, writing>>
    BY <1>2 DEF Start
  <2> QED
    BY <1>0, <2>3, <2>4, <2>5 DEF Values
<1>3. CASE WaitForCalibData
  <2>1. /\ run' \in Runs
        /\ icuSet' \in {"scene", "calib"} /\ icuPos' \in {icuSet', "transition"}
        /\ state' \in States /\ saved' = saved
    BY <1>3, MoveType, RunType DEF WaitForCalibData, Values, States
  <2> QED
    BY <1>0, <1>3, <2>1 DEF WaitForCalibData, Values
<1>4. CASE TransitionICU \/ WaitICU \/ ConfigCamera
  BY <1>0, <1>4 DEF TransitionICU, WaitICU, ConfigCamera, Values, States
<1>5. CASE StabilizeICU
  <2>1. /\ run' \in Runs
        /\ icuSet' \in {"scene", "calib"} /\ icuPos' \in {icuSet', "transition"}
        /\ state' \in States /\ saved' = saved
    BY <1>5, MoveType, RunType DEF StabilizeICU, Values, States
  <2> QED
    BY <1>0, <1>5, <2>1 DEF StabilizeICU, Values
<1>6. CASE StartAECAcquisition \/ StartAEC \/ StopAECAcquisition
  BY <1>0, <1>6 DEF StartAECAcquisition, StartAEC, StopAECAcquisition, StartAcquisition,
                    StopAcquisition, Values, States
<1>7. CASE WaitAcquisitionReady \/ StartSequence
  BY <1>0, <1>7 DEF WaitAcquisitionReady, StartSequence, StartAcquisition, Values, States
<1>8. CASE WaitSequenceReady
  <2>1. run' \in Runs
    <3>1. run \in Runs /\ (run.usingICU => icuPos = "calib") \in BOOLEAN
      BY DEF Values
    <3>2. run' = run \/ run' = [run EXCEPT !.onReference = run.usingICU => icuPos = "calib"]
      BY <1>8 DEF WaitSequenceReady
    <3> QED
      BY <3>1, <3>2, RunType
  <2> QED
    BY <1>0, <1>8, <2>1 DEF WaitSequenceReady, Values, States
<1>9. CASE FinalizeSequence
  <2>1. icuSet' \in {"scene", "calib"} /\ icuPos' \in {icuSet', "transition"}
    BY <1>9, MoveType DEF FinalizeSequence, Values
  <2> QED
    BY <1>0, <1>9, <2>1 DEF FinalizeSequence, StopAcquisition, Values, States
<1>10. CASE InitComputation
  <2>1. PICK place \in Places(CurrentBlock) : Allocate(CurrentBlock, place)
    BY <1>10 DEF InitComputation
  <2>2. db' \in Seq(Entries) /\ Len(db') <= MaxEntries /\ entry' \in {Null} \cup DOMAIN db'
    BY <2>1, AllocateType
  <2> QED
    BY <1>0, <1>10, <2>2 DEF InitComputation, Values, States
<1>11. CASE ComputeAveragedImage \/ ComputeBlackBodyFCal \/ ApplyBadPixelMap \/ ComputeDeltaBetaStats
  BY <1>0, <1>11 DEF ComputeAveragedImage, ComputeBlackBodyFCal, ApplyBadPixelMap,
                     ComputeDeltaBetaStats, Values, States
<1>12. CASE ComputeDeltaBeta
  <2>1. measure' \in Data
    BY <1>12, CurrentBlockType DEF ComputeDeltaBeta, Data
  <2>2. db' \in Seq(Entries) /\ Len(db') <= MaxEntries /\ entry' \in {Null} \cup DOMAIN db'
    <3>1. entry' = entry /\ (db' = db \/ db' = [db EXCEPT ![entry].valid = TRUE])
      BY <1>12 DEF ComputeDeltaBeta
    <3>2. db \in Seq(Entries) /\ Len(db) <= MaxEntries /\ entry \in {Null} \cup DOMAIN db
      BY DEF Values
    <3> QED
      BY <3>1, <3>2, MarkType
  <2>3. state' \in States
    BY <1>12 DEF ComputeDeltaBeta, AfterDetection, States
  <2>4. bpd' = bpd
    BY <1>12 DEF ComputeDeltaBeta
  <2> QED
    BY <1>0, <1>12, <2>1, <2>2, <2>3, <2>4 DEF ComputeDeltaBeta, Values
<1>13. CASE QuantizeDeltaBeta
  <2>1. db \in Seq(Entries) /\ measure \in Data
    BY DEF Values
  <2>2. entry \in DOMAIN db => [db[entry] EXCEPT !.data = measure] \in Entries
    <3>1. \A e \in Entries, d \in Data : [e EXCEPT !.data = d] \in Entries
      BY DEF Entries
    <3>2. entry \in DOMAIN db => db[entry] \in Entries
      BY <2>1
    <3> QED
      BY <2>1, <3>1, <3>2
  <2>3. db' = [db EXCEPT ![entry] = [db[entry] EXCEPT !.data = measure]]
    BY <1>13, <2>1 DEF QuantizeDeltaBeta
  <2>4. db' \in Seq(Entries) /\ Len(db') = Len(db) /\ DOMAIN db' = DOMAIN db
    BY <2>1, <2>2, <2>3, EntryChange
  <2> QED
    BY <1>0, <1>13, <2>4 DEF QuantizeDeltaBeta, Values, States
<1>14. CASE DetectBadPixels
  <2>1. UNCHANGED <<db, saved, run, measure, writing, registers, load>>
    BY <1>14 DEF DetectBadPixels, bpdUnchanged, BPD_Idle, BPD_UpdateBeta, BPD_StartAcquisition,
                 BPD_WaitSequenceReady, BPD_FinalizeSequence, BPD_UpdateBPMap, BPD_Fails
  <2>2. /\ icuSet' \in {"scene", "calib"} /\ icuPos' \in {icuSet', "transition"}
    BY <1>14, MoveType DEF DetectBadPixels, BPD_Idle, BPD_UpdateBeta, BPD_StartAcquisition,
                 BPD_WaitSequenceReady, BPD_FinalizeSequence, BPD_UpdateBPMap, BPD_Fails, Values
  <2>3. entry' \in {Null} \cup DOMAIN db
    BY <1>14, MatchingType DEF DetectBadPixels, BPD_Idle, BPD_UpdateBeta, BPD_StartAcquisition,
                 BPD_WaitSequenceReady, BPD_FinalizeSequence, BPD_UpdateBPMap, BPD_Fails, Values
  <2>4. calib' \in Infos
    <3>1. CASE BPD_UpdateBeta
      <4>1. calib.corrected \cup {CurrentBlock} \subseteq AllBlocks \cup {Null}
        BY CurrentBlockType, FileType DEF Infos
      <4> QED
        BY <3>1, <4>1, FileType, InfoType DEF BPD_UpdateBeta
    <3> QED
      BY <1>14, <3>1 DEF DetectBadPixels, BPD_Idle, BPD_StartAcquisition,
                 BPD_WaitSequenceReady, BPD_FinalizeSequence, BPD_UpdateBPMap, BPD_Fails, Values
  <2>5. /\ state' \in States
        /\ bpd' \in {"Idle", "UpdateBeta", "StartAcquisition", "WaitSequenceReady",
                     "FinalizeSequence", "UpdateBPMap"}
        /\ acq' = acq
    BY <1>14 DEF DetectBadPixels, BPD_Idle, BPD_UpdateBeta, BPD_StartAcquisition,
                 BPD_WaitSequenceReady, BPD_FinalizeSequence, BPD_UpdateBPMap, BPD_Fails, BpdTo,
                 AfterDetection, StartAcquisition, StopAcquisition, Values, States
  <2> QED
    BY <1>0, <2>1, <2>2, <2>3, <2>4, <2>5 DEF Values
<1>15. CASE WriteActualizationFile
  <2>1. db' \in Seq(Entries) /\ Len(db') <= MaxEntries /\ DOMAIN db' = DOMAIN db
    <3>1. db' = db \/ db' = [db EXCEPT ![entry].valid = TRUE]
      BY <1>15 DEF WriteActualizationFile, FWR_Idle, FWR_InitIO, FWR_Write, FWR_Fails,
                   FWR_CloseFile
    <3>2. db \in Seq(Entries) /\ Len(db) <= MaxEntries
      BY DEF Values
    <3> QED
      BY <3>1, <3>2, MarkType
  <2>2. /\ state' \in States
        /\ writer' \in {"IDLE", "DELETE_PREVIOUS", "FILE_HEADER", "DATA", "CLOSEFILE"}
        /\ fd' \in {"none", "open", "closed"}
        /\ run' \in Runs
    BY <1>15, RunType DEF WriteActualizationFile, FWR_Idle, FWR_InitIO, FWR_Write, FWR_Fails,
                 FWR_CloseFile, Values, States
  <2> QED
    BY <1>0, <1>15, <2>1, <2>2 DEF WriteActualizationFile, writeUnchanged, Values
<1>16. CASE Finalize
  <2>1. db' \in Seq(Entries) /\ Len(db') <= MaxEntries /\ DOMAIN db' = DOMAIN db
    BY <1>16, InvalidatedType DEF Finalize, Values
  <2>2. Reverts
    BY <1>16 DEF Finalize
  <2> QED
    BY <1>0, <1>16, <2>1, <2>2, RevertsType DEF Finalize, Values, States
<1>17. CASE Waits
  BY <1>0, <1>17 DEF Waits, Values
<1> QED
  BY <1>1, <1>2, <1>3, <1>4, <1>5, <1>6, <1>7, <1>8, <1>9, <1>10, <1>11, <1>12, <1>13, <1>14,
     <1>15, <1>16, <1>17 DEF Correction

LEMMA EndOfCallType ==
  ASSUME Values, EndOfCall
  PROVE  Values'
<1> USE DEF EndOfCall, process, deltas, detection, writing, acquisition, calibration, registers, icu
<1>1. CASE error \/ gStop
  <2>1. db' \in Seq(Entries) /\ Len(db') <= MaxEntries /\ DOMAIN db' = DOMAIN db
    <3>1. db' = db \/ db' = [db EXCEPT ![entry].valid = FALSE]
      BY <1>1
    <3>2. db \in Seq(Entries) /\ Len(db) <= MaxEntries
      BY DEF Values
    <3> QED
      BY <3>1, <3>2, MarkType
  <2>2. Reverts /\ MoveICU("scene")
    BY <1>1
  <2> QED
    BY <1>1, <2>1, <2>2, RevertsType, MoveType DEF StopAcquisition, Values, States
<1>2. CASE ~(error \/ gStop)
  BY <1>2 DEF Values
<1> QED
  BY <1>1, <1>2


LEMMA CommandFlags ==
  ASSUME Flags \subseteq BOOLEAN, Command
  PROVE  Flags' \subseteq BOOLEAN
<1> USE DEF process, deltas, detection, writing, acquisition, calibration, registers, icu
<1>0. UNCHANGED <<deltas, detection, writing>>
  BY DEF Command
<1>1. CASE DebugStop \/ HostMovesICU \/ PowerOff
  <2>1. UNCHANGED <<error, gStart, waiting, allowStart, allowUpdate, data, start, started,
                    byCorrection>>
    BY <1>1 DEF DebugStop, HostMovesICU, PowerOff
  <2>2. gStop' \in {gStop, TRUE} /\ stop' \in {stop, TRUE}
    BY <1>1 DEF DebugStop, HostMovesICU, PowerOff
  <2>3. gStop \in BOOLEAN /\ stop \in BOOLEAN
    BY DEF Flags
  <2>4. gStop' \in BOOLEAN /\ stop' \in BOOLEAN
    BY <2>2, <2>3
  <2> QED
    BY <1>0, <2>1, <2>4 DEF Flags
<1>2. CASE HostCorrect
  <2>1. UNCHANGED <<error, gStop, allowStart, allowUpdate, calibration, acquisition>>
    BY <1>2 DEF HostCorrect
  <2>2. gStart' = TRUE /\ waiting' = TRUE
    BY <1>2 DEF HostCorrect
  <2> QED
    BY <1>0, <2>1, <2>2 DEF Flags
<1>3. CASE HostLoad \/ HostStart \/ HostStop \/ HostWrite \/ IcuArrives
  <2>1. UNCHANGED <<error, gStart, gStop, waiting, allowStart, allowUpdate, data, started>>
    BY <1>3 DEF HostLoad, HostStart, HostStop, HostWrite, IcuArrives
  <2>2. start' \in {start, TRUE} /\ stop' \in {stop, TRUE} /\ byCorrection' \in {byCorrection, FALSE}
    BY <1>3 DEF HostLoad, HostStart, HostStop, HostWrite, IcuArrives
  <2>3. start \in BOOLEAN /\ stop \in BOOLEAN /\ byCorrection \in BOOLEAN
    BY DEF Flags
  <2>4. start' \in BOOLEAN /\ stop' \in BOOLEAN /\ byCorrection' \in BOOLEAN
    BY <2>2, <2>3
  <2> QED
    BY <1>0, <2>1, <2>4 DEF Flags
<1>4. CASE PowerOn
  <2>1. gStart' = (gStart \/ ~waiting) \/ gStart' = gStart
    BY <1>4 DEF PowerOn
  <2>2. (gStart \/ ~waiting) \in BOOLEAN /\ gStart \in BOOLEAN
    BY DEF Flags
  <2>3. gStart' \in BOOLEAN
    BY <2>1, <2>2
  <2>4. waiting' \in {waiting, TRUE}
    BY <1>4 DEF PowerOn
  <2>5. UNCHANGED <<error, gStop, allowStart, allowUpdate, data, start, stop, started, byCorrection>>
    BY <1>4 DEF PowerOn
  <2>6. waiting \in BOOLEAN
    BY DEF Flags
  <2>7. waiting' \in BOOLEAN
    BY <2>4, <2>6
  <2> QED
    BY <1>0, <2>3, <2>5, <2>7 DEF Flags
<1> QED
  BY <1>1, <1>2, <1>3, <1>4 DEF Command, Disturbance

LEMMA AcqFlags ==
  ASSUME Flags \subseteq BOOLEAN, AcquisitionTurn
  PROVE  Flags' \subseteq BOOLEAN
<1> USE DEF process, deltas, detection, writing, acquisition, calibration, registers, icu
<1>0. UNCHANGED <<error, gStart, gStop, waiting, allowStart, allowUpdate, hasCurrent, gWrite>>
  BY DEF AcquisitionTurn, acqUnchanged
<1>1. CASE AcqOff
  <2>1. UNCHANGED <<gStartBpd, data, start, byCorrection>>
    BY <1>1 DEF AcqOff, LoadFile
  <2>2. stop' = FALSE /\ started' = FALSE /\ bpMap' \in {bpMap, FALSE}
    BY <1>1 DEF AcqOff
  <2>3. bpMap \in BOOLEAN
    BY DEF Flags
  <2>4. bpMap' \in BOOLEAN /\ stop' \in BOOLEAN /\ started' \in BOOLEAN
    BY <2>2, <2>3
  <2> QED
    BY <1>0, <2>1, <2>4 DEF Flags
<1>2. CASE AcqStopped
  <2>1. UNCHANGED <<gStartBpd, bpMap, data, byCorrection>>
    BY <1>2 DEF AcqStopped, acqOnly
  <2>2. stop' = FALSE /\ started' = FALSE
    BY <1>2 DEF AcqStopped
  <2>3. start' = start \/ start' \in BOOLEAN
    BY <1>2 DEF AcqStopped
  <2>4. start \in BOOLEAN
    BY DEF Flags
  <2>5. start' \in BOOLEAN /\ stop' \in BOOLEAN /\ started' \in BOOLEAN
    BY <2>2, <2>3, <2>4
  <2> QED
    BY <1>0, <2>1, <2>5 DEF Flags
<1>3. CASE AcqWaiting \/ AcqReady \/ AcqIsOff
  <2>1. UNCHANGED <<gStartBpd, bpMap, data, started, byCorrection>>
    BY <1>3 DEF AcqWaiting, AcqReady, AcqIsOff, acqOnly
  <2>2. start' \in {start, FALSE} /\ stop' \in {stop, FALSE}
    BY <1>3 DEF AcqWaiting, AcqReady, AcqIsOff
  <2>3. start \in BOOLEAN /\ stop \in BOOLEAN
    BY DEF Flags
  <2>4. start' \in BOOLEAN /\ stop' \in BOOLEAN
    BY <2>2, <2>3
  <2> QED
    BY <1>0, <2>1, <2>4 DEF Flags
<1>4. CASE AcqStarted
  <2>1. started' = (started \/ ~stop)
    BY <1>4, Zenon DEF AcqStarted
  <2>2. started' \in BOOLEAN /\ stop' \in BOOLEAN
    <3>1. stop' = FALSE
      BY <1>4 DEF AcqStarted
    <3> QED
      BY <2>1, <3>1
  <2>3. UNCHANGED <<gStartBpd, bpMap, data, start, byCorrection>>
    BY <1>4 DEF AcqStarted, acqOnly
  <2> QED
    BY <1>0, <2>2, <2>3 DEF Flags
<1> QED
  BY <1>1, <1>2, <1>3, <1>4 DEF AcquisitionTurn

LEMMA CalFlags ==
  ASSUME Flags \subseteq BOOLEAN, CalibrationTurn
  PROVE  Flags' \subseteq BOOLEAN
<1>1. UNCHANGED <<error, gStart, gStop, waiting, allowStart, allowUpdate, hasCurrent, gStartBpd,
                  bpMap, gWrite, start, stop, started, byCorrection>>
  BY DEF CalibrationTurn, calUnchanged, process, detection, writing, acquisition
<1>2. data' \in {data, TRUE, FALSE}
  <2>1. CASE CalStart \/ CalBlock \/ CalWaits
    BY <2>1 DEF CalStart, CalBlock, CalWaits, calibration
  <2>2. CASE CalDone \/ CalFail
    BY <2>2 DEF CalDone, CalFail
  <2> QED
    BY <2>1, <2>2 DEF CalibrationTurn
<1>3. data \in BOOLEAN
  BY DEF Flags
<1>4. data' \in BOOLEAN
  BY <1>2, <1>3
<1> QED
  BY <1>1, <1>4 DEF Flags

LEMMA CorrectionFlags ==
  ASSUME Flags \subseteq BOOLEAN, Correction
  PROVE  Flags' \subseteq BOOLEAN
<1> USE DEF process, deltas, detection, writing, acquisition, calibration, registers, icu,
            To, Fails, restUnchanged, computeUnchanged
<1>1. CASE Idle
  <2>1. allowStart' = FALSE /\ (gStart' = gStart \/ gStart' = FALSE)
    BY <1>1, Zenon DEF Idle
  <2>2. UNCHANGED <<error, gStop, waiting, allowUpdate, acquisition, deltas, detection, writing,
                    calibration>>
    BY <1>1, Zenon DEF Idle
  <2>3. gStart \in BOOLEAN
    BY DEF Flags
  <2>4. gStart' \in BOOLEAN /\ allowStart' \in BOOLEAN
    BY <2>1, <2>3
  <2> QED
    BY <2>2, <2>4 DEF Flags
<1>2. CASE Start
  <2>1. stop' = (stop \/ started) /\ (stop \/ started) \in BOOLEAN
    BY <1>2, Zenon DEF Start
  <2>2. stop' \in BOOLEAN
    BY <2>1
  <2>3. error' \in BOOLEAN
    BY <1>2, Zenon DEF Start, StartICU, StartBB
  <2>4. data' = data /\ allowUpdate' = FALSE /\ allowStart' = TRUE
    <3>1. allowUpdate' = FALSE /\ allowStart' = TRUE
      BY <1>2, Zenon DEF Start
    <3>2. CASE mode = "ICU"
      BY <1>2, <3>1, <3>2 DEF Start, StartICU, LoadFile
    <3>3. CASE mode # "ICU"
      <4>1. StartBB
        BY <1>2, <3>3 DEF Start
      <4> QED
        BY <3>1, <4>1 DEF StartBB, LoadFile
    <3> QED
      BY <3>2, <3>3
  <2>5. UNCHANGED <<gStart, gStop, waiting, start, started, byCorrection, deltas, detection, writing>>
    BY <1>2 DEF Start
  <2> QED
    BY <2>2, <2>3, <2>4, <2>5 DEF Flags
<1>3. CASE WaitForCalibData \/ TransitionICU \/ WaitICU \/ StabilizeICU \/ ConfigCamera
  <2>1. UNCHANGED <<gStart, gStop, waiting, allowStart, allowUpdate, acquisition, deltas, detection,
                    writing, calibration>>
    BY <1>3 DEF WaitForCalibData, TransitionICU, WaitICU, StabilizeICU, ConfigCamera
  <2>2. error' \in {error, TRUE}
    BY <1>3 DEF WaitForCalibData, TransitionICU, WaitICU, StabilizeICU, ConfigCamera
  <2>3. error \in BOOLEAN
    BY DEF Flags
  <2>4. error' \in BOOLEAN
    BY <2>2, <2>3
  <2> QED
    BY <2>1, <2>4 DEF Flags
<1>4. CASE StartAECAcquisition \/ StartAEC \/ StopAECAcquisition \/ WaitAcquisitionReady
  <2>1. UNCHANGED <<gStart, gStop, waiting, allowStart, allowUpdate, started, deltas, detection,
                    writing, calibration>>
    BY <1>4 DEF StartAECAcquisition, StartAEC, StopAECAcquisition, WaitAcquisitionReady,
                StartAcquisition, StopAcquisition
  <2>2. /\ error' \in {error, TRUE} /\ start' \in {start, TRUE} /\ stop' \in {stop, TRUE}
        /\ byCorrection' \in {byCorrection, TRUE}
    BY <1>4 DEF StartAECAcquisition, StartAEC, StopAECAcquisition, WaitAcquisitionReady,
                StartAcquisition, StopAcquisition
  <2>3. error \in BOOLEAN /\ start \in BOOLEAN /\ stop \in BOOLEAN /\ byCorrection \in BOOLEAN
    BY DEF Flags
  <2>4. error' \in BOOLEAN /\ start' \in BOOLEAN /\ stop' \in BOOLEAN /\ byCorrection' \in BOOLEAN
    BY <2>2, <2>3
  <2> QED
    BY <2>1, <2>4 DEF Flags
<1>5. CASE StartSequence \/ WaitSequenceReady \/ FinalizeSequence
  <2>1. UNCHANGED <<gStart, gStop, waiting, allowStart, allowUpdate, started, deltas, detection,
                    writing, calibration>>
    BY <1>5 DEF StartSequence, WaitSequenceReady, FinalizeSequence, StartAcquisition, StopAcquisition
  <2>2. /\ error' \in {error, TRUE, FALSE} /\ start' \in {start, TRUE} /\ stop' \in {stop, TRUE}
        /\ byCorrection' \in {byCorrection, TRUE}
    BY <1>5 DEF StartSequence, WaitSequenceReady, FinalizeSequence, StartAcquisition, StopAcquisition
  <2>3. error \in BOOLEAN /\ start \in BOOLEAN /\ stop \in BOOLEAN /\ byCorrection \in BOOLEAN
    BY DEF Flags
  <2>4. error' \in BOOLEAN /\ start' \in BOOLEAN /\ stop' \in BOOLEAN /\ byCorrection' \in BOOLEAN
    BY <2>2, <2>3
  <2> QED
    BY <2>1, <2>4 DEF Flags
<1>6. CASE InitComputation \/ ComputeAveragedImage \/ ComputeBlackBodyFCal \/ ComputeDeltaBeta
  <2>1. UNCHANGED <<gStart, gStop, waiting, allowStart, allowUpdate, acquisition, writing, calibration,
                    bpMap>>
    BY <1>6 DEF InitComputation, ComputeAveragedImage, ComputeBlackBodyFCal, ComputeDeltaBeta
  <2>2. error' \in {error, TRUE, FALSE} /\ hasCurrent' \in {hasCurrent, TRUE}
        /\ gStartBpd' \in {gStartBpd, TRUE}
    BY <1>6 DEF InitComputation, Allocate, ComputeAveragedImage, ComputeBlackBodyFCal, ComputeDeltaBeta
  <2>3. error \in BOOLEAN /\ hasCurrent \in BOOLEAN /\ gStartBpd \in BOOLEAN
    BY DEF Flags
  <2>4. error' \in BOOLEAN /\ hasCurrent' \in BOOLEAN /\ gStartBpd' \in BOOLEAN
    BY <2>2, <2>3
  <2> QED
    BY <2>1, <2>4 DEF Flags
<1>7. CASE ApplyBadPixelMap \/ ComputeDeltaBetaStats \/ QuantizeDeltaBeta
  <2>1. UNCHANGED <<error, gStart, gStop, waiting, allowStart, allowUpdate, acquisition, hasCurrent,
                    detection, calibration>>
    BY <1>7 DEF ApplyBadPixelMap, ComputeDeltaBetaStats, QuantizeDeltaBeta
  <2>2. gWrite' \in {gWrite, TRUE}
    BY <1>7 DEF ApplyBadPixelMap, ComputeDeltaBetaStats, QuantizeDeltaBeta
  <2>3. gWrite \in BOOLEAN
    BY DEF Flags
  <2>4. gWrite' \in BOOLEAN
    BY <2>2, <2>3
  <2> QED
    BY <2>1, <2>4 DEF Flags
<1>8. CASE DetectBadPixels
  <2>1. UNCHANGED <<gStart, gStop, waiting, allowStart, hasCurrent, gWrite, data>>
    BY <1>8 DEF DetectBadPixels, bpdUnchanged
  <2>2. /\ gStartBpd' \in {gStartBpd, FALSE} /\ bpMap' \in {bpMap, TRUE, FALSE}
        /\ allowUpdate' \in {allowUpdate, TRUE} /\ error' \in {error, TRUE}
    <3>1. CASE BPD_Idle \/ BPD_UpdateBPMap
      BY <3>1 DEF BPD_Idle, BPD_UpdateBPMap
    <3>2. CASE BPD_Fails
      BY <3>2 DEF BPD_Fails
    <3>3. CASE BPD_UpdateBeta \/ BPD_StartAcquisition \/ BPD_WaitSequenceReady
      BY <3>3 DEF BPD_UpdateBeta, BPD_StartAcquisition, BPD_WaitSequenceReady, BpdTo
    <3>4. CASE BPD_FinalizeSequence
      BY <3>4 DEF BPD_FinalizeSequence, BpdTo
    <3> QED
      BY <1>8, <3>1, <3>2, <3>3, <3>4 DEF DetectBadPixels
  <2>3. /\ start' \in {start, TRUE} /\ stop' \in {stop, TRUE} /\ started' = started
        /\ byCorrection' \in {byCorrection, TRUE}
    <3>1. CASE BPD_Idle \/ BPD_UpdateBPMap \/ BPD_UpdateBeta \/ BPD_WaitSequenceReady
      BY <3>1 DEF BPD_Idle, BPD_UpdateBPMap, BPD_UpdateBeta, BPD_WaitSequenceReady
    <3>2. CASE BPD_Fails \/ BPD_FinalizeSequence
      BY <3>2 DEF BPD_Fails, BPD_FinalizeSequence, StopAcquisition
    <3>3. CASE BPD_StartAcquisition
      BY <3>3 DEF BPD_StartAcquisition, StartAcquisition
    <3> QED
      BY <1>8, <3>1, <3>2, <3>3 DEF DetectBadPixels
  <2>4. /\ gStartBpd \in BOOLEAN /\ bpMap \in BOOLEAN /\ allowUpdate \in BOOLEAN /\ error \in BOOLEAN
        /\ start \in BOOLEAN /\ stop \in BOOLEAN /\ started \in BOOLEAN /\ byCorrection \in BOOLEAN
    BY DEF Flags
  <2>5. /\ gStartBpd' \in BOOLEAN /\ bpMap' \in BOOLEAN
        /\ allowUpdate' \in BOOLEAN /\ error' \in BOOLEAN
    BY <2>2, <2>4
  <2>6. start' \in BOOLEAN /\ stop' \in BOOLEAN /\ started' \in BOOLEAN /\ byCorrection' \in BOOLEAN
    BY <2>3, <2>4
  <2> QED
    BY <2>1, <2>5, <2>6 DEF Flags
<1>9. CASE WriteActualizationFile
  <2>1. UNCHANGED <<gStart, gStop, waiting, allowStart, allowUpdate, hasCurrent, detection, data,
                    start, stop, started, byCorrection>>
    BY <1>9 DEF WriteActualizationFile, writeUnchanged
  <2>2. error' \in {error, TRUE} /\ gWrite' \in {gWrite, FALSE}
    BY <1>9 DEF WriteActualizationFile, FWR_Idle, FWR_InitIO, FWR_Write, FWR_Fails, FWR_CloseFile
  <2>3. error \in BOOLEAN /\ gWrite \in BOOLEAN
    BY DEF Flags
  <2>4. error' \in BOOLEAN /\ gWrite' \in BOOLEAN
    BY <2>2, <2>3
  <2> QED
    BY <2>1, <2>4 DEF Flags
<1>10. CASE Finalize \/ Waits
  <2>1. UNCHANGED <<error, gStart, gStop, allowStart, hasCurrent, detection, writing, acquisition, data>>
    BY <1>10 DEF Finalize, Waits, Reverts, LoadFile
  <2>2. waiting' \in {waiting, FALSE} /\ allowUpdate' \in {allowUpdate, TRUE}
    BY <1>10 DEF Finalize, Waits, Reverts
  <2>3. waiting \in BOOLEAN /\ allowUpdate \in BOOLEAN
    BY DEF Flags
  <2>4. waiting' \in BOOLEAN /\ allowUpdate' \in BOOLEAN
    BY <2>2, <2>3
  <2> QED
    BY <2>1, <2>4 DEF Flags
<1> QED
  BY <1>1, <1>2, <1>3, <1>4, <1>5, <1>6, <1>7, <1>8, <1>9, <1>10 DEF Correction

LEMMA EndFlags ==
  ASSUME Flags \subseteq BOOLEAN, EndOfCall
  PROVE  Flags' \subseteq BOOLEAN
<1> USE DEF EndOfCall, process, deltas, detection, writing, acquisition, calibration, registers, icu
<1>1. CASE error \/ gStop
  <2>1. UNCHANGED <<gStart, allowStart, hasCurrent, detection, writing, data, start, started,
                    byCorrection>>
    BY <1>1 DEF Reverts, LoadFile, StopAcquisition
  <2>2. error' = FALSE /\ gStop' = FALSE /\ waiting' = FALSE /\ allowUpdate' = TRUE /\ stop' = TRUE
    BY <1>1 DEF Reverts, StopAcquisition
  <2>3. /\ error' \in BOOLEAN /\ gStop' \in BOOLEAN /\ waiting' \in BOOLEAN
        /\ allowUpdate' \in BOOLEAN /\ stop' \in BOOLEAN
    BY <2>2
  <2> QED
    BY <2>1, <2>3 DEF Flags
<1>2. CASE ~(error \/ gStop)
  BY <1>2 DEF Flags
<1> QED
  BY <1>1, <1>2

LEMMA FlagsType ==
  ASSUME Flags \subseteq BOOLEAN, [Next]_vars
  PROVE  Flags' \subseteq BOOLEAN
<1>1. CASE UNCHANGED vars
  BY <1>1 DEF vars, process, deltas, detection, writing, calibration, acquisition, Flags
<1> QED
  BY <1>1, CalFlags, AcqFlags, CorrectionFlags, EndFlags, CommandFlags DEF Next

(* Every variable keeps its type, under every fault: the database of       *)
(* corrections never outgrows its array, and its indices stay in it.       *)
THEOREM TypeCorrect == Spec => []TypeOK
<1>1. Init => TypeOK
  <2>1. Init => Flags \subseteq BOOLEAN
    BY DEF Init, Flags
  <2> QED
    BY <2>1, InitType DEF TypeOK
<1>2. TypeOK /\ [Next]_vars => TypeOK'
  <2>1. Values /\ Next => Values'
    BY CalibrationType, AcquisitionType, CorrectionType, EndOfCallType, CommandType DEF Next
  <2>2. Values /\ UNCHANGED vars => Values'
    BY DEF Values, vars, process, deltas, detection, writing, registers, calibration,
           acquisition, icu
  <2> QED
    BY <2>1, <2>2, FlagsType DEF TypeOK
<1> QED
  BY <1>1, <1>2, PTL DEF Spec

-----------------------------------------------------------------------------
(* Interruptions, fault by fault: the theorems say which they exclude.     *)
Uninterrupted == "stop" \notin Faults

(* The host and its corrections: a correction is known by waiting.         *)
LEMMA CommandKeepsBusy ==
  ASSUME BusyIsExplained, Command
  PROVE  BusyIsExplained'
<1> USE DEF BusyIsExplained, process, acquisition, calibration, registers, icu
<1>1. CASE DebugStop \/ HostMovesICU \/ PowerOff
  BY <1>1 DEF DebugStop, HostMovesICU, PowerOff
<1>2. CASE HostCorrect \/ HostLoad \/ HostStart \/ HostStop \/ HostWrite \/ IcuArrives \/ PowerOn
  BY <1>2 DEF HostCorrect, HostLoad, HostStart, HostStop, HostWrite, IcuArrives, PowerOn
<1> QED
  BY <1>1, <1>2 DEF Command, Disturbance

LEMMA CorrectionKeepsBusy ==
  ASSUME BusyIsExplained, Correction
  PROVE  BusyIsExplained'
<1> USE DEF BusyIsExplained, process, To, Fails, computeUnchanged
<1>1. CASE Idle
  BY <1>1 DEF Idle
<1>2. CASE Start
  BY <1>2 DEF Start, StartICU, StartBB
<1>3. CASE WaitForCalibData \/ TransitionICU \/ WaitICU \/ StabilizeICU \/ ConfigCamera
  BY <1>3 DEF WaitForCalibData, TransitionICU, WaitICU, StabilizeICU, ConfigCamera
<1>4. CASE StartAECAcquisition \/ StartAEC \/ StopAECAcquisition \/ WaitAcquisitionReady
  BY <1>4 DEF StartAECAcquisition, StartAEC, StopAECAcquisition, WaitAcquisitionReady
<1>5. CASE StartSequence \/ WaitSequenceReady \/ FinalizeSequence
  BY <1>5 DEF StartSequence, WaitSequenceReady, FinalizeSequence
<1>6. CASE InitComputation \/ ComputeAveragedImage \/ ComputeBlackBodyFCal \/ ComputeDeltaBeta
  BY <1>6 DEF InitComputation, ComputeAveragedImage, ComputeBlackBodyFCal, ComputeDeltaBeta,
              AfterDetection
<1>7. CASE ApplyBadPixelMap \/ ComputeDeltaBetaStats \/ QuantizeDeltaBeta
  BY <1>7 DEF ApplyBadPixelMap, ComputeDeltaBetaStats, QuantizeDeltaBeta
<1>8. CASE DetectBadPixels
  BY <1>8 DEF DetectBadPixels, bpdUnchanged, BPD_Idle, BPD_UpdateBeta, BPD_StartAcquisition,
              BPD_WaitSequenceReady, BPD_FinalizeSequence, BPD_UpdateBPMap, BPD_Fails, BpdTo,
              AfterDetection
<1>9. CASE WriteActualizationFile
  BY <1>9 DEF WriteActualizationFile, writeUnchanged, FWR_Idle, FWR_InitIO, FWR_Write,
              FWR_Fails, FWR_CloseFile
<1>10. CASE Finalize \/ Waits
  BY <1>10 DEF Finalize, Waits, Reverts
<1> QED
  BY <1>1, <1>2, <1>3, <1>4, <1>5, <1>6, <1>7, <1>8, <1>9, <1>10 DEF Correction

(* The host is locked out, and the camera busy, only while a correction is *)
(* pending or runs, whatever interrupts it: the debug terminal, the power  *)
(* button or the failure of a step.                                        *)
THEOREM HostLockedOutForAReason == Spec => []BusyIsExplained
<1>1. Init => BusyIsExplained
  BY DEF Init, BusyIsExplained
<1>2. BusyIsExplained /\ [Next]_vars => BusyIsExplained'
  <2> SUFFICES ASSUME BusyIsExplained, [Next]_vars
               PROVE  BusyIsExplained'
    OBVIOUS
  <2>1. CASE CalibrationTurn \/ AcquisitionTurn
    BY <2>1 DEF CalibrationTurn, calUnchanged, AcquisitionTurn, acqUnchanged, process,
                BusyIsExplained
  <2>2. CASE EndOfCall
    BY <2>2 DEF EndOfCall, Reverts, process, BusyIsExplained
  <2>3. CASE UNCHANGED vars
    BY <2>3 DEF vars, process, BusyIsExplained
  <2> QED
    BY <2>1, <2>2, <2>3, CommandKeepsBusy, CorrectionKeepsBusy DEF Next
<1> QED
  BY <1>1, <1>2, PTL DEF Spec

-----------------------------------------------------------------------------
(* What holds without interruptions.                                       *)
Restoring == LockedOut /\ RegistersKept /\ FilesClosed

LEMMA CommandKeepsRestoring ==
  ASSUME Uninterrupted, Restoring, Command
  PROVE  Restoring'
<1> USE DEF Uninterrupted, Restoring, LockedOut, RegistersKept, FilesClosed, process,
            acquisition, calibration, registers, icu, writing
<1>1. CASE DebugStop \/ HostMovesICU \/ PowerOff
  BY <1>1 DEF DebugStop, HostMovesICU, PowerOff, Command
<1>2. CASE HostCorrect \/ HostLoad \/ HostStart \/ HostStop
  BY <1>2 DEF HostCorrect, HostLoad, HostStart, HostStop, Command
<1>3. CASE HostWrite \/ IcuArrives
  BY <1>3 DEF HostWrite, IcuArrives, Command
<1>4. CASE PowerOn
  <2>0. UNCHANGED <<turn, state, error, gStop, regs, backup, writer, fd>>
    BY <1>4 DEF PowerOn, Command
  <2>1. CASE UNCHANGED <<gStart, waiting>>
    BY <2>0, <2>1
  <2>2. CASE gStart' = (gStart \/ ~waiting) /\ waiting' = TRUE
    <3>1. state # "Idle" => ~gStart'
      BY <2>2
    <3> QED
      BY <2>0, <2>2, <3>1
  <2> QED
    BY <1>4, <2>1, <2>2 DEF PowerOn
<1> QED
  BY <1>1, <1>2, <1>3, <1>4 DEF Command, Disturbance

LEMMA CorrectionKeepsRestoring ==
  ASSUME Restoring, Correction
  PROVE  Restoring'
<1> USE DEF Restoring, LockedOut, RegistersKept, FilesClosed, process, registers, writing,
            Correction, To, Fails, restUnchanged, computeUnchanged
<1>1. CASE Idle
  BY <1>1 DEF Idle
<1>2. CASE Start
  BY <1>2 DEF Start, StartICU, StartBB, BackupRegisters
<1>3. CASE WaitForCalibData \/ TransitionICU \/ WaitICU \/ StabilizeICU \/ ConfigCamera
  BY <1>3 DEF WaitForCalibData, TransitionICU, WaitICU, StabilizeICU, ConfigCamera
<1>4. CASE StartAECAcquisition \/ StartAEC \/ StopAECAcquisition \/ WaitAcquisitionReady
  BY <1>4 DEF StartAECAcquisition, StartAEC, StopAECAcquisition, WaitAcquisitionReady
<1>5. CASE StartSequence \/ WaitSequenceReady \/ FinalizeSequence
  BY <1>5 DEF StartSequence, WaitSequenceReady, FinalizeSequence
<1>6. CASE InitComputation \/ ComputeAveragedImage \/ ComputeBlackBodyFCal
  BY <1>6 DEF InitComputation, ComputeAveragedImage, ComputeBlackBodyFCal
<1>7. CASE ComputeDeltaBeta \/ ApplyBadPixelMap \/ ComputeDeltaBetaStats \/ QuantizeDeltaBeta
  BY <1>7 DEF ComputeDeltaBeta, AfterDetection, ApplyBadPixelMap, ComputeDeltaBetaStats,
              QuantizeDeltaBeta
<1>8. CASE DetectBadPixels
  BY <1>8 DEF DetectBadPixels, bpdUnchanged, BPD_Idle, BPD_UpdateBeta, BPD_StartAcquisition,
              BPD_WaitSequenceReady, BPD_FinalizeSequence, BPD_UpdateBPMap, BPD_Fails, BpdTo,
              AfterDetection
<1>9. CASE WriteActualizationFile
  BY <1>9 DEF WriteActualizationFile, writeUnchanged, FWR_Idle, FWR_InitIO, FWR_Write,
              FWR_Fails, FWR_CloseFile
<1>10. CASE Finalize
  BY <1>10 DEF Finalize, Reverts, RestoreRegisters
<1>11. CASE Waits
  BY <1>11 DEF Waits
<1> QED
  BY <1>1, <1>2, <1>3, <1>4, <1>5, <1>6, <1>7, <1>8, <1>9, <1>10, <1>11

LEMMA RestoringInvariant ==
  ASSUME Uninterrupted
  PROVE  Spec => []Restoring
<1>1. Init => Restoring
  BY DEF Init, Restoring, LockedOut, RegistersKept, FilesClosed
<1>2. Restoring /\ [Next]_vars => Restoring'
  <2> SUFFICES ASSUME Restoring, [Next]_vars
               PROVE  Restoring'
    OBVIOUS
  <2> USE DEF Restoring, LockedOut, RegistersKept, FilesClosed, process, registers, writing
  <2>1. CASE CalibrationTurn \/ AcquisitionTurn
    BY <2>1 DEF CalibrationTurn, calUnchanged, AcquisitionTurn, acqUnchanged
  <2>2. CASE EndOfCall
    BY <2>2 DEF EndOfCall, Reverts, RestoreRegisters
  <2>3. CASE UNCHANGED vars
    BY <2>3 DEF vars
  <2> QED
    BY <2>1, <2>2, <2>3, CommandKeepsRestoring, CorrectionKeepsRestoring DEF Next
<1> QED
  BY <1>1, <1>2, PTL DEF Spec

(* However a correction ends, after any of its steps and any power cycle,  *)
(* the registers it has changed have the values the host gave them.        *)
THEOREM RegistersAreRestored ==
  ASSUME Uninterrupted
  PROVE  Spec => []RegistersRestored
<1>1. Restoring => RegistersRestored
  BY DEF Restoring, RegistersKept, RegistersRestored, AtRest
<1> QED
  BY <1>1, RestoringInvariant, PTL

(* No correction leaves a file open, however its writing fails.            *)
THEOREM NoFileStaysOpen ==
  ASSUME Uninterrupted
  PROVE  Spec => []NoDescriptorLeak
<1>1. Restoring => NoDescriptorLeak
  BY DEF Restoring, FilesClosed, NoDescriptorLeak, AtRest
<1> QED
  BY <1>1, RestoringInvariant, PTL

-----------------------------------------------------------------------------
(* The acquisitions of a camera that stays on, whose host does not ask for *)
(* a correction while its own start is pending.                            *)
Undisturbed == {"stop", "power", "startRace"} \cap Faults = {}

Acquiring == Restoring /\ CommandsServed /\ OwnAcquisition

LEMMA CommandKeepsAcquiring ==
  ASSUME Undisturbed, Acquiring, Command
  PROVE  CommandsServed' /\ OwnAcquisition'
<1> USE DEF Acquiring, Restoring, LockedOut, CommandsServed, OwnAcquisition, Expecting,
            Stopping, process, acquisition, detection
<1>1. UNCHANGED <<turn, bpd, error, state>> /\ turn = "calibration"
  BY DEF Command, Disturbance, DebugStop, HostMovesICU, PowerOff, HostCorrect, HostLoad,
         HostStart, HostStop, HostWrite, IcuArrives, PowerOn
<1>2. ~DebugStop /\ ~PowerOff /\ ~PowerOn
  BY DEF Undisturbed, DebugStop, PowerOff, PowerOn
<1>3. CASE HostMovesICU \/ HostLoad \/ HostWrite \/ IcuArrives
  BY <1>1, <1>3 DEF HostMovesICU, HostLoad, HostWrite, IcuArrives
<1>4. CASE HostStart \/ HostStop
  BY <1>1, <1>4 DEF HostStart, HostStop
<1>5. CASE HostCorrect
  BY <1>1, <1>5 DEF HostCorrect, Undisturbed
<1> QED
  BY <1>2, <1>3, <1>4, <1>5 DEF Command, Disturbance

LEMMA AcquisitionKeepsAcquiring ==
  ASSUME Acquiring, AcquisitionTurn
  PROVE  CommandsServed' /\ OwnAcquisition'
<1> USE DEF Acquiring, Restoring, LockedOut, CommandsServed, OwnAcquisition, Expecting,
            Stopping, process, acqUnchanged, acqOnly, detection, AcquisitionTurn
<1>1. ~AcqOff /\ ~AcqIsOff
  BY DEF AcqOff, AcqIsOff
<1>2. CASE AcqStopped
  BY <1>2 DEF AcqStopped
<1>3. CASE AcqWaiting
  BY <1>3 DEF AcqWaiting
<1>4. CASE AcqReady
  BY <1>4 DEF AcqReady
<1>5. CASE AcqStarted
  BY <1>5 DEF AcqStarted
<1> QED
  BY <1>1, <1>2, <1>3, <1>4, <1>5

LEMMA CorrectionKeepsAcquiring ==
  ASSUME Acquiring, Correction
  PROVE  CommandsServed' /\ OwnAcquisition'
<1> USE DEF Acquiring, Restoring, LockedOut, CommandsServed, OwnAcquisition, Expecting,
            Stopping, process, acquisition, detection, Correction, To, Fails,
            restUnchanged, computeUnchanged
<1>1. CASE Idle
  BY <1>1 DEF Idle
<1>2. CASE Start
  BY <1>2 DEF Start, StartICU, StartBB
<1>3. CASE WaitForCalibData \/ TransitionICU \/ WaitICU \/ StabilizeICU \/ ConfigCamera
  BY <1>3 DEF WaitForCalibData, TransitionICU, WaitICU, StabilizeICU, ConfigCamera
<1>4. CASE StartAECAcquisition \/ StartAEC
  BY <1>4 DEF StartAECAcquisition, StartAEC, StartAcquisition
<1>5. CASE StopAECAcquisition \/ WaitAcquisitionReady
  BY <1>5 DEF StopAECAcquisition, WaitAcquisitionReady, StopAcquisition
<1>6. CASE StartSequence \/ WaitSequenceReady
  BY <1>6 DEF StartSequence, WaitSequenceReady, StartAcquisition
<1>7. CASE FinalizeSequence
  BY <1>7 DEF FinalizeSequence, StopAcquisition
<1>8. CASE InitComputation \/ ComputeAveragedImage \/ ComputeBlackBodyFCal
  BY <1>8 DEF InitComputation, ComputeAveragedImage, ComputeBlackBodyFCal
<1>9. CASE ComputeDeltaBeta \/ ApplyBadPixelMap \/ ComputeDeltaBetaStats \/ QuantizeDeltaBeta
  BY <1>9 DEF ComputeDeltaBeta, AfterDetection, ApplyBadPixelMap, ComputeDeltaBetaStats,
              QuantizeDeltaBeta
<1>10. CASE DetectBadPixels
  <2> USE DEF DetectBadPixels, bpdUnchanged, BpdTo
  <2>1. CASE BPD_Idle \/ BPD_UpdateBeta
    BY <1>10, <2>1 DEF BPD_Idle, BPD_UpdateBeta
  <2>2. CASE BPD_StartAcquisition \/ BPD_WaitSequenceReady
    BY <1>10, <2>2 DEF BPD_StartAcquisition, BPD_WaitSequenceReady, StartAcquisition
  <2>3. CASE BPD_FinalizeSequence
    BY <1>10, <2>3 DEF BPD_FinalizeSequence, StopAcquisition
  <2>4. CASE BPD_UpdateBPMap
    BY <1>10, <2>4 DEF BPD_UpdateBPMap, AfterDetection
  <2>5. CASE BPD_Fails
    BY <1>10, <2>5 DEF BPD_Fails, StopAcquisition
  <2> QED
    BY <1>10, <2>1, <2>2, <2>3, <2>4, <2>5
<1>11. CASE WriteActualizationFile
  BY <1>11 DEF WriteActualizationFile, writeUnchanged, FWR_Idle, FWR_InitIO, FWR_Write,
               FWR_Fails, FWR_CloseFile
<1>12. CASE Finalize
  BY <1>12 DEF Finalize, Reverts
<1>13. CASE Waits
  BY <1>13 DEF Waits
<1> QED
  BY <1>1, <1>2, <1>3, <1>4, <1>5, <1>6, <1>7, <1>8, <1>9, <1>10, <1>11, <1>12, <1>13

LEMMA EndOfCallKeepsAcquiring ==
  ASSUME Acquiring, EndOfCall
  PROVE  CommandsServed' /\ OwnAcquisition'
<1> USE DEF Acquiring, Restoring, LockedOut, CommandsServed, OwnAcquisition, Expecting,
            Stopping, process, acquisition, detection
<1>1. CASE error
  BY <1>1 DEF EndOfCall, Reverts, StopAcquisition
<1>2. CASE ~error
  BY <1>2 DEF EndOfCall
<1> QED
  BY <1>1, <1>2

LEMMA AcquiringInvariant ==
  ASSUME Undisturbed
  PROVE  Spec => []Acquiring
<1>1. Uninterrupted
  BY DEF Undisturbed, Uninterrupted
<1>2. Init => CommandsServed /\ OwnAcquisition
  BY DEF Init, CommandsServed, OwnAcquisition, Expecting, Stopping
<1>3. Acquiring /\ [Next]_vars => (CommandsServed /\ OwnAcquisition)'
  <2> SUFFICES ASSUME Acquiring, [Next]_vars
               PROVE  CommandsServed' /\ OwnAcquisition'
    OBVIOUS
  <2>1. CASE CalibrationTurn
    BY <2>1 DEF CalibrationTurn, calUnchanged, process, acquisition, detection, Acquiring,
                Restoring, LockedOut, CommandsServed, OwnAcquisition, Expecting, Stopping
  <2>2. CASE UNCHANGED vars
    BY <2>2 DEF vars, process, acquisition, detection, Acquiring, CommandsServed,
                OwnAcquisition, Expecting, Stopping
  <2> QED
    BY <2>1, <2>2, CommandKeepsAcquiring, AcquisitionKeepsAcquiring,
       CorrectionKeepsAcquiring, EndOfCallKeepsAcquiring DEF Next
<1>4. []Restoring /\ [][Next]_vars /\ CommandsServed /\ OwnAcquisition
        => []Acquiring
  BY <1>3, PTL DEF Acquiring
<1> QED
  BY <1>1, <1>2, <1>4, RestoringInvariant, PTL DEF Spec

(* No acquisition a correction has started outlives it, however the        *)
(* correction fails and whatever the detector was doing then.              *)
THEOREM AcquisitionsEndWithTheCorrection ==
  ASSUME Undisturbed
  PROVE  Spec => []NoStrayAcquisition
<1>1. Acquiring => NoStrayAcquisition
  BY DEF Acquiring, OwnAcquisition, NoStrayAcquisition, AtRest
<1> QED
  BY <1>1, AcquiringInvariant, PTL
-----------------------------------------------------------------------------
(* What the process relies on of the calibration manager: the contract that *)
(* CalibrationManager keeps.  A load is on behalf of a request, and nothing *)
(* is served while it lasts.                                               *)
LoadExplained == data => load # Null /\ ~calib.valid

NotServed == UNCHANGED <<load, data, Served>>
Requested == \E file \in Calibrations : LoadFile(file)

(* All that any step does to the calibration: a request, the steps of the  *)
(* manager, or nothing that the contract tells apart.                      *)
LEMMA CorrectionAsks ==
  ASSUME Values, Correction
  PROVE  NotServed \/ Requested
<1> USE DEF NotServed, Requested, calibration
<1>1. CASE Idle \/ WaitForCalibData \/ TransitionICU \/ WaitICU \/ StabilizeICU \/ ConfigCamera
           \/ StartAECAcquisition \/ StartAEC \/ StopAECAcquisition \/ WaitAcquisitionReady
           \/ StartSequence \/ WaitSequenceReady \/ FinalizeSequence
  BY <1>1 DEF Idle, WaitForCalibData, TransitionICU, WaitICU, StabilizeICU, ConfigCamera,
              StartAECAcquisition, StartAEC, StopAECAcquisition, WaitAcquisitionReady,
              StartSequence, WaitSequenceReady, FinalizeSequence, restUnchanged, Served
<1>2. CASE InitComputation \/ ComputeAveragedImage \/ ComputeBlackBodyFCal \/ ComputeDeltaBeta
           \/ ApplyBadPixelMap \/ ComputeDeltaBetaStats \/ QuantizeDeltaBeta
           \/ WriteActualizationFile \/ Waits
  BY <1>2 DEF InitComputation, ComputeAveragedImage, ComputeBlackBodyFCal, ComputeDeltaBeta,
              ApplyBadPixelMap, ComputeDeltaBetaStats, QuantizeDeltaBeta,
              WriteActualizationFile, writeUnchanged, Waits, Served
<1>3. CASE Start
  <2>1. IcuBlock # Null => <<IcuBlock>> \in Calibrations
    BY DEF Calibrations, AllBlocks
  <2>2. calib.file \in Calibrations /\ \A i \in DOMAIN calib.file : <<calib.file[i]>> \in Calibrations
    BY FileType DEF Calibrations
  <2>3. CASE mode = "ICU"
    BY <1>3, <2>1, <2>3 DEF Start, StartICU, Served
  <2>4. CASE mode # "ICU"
    <3> DEFINE all == mode \in {"AllBlocks", "AllBlocksSync"}
               sync == mode \in {"BlockSync", "AllBlocksSync"}
               blocks == IF all THEN Len(calib.file) ELSE 1
    <3>1. CASE calib.file = <<>>
      BY <1>3, <2>4, <3>1 DEF Start, StartBB, Served
    <3>2. CASE calib.file # <<>>
      <4>1. PICK i \in DOMAIN calib.file \cup {1} :
              LoadFile(IF blocks > 1 \/ sync THEN calib.file ELSE <<calib.file[i]>>)
        BY <1>3, <2>4, <3>2, Zenon DEF Start, StartBB
      <4>2. i \in DOMAIN calib.file
        BY <2>2, <3>2, <4>1, FileType
      <4>3. \E f \in Calibrations : LoadFile(f)
        BY <2>2, <4>1, <4>2
      <4> QED
        BY <1>3, <4>3 DEF Start, Served
    <3> QED
      BY <3>1, <3>2
  <2> QED
    BY <2>3, <2>4
<1>4. CASE DetectBadPixels
  <2>1. UNCHANGED <<load, data>>
    BY <1>4 DEF DetectBadPixels, bpdUnchanged
  <2>2. calib'.valid = calib.valid /\ calib'.file = calib.file
    <3>1. calib' = calib \/ calib' = [calib EXCEPT !.corrected = @ \cup {CurrentBlock}]
      BY <1>4 DEF DetectBadPixels, BPD_Idle, BPD_UpdateBeta, BPD_StartAcquisition,
                  BPD_WaitSequenceReady, BPD_FinalizeSequence, BPD_UpdateBPMap, BPD_Fails
    <3> QED
      BY <3>1 DEF Values, Infos
  <2> QED
    BY <2>1, <2>2 DEF Served
<1>5. CASE Finalize
  <2>1. saved \in Calibrations \cup {Null}
    BY DEF Values
  <2> QED
    BY <1>5, <2>1 DEF Finalize, Reverts, Served
<1> QED
  BY <1>1, <1>2, <1>3, <1>4, <1>5 DEF Correction

LEMMA OthersAsk ==
  ASSUME Values, AcquisitionTurn \/ EndOfCall \/ Command
  PROVE  NotServed \/ Requested
<1> USE DEF NotServed, Requested, calibration
<1>1. CASE AcquisitionTurn
  <2>1. calib.file \in Calibrations
    BY FileType DEF Calibrations
  <2>2. CASE AcqOff
    BY <2>1, <2>2 DEF AcqOff, Served
  <2>3. CASE ~AcqOff
    BY <1>1, <2>3 DEF AcquisitionTurn, AcqStopped, AcqWaiting, AcqReady, AcqStarted, AcqIsOff,
                      acqOnly, Served
  <2> QED
    BY <2>2, <2>3
<1>2. CASE EndOfCall
  <2>1. saved \in Calibrations \cup {Null}
    BY DEF Values
  <2> QED
    BY <1>2, <2>1 DEF EndOfCall, Reverts, Served
<1>3. CASE Command
  <2>1. CASE HostLoad
    <3>1. Collections \subseteq Calibrations
      BY CorrectionAssumption
    <3> QED
      BY <2>1, <3>1 DEF HostLoad, LoadFile
  <2>2. CASE ~HostLoad
    BY <1>3, <2>2 DEF Command, Disturbance, DebugStop, HostMovesICU, PowerOff, HostCorrect,
                      HostStart, HostStop, HostWrite, IcuArrives, PowerOn, Served
  <2> QED
    BY <2>1, <2>2
<1> QED
  BY <1>1, <1>2, <1>3

(* The steps of the manager, as the process sees them.                     *)
LEMMA ManagerSteps ==
  ASSUME Values, LoadExplained, CalibrationTurn
  PROVE  LoadExplained' /\ (Contract!Next \/ NotServed)
<1> USE DEF LoadExplained, NotServed, Values, Infos
<1>1. CASE CalStart
  BY <1>1 DEF CalStart, Contract!Next, Contract!Begin, Phase, Served
<1>2. CASE CalBlock
  <2>1. UNCHANGED <<load, data>> /\ ~calib.valid
    BY <1>2 DEF CalBlock
  <2>2. calib'.valid = calib.valid
    BY <1>2 DEF CalBlock
  <2> QED
    BY <1>2, <2>1, <2>2 DEF Served
<1>3. CASE CalDone
  <2>1. calib'.valid = TRUE /\ calib'.file = load /\ load # Null
    BY <1>3 DEF CalDone
  <2> QED
    BY <1>3, <2>1 DEF CalDone, Contract!Next, Contract!Finish, Phase, Served
<1>4. CASE CalFail
  <2>1. calib'.valid = FALSE
    BY <1>4 DEF CalFail
  <2> QED
    BY <1>4, <2>1 DEF CalFail, Contract!Next, Contract!Fail, Phase, Served
<1>5. CASE CalWaits
  BY <1>5 DEF CalWaits, calibration, Served
<1> QED
  BY <1>1, <1>2, <1>3, <1>4, <1>5 DEF CalibrationTurn

(* Whatever goes wrong, what the process sees of the calibration manager   *)
(* is a behaviour of the contract that the manager keeps: its requests are *)
(* refused and served as those of any other client (Actualization.c,       *)
(* Calibration.c).                                                         *)
THEOREM ImplementsContract == Spec => KeepsContract
<1> USE CorrectionAssumption
<1>1. Init => Contract!Init /\ LoadExplained
  <2>1. Collections \subseteq Calibrations
    OBVIOUS
  <2> QED
    BY <2>1 DEF Init, Contract!Init, Phase, Served, LoadExplained
<1>2. TypeOK /\ TypeOK' /\ LoadExplained /\ [Next]_vars =>
        LoadExplained' /\ [Contract!Next]_(Contract!vars)
  <2> SUFFICES ASSUME Values, Values', LoadExplained, [Next]_vars
               PROVE  LoadExplained' /\ (Contract!Next \/ NotServed)
    BY DEF Contract!vars, NotServed, Phase, TypeOK
  <2>1. CASE Requested
    <3>1. PICK file \in Calibrations : LoadFile(file)
      BY <2>1 DEF Requested
    <3>2. CASE load = Null
      <4>1. Phase = "free" /\ Phase' = "pending" /\ Served' = Served /\ load' = file
        BY <3>1, <3>2 DEF LoadFile, Phase, Served, LoadExplained
      <4>2. LoadExplained'
        BY <3>1, <3>2 DEF LoadFile, LoadExplained
      <4> QED
        BY <4>1, <4>2 DEF Contract!Next, Contract!Ask
    <3>3. CASE load # Null
      BY <3>1, <3>3 DEF LoadFile, LoadExplained, NotServed, Served
    <3> QED
      BY <3>2, <3>3
  <2>2. CASE NotServed /\ calib'.valid = calib.valid
    BY <2>2 DEF LoadExplained, NotServed
  <2>3. NotServed => calib'.valid = calib.valid
    <3>1. /\ calib.valid \in BOOLEAN /\ calib'.valid \in BOOLEAN
          /\ calib.file # Null /\ calib'.file # Null
      BY DEF Values, Infos
    <3> QED
      BY <3>1 DEF NotServed, Served
  <2>4. CASE CalibrationTurn
    BY <2>4, ManagerSteps
  <2>5. CASE UNCHANGED vars
    BY <2>5 DEF vars, calibration, NotServed, Served, LoadExplained
  <2> QED
    BY <2>1, <2>2, <2>3, <2>4, <2>5, CorrectionAsks, OthersAsk DEF Next
<1> QED
  BY <1>1, <1>2, TypeCorrect, PTL DEF Spec, KeepsContract, Contract!Spec
-----------------------------------------------------------------------------
(* A correction goes round for a bounded number of steps.  The values of   *)
(* StepsOf, from the start of a block to the end of the process.           *)
LEMMA StepsTable ==
  \A p, d, w :
    /\ StepsOf("WaitForCalibData", p, d, w) = 40
    /\ StepsOf("TransitionICU", p, d, w) = IF p = 1 THEN 39 ELSE 36
    /\ StepsOf("WaitICU", p, d, w) = IF p = 1 THEN 38 ELSE 35
    /\ StepsOf("StabilizeICU", p, d, w) = IF p = 1 THEN 37 ELSE 34
    /\ StepsOf("ConfigCamera", p, d, w) = 33
    /\ StepsOf("StartAECAcquisition", p, d, w) = 32
    /\ StepsOf("StartAEC", p, d, w) = 31
    /\ StepsOf("StopAECAcquisition", p, d, w) = 30
    /\ StepsOf("WaitAcquisitionReady", p, d, w) = 29
    /\ StepsOf("StartAcquisition", p, d, w) = 28
    /\ StepsOf("WaitSequenceReady", p, d, w) = 27
    /\ StepsOf("FinalizeSequence", p, d, w) = 26
    /\ StepsOf("InitComputation", p, d, w) = 25
    /\ StepsOf("ComputeAveragedImage", p, d, w) = 24
    /\ StepsOf("ComputeBlackBodyFCal", p, d, w) = 23
    /\ StepsOf("ComputeDeltaBeta", p, d, w) = 22
    /\ StepsOf("ApplyBadPixelMap", p, d, w) = 13
    /\ StepsOf("ComputeDeltaBetaStats", p, d, w) = 12
    /\ StepsOf("QuantizeDeltaBeta", p, d, w) = 11
    /\ StepsOf("Finalize", p, d, w) = 1
BY DEF StepsOf, StepsOfICU, OrderOfStates

LEMMA StepsOfMachines ==
  \A p, d, w :
    /\ StepsOf("DetectBadPixels", p, "Idle", w) = 19
    /\ StepsOf("DetectBadPixels", p, "UpdateBeta", w) = 18
    /\ StepsOf("DetectBadPixels", p, "StartAcquisition", w) = 17
    /\ StepsOf("DetectBadPixels", p, "WaitSequenceReady", w) = 16
    /\ StepsOf("DetectBadPixels", p, "FinalizeSequence", w) = 15
    /\ StepsOf("DetectBadPixels", p, "UpdateBPMap", w) = 14
    /\ StepsOf("WriteActualizationFile", p, d, "IDLE") = 7
    /\ StepsOf("WriteActualizationFile", p, d, "DELETE_PREVIOUS") = 6
    /\ StepsOf("WriteActualizationFile", p, d, "FILE_HEADER") = 5
    /\ StepsOf("WriteActualizationFile", p, d, "DATA") = 4
    /\ StepsOf("WriteActualizationFile", p, d, "CLOSEFILE") = 3
BY DEF StepsOf, StepsOfDetection, StepsOfWriter

(* Only the writer takes another block.                                    *)
LEMMA BlocksKept ==
  ASSUME run \in Runs,
         \/ run' = run
         \/ \E n \in 0..2 : run' = [run EXCEPT !.icuPhase = n]
         \/ \E b \in BOOLEAN : run' = [run EXCEPT !.onReference = b]
  PROVE  BlocksLeft' = BlocksLeft
BY DEF Runs, BlocksLeft

ErrorAtTail == error => turn = "tail"

(* The states of the process, each to one that is nearer to the end.       *)
LEMMA CorrectionAdvances ==
  ASSUME Values, Running, ~error, Correction
  PROVE  Advances \/ UNCHANGED <<state, bpd, writer, run>>
<1> USE DEF Advances, process, detection, writing, restUnchanged, computeUnchanged, To, Fails
<1>0. run \in Runs
  BY DEF Values
<1>1. CASE Idle \/ Start
  BY <1>1 DEF Idle, Start, Running
<1>2. CASE WaitForCalibData
  <2>1. state = "WaitForCalibData"
    BY <1>2 DEF WaitForCalibData
  <2>2. error' \/ (state' = "TransitionICU" /\ run' = [run EXCEPT !.icuPhase = 1])
               \/ (state' = "ConfigCamera" /\ run' = run)
    BY <1>2 DEF WaitForCalibData
  <2>3. ~error' => BlocksLeft' = BlocksLeft
    BY <1>0, <2>2, BlocksKept
  <2> QED
    BY <2>1, <2>2, <2>3, StepsTable DEF StepsLeft
<1>3. CASE TransitionICU \/ WaitICU
  <2>1. /\ UNCHANGED run
        /\ \/ state = "TransitionICU" /\ state' = "WaitICU"
           \/ state = "WaitICU" /\ state' = "StabilizeICU"
    BY <1>3 DEF TransitionICU, WaitICU
  <2> QED
    BY <1>0, <2>1, BlocksKept, StepsTable DEF StepsLeft
<1>4. CASE StabilizeICU
  <2>1. /\ state = "StabilizeICU"
        /\ \/ run.icuPhase = 1 /\ state' = "TransitionICU" /\ run' = [run EXCEPT !.icuPhase = 2]
           \/ state' = "ConfigCamera" /\ run' = [run EXCEPT !.icuPhase = 0]
    BY <1>4 DEF StabilizeICU
  <2>2. BlocksLeft' = BlocksLeft
    BY <1>0, <2>1, BlocksKept
  <2>3. state' = "TransitionICU" => run'.icuPhase = 2
    BY <1>0, <2>1 DEF Runs
  <2> QED
    BY <2>1, <2>2, <2>3, StepsTable DEF StepsLeft
<1>5. CASE ConfigCamera \/ StartAECAcquisition \/ StartAEC \/ StopAECAcquisition
           \/ WaitAcquisitionReady \/ StartSequence
  <2>1. error' \/
        /\ UNCHANGED run
        /\ \/ state = "ConfigCamera" /\ state' = "StartAECAcquisition"
           \/ state = "StartAECAcquisition" /\ state' = "StartAEC"
           \/ state = "StartAEC" /\ state' = "StopAECAcquisition"
           \/ state = "StopAECAcquisition" /\ state' \in {"WaitAcquisitionReady", "StartAcquisition"}
           \/ state = "WaitAcquisitionReady" /\ state' = "StartAcquisition"
           \/ state = "StartAcquisition" /\ state' = "WaitSequenceReady"
    BY <1>5 DEF ConfigCamera, StartAECAcquisition, StartAEC, StopAECAcquisition,
                WaitAcquisitionReady, StartSequence
  <2> QED
    BY <1>0, <2>1, BlocksKept, StepsTable DEF StepsLeft
<1>6. CASE WaitSequenceReady
  <2>1. state = "WaitSequenceReady"
    BY <1>6 DEF WaitSequenceReady
  <2>2. error' \/ (/\ state' = "FinalizeSequence"
                   /\ \E b \in BOOLEAN : run' = [run EXCEPT !.onReference = b])
    BY <1>6 DEF WaitSequenceReady
  <2>3. ~error' => BlocksLeft' = BlocksLeft
    BY <1>0, <2>2, BlocksKept
  <2> QED
    BY <2>1, <2>2, <2>3, StepsTable DEF StepsLeft
<1>7. CASE FinalizeSequence
  <2>1. /\ UNCHANGED <<run, bpd, writer>>
        /\ \/ UNCHANGED state
           \/ state = "FinalizeSequence" /\ state' = "InitComputation"
    BY <1>7 DEF FinalizeSequence
  <2> QED
    BY <1>0, <2>1, BlocksKept, StepsTable DEF StepsLeft
<1>8. CASE InitComputation \/ ComputeAveragedImage \/ ComputeBlackBodyFCal
  <2>1. error' \/
        /\ UNCHANGED run
        /\ \/ state = "InitComputation" /\ state' = "ComputeAveragedImage"
           \/ state = "ComputeAveragedImage" /\ state' = "ComputeBlackBodyFCal"
           \/ state = "ComputeBlackBodyFCal" /\ state' = "ComputeDeltaBeta"
    BY <1>8 DEF InitComputation, ComputeAveragedImage, ComputeBlackBodyFCal
  <2> QED
    BY <1>0, <2>1, BlocksKept, StepsTable DEF StepsLeft
<1>9. CASE ComputeDeltaBeta
  <2>1. /\ UNCHANGED <<run, bpd>> /\ state = "ComputeDeltaBeta"
        /\ state' \in {"DetectBadPixels", "ApplyBadPixelMap", "ComputeDeltaBetaStats"}
    BY <1>9 DEF ComputeDeltaBeta, AfterDetection
  <2>2. bpd' \in {"Idle", "UpdateBeta", "StartAcquisition", "WaitSequenceReady",
                  "FinalizeSequence", "UpdateBPMap"}
    BY <2>1 DEF Values
  <2> QED
    BY <1>0, <2>1, <2>2, BlocksKept, StepsTable, StepsOfMachines DEF StepsLeft
<1>10. CASE ApplyBadPixelMap \/ ComputeDeltaBetaStats
  <2>1. /\ UNCHANGED run
        /\ \/ state = "ApplyBadPixelMap" /\ state' = "ComputeDeltaBetaStats"
           \/ state = "ComputeDeltaBetaStats" /\ state' = "QuantizeDeltaBeta"
    BY <1>10 DEF ApplyBadPixelMap, ComputeDeltaBetaStats
  <2> QED
    BY <1>0, <2>1, BlocksKept, StepsTable DEF StepsLeft
<1>11. CASE QuantizeDeltaBeta
  <2>1. UNCHANGED <<run, writer>> /\ state = "QuantizeDeltaBeta" /\ state' = "WriteActualizationFile"
    BY <1>11 DEF QuantizeDeltaBeta
  <2>2. writer' \in {"IDLE", "DELETE_PREVIOUS", "FILE_HEADER", "DATA", "CLOSEFILE"}
    BY <2>1 DEF Values
  <2> QED
    BY <1>0, <2>1, <2>2, BlocksKept, StepsTable, StepsOfMachines DEF StepsLeft
<1>12. CASE DetectBadPixels
  <2>1. state = "DetectBadPixels" /\ UNCHANGED <<run, writer>>
    BY <1>12 DEF DetectBadPixels, bpdUnchanged
  <2>2. \/ error'
        \/ UNCHANGED <<state, bpd>>
        \/ /\ UNCHANGED state
           /\ \/ bpd = "Idle" /\ bpd' \in {"UpdateBeta", "StartAcquisition"}
              \/ bpd = "UpdateBeta" /\ bpd' = "StartAcquisition"
              \/ bpd = "StartAcquisition" /\ bpd' = "WaitSequenceReady"
              \/ bpd = "WaitSequenceReady" /\ bpd' = "FinalizeSequence"
              \/ bpd = "FinalizeSequence" /\ bpd' = "UpdateBPMap"
        \/ /\ bpd = "UpdateBPMap"
           /\ state' \in {"ApplyBadPixelMap", "ComputeDeltaBetaStats"}
    BY <1>12 DEF DetectBadPixels, BPD_Idle, BPD_UpdateBeta, BPD_StartAcquisition,
                 BPD_WaitSequenceReady, BPD_FinalizeSequence, BPD_UpdateBPMap, BPD_Fails, BpdTo,
                 AfterDetection
  <2> QED
    BY <1>0, <2>1, <2>2, BlocksKept, StepsTable, StepsOfMachines DEF StepsLeft
<1>13. CASE WriteActualizationFile /\ ~FWR_CloseFile
  <2>1. state = "WriteActualizationFile"
    BY <1>13 DEF WriteActualizationFile
  <2>2. error' \/
        /\ UNCHANGED <<state, run>>
        /\ \/ writer = "IDLE" /\ writer' = "DELETE_PREVIOUS"
           \/ writer = "DELETE_PREVIOUS" /\ writer' = "FILE_HEADER"
           \/ writer = "FILE_HEADER" /\ writer' = "DATA"
           \/ writer = "DATA" /\ writer' = "CLOSEFILE"
    BY <1>13 DEF WriteActualizationFile, FWR_Idle, FWR_InitIO, FWR_Write, FWR_Fails
  <2> QED
    BY <1>0, <2>1, <2>2, BlocksKept, StepsOfMachines DEF StepsLeft
<1>14. CASE WriteActualizationFile /\ FWR_CloseFile
  <2>1. /\ state = "WriteActualizationFile" /\ writer = "CLOSEFILE"
        /\ run' = [run EXCEPT !.blockIdx = @ + 1]
        /\ run.blockIdx >= run.actBlocks => state' = "Finalize"
    BY <1>14 DEF WriteActualizationFile, FWR_CloseFile
  <2>2. /\ run.blockIdx \in Nat /\ run.actBlocks \in Nat
        /\ run'.blockIdx = run.blockIdx + 1 /\ run'.actBlocks = run.actBlocks
    BY <1>0, <2>1 DEF Runs
  <2>3. CASE run.blockIdx >= run.actBlocks
    <3>1. BlocksLeft' = BlocksLeft
      BY <2>2, <2>3 DEF BlocksLeft
    <3> QED
      BY <2>1, <2>3, <3>1, StepsTable, StepsOfMachines DEF StepsLeft
  <2>4. CASE ~(run.blockIdx >= run.actBlocks)
    BY <2>2, <2>4 DEF BlocksLeft
  <2> QED
    BY <2>3, <2>4
<1>15. CASE Finalize
  BY <1>15 DEF Finalize, Reverts, Running
<1>16. CASE Waits
  BY <1>16 DEF Waits
<1> QED
  BY <1>1, <1>2, <1>3, <1>4, <1>5, <1>6, <1>7, <1>8, <1>9, <1>10, <1>11, <1>12, <1>13, <1>14,
     <1>15, <1>16 DEF Correction

(* However long the host, the power button or a fault disturbs it, a       *)
(* correction that has started goes through its states in one direction,   *)
(* and through each of its blocks once: no sequence of steps keeps it at   *)
(* work for ever without waiting (Actualization.c).                        *)
THEOREM CorrectionsAreFinite == Spec => CorrectionIsFinite
<1>1. Init => ErrorAtTail
  BY DEF Init, ErrorAtTail
<1>2. ErrorAtTail /\ [Next]_vars => ErrorAtTail'
  <2> SUFFICES ASSUME ErrorAtTail, [Next]_vars
               PROVE  ErrorAtTail'
    OBVIOUS
  <2>1. CASE CalibrationTurn \/ AcquisitionTurn
    BY <2>1 DEF ErrorAtTail, CalibrationTurn, calUnchanged, AcquisitionTurn, acqUnchanged, process
  <2>2. CASE Correction
    BY <2>2 DEF ErrorAtTail, Correction
  <2>3. CASE EndOfCall
    BY <2>3 DEF ErrorAtTail, EndOfCall, process
  <2>4. CASE Command
    BY <2>4 DEF ErrorAtTail, Command, Disturbance, DebugStop, HostMovesICU, PowerOff, HostCorrect,
                HostLoad, HostStart, HostStop, HostWrite, IcuArrives, PowerOn, process
  <2>5. CASE UNCHANGED vars
    BY <2>5 DEF ErrorAtTail, vars, process
  <2> QED
    BY <2>1, <2>2, <2>3, <2>4, <2>5 DEF Next
<1>3. TypeOK /\ ErrorAtTail /\ [Next]_vars =>
        [Running => Advances \/ UNCHANGED <<state, bpd, writer, run>>]_vars
  <2> SUFFICES ASSUME Values, ErrorAtTail, Next, Running
               PROVE  Advances \/ UNCHANGED <<state, bpd, writer, run>>
    BY DEF TypeOK
  <2>1. CASE CalibrationTurn
    BY <2>1 DEF CalibrationTurn, calUnchanged, process, detection, writing
  <2>2. CASE AcquisitionTurn
    <3>1. UNCHANGED <<state, writer, run>>
      BY <2>2 DEF AcquisitionTurn, acqUnchanged, process, writing
    <3>2. UNCHANGED bpd
      BY <2>2 DEF AcquisitionTurn, AcqOff, AcqStopped, AcqWaiting, AcqReady, AcqStarted, AcqIsOff,
                  acqOnly, detection
    <3> QED
      BY <3>1, <3>2
  <2>3. CASE Correction
    BY <2>3, CorrectionAdvances DEF ErrorAtTail, Correction
  <2>4. CASE EndOfCall
    BY <2>4 DEF EndOfCall, Reverts, Advances, Running, process, detection, writing
  <2>5. CASE Command
    BY <2>5 DEF Command, Disturbance, DebugStop, HostMovesICU, PowerOff, HostCorrect,
                HostLoad, HostStart, HostStop, HostWrite, IcuArrives, PowerOn, process, detection,
                writing
  <2> QED
    BY <2>1, <2>2, <2>3, <2>4, <2>5 DEF Next
<1> QED
  BY <1>1, <1>2, <1>3, TypeCorrect, PTL DEF Spec, CorrectionIsFinite

-----------------------------------------------------------------------------
(* The contract of the acquisition commands.  What a step may do to them.  *)
Obeyed == Commands!Next \/ UNCHANGED Commands!vars

CommandTypes ==
  /\ acq \in {"OFF", "STOPPED", "WAITING", "READY", "STARTED"}
  /\ start \in BOOLEAN /\ stop \in BOOLEAN /\ started \in BOOLEAN

PoweredOff == power = "Standby" => acq = "OFF"

(* A command is given, or nothing is seen.                                 *)
Given == UNCHANGED <<acq, started>> /\ (start => start') /\ (stop => stop')

LEMMA CorrectionGives ==
  ASSUME CommandTypes, Correction
  PROVE  Given /\ UNCHANGED power
<1> SUFFICES Given
  BY DEF Correction
<1> USE DEF CommandTypes, Given, acquisition, StartAcquisition, StopAcquisition
<1>1. CASE Idle \/ WaitForCalibData \/ TransitionICU \/ WaitICU \/ StabilizeICU \/ ConfigCamera
  BY <1>1 DEF Idle, WaitForCalibData, TransitionICU, WaitICU, StabilizeICU, ConfigCamera
<1>2. CASE Start
  BY <1>2 DEF Start
<1>3. CASE StartAECAcquisition \/ StartAEC \/ StopAECAcquisition \/ WaitAcquisitionReady
  BY <1>3 DEF StartAECAcquisition, StartAEC, StopAECAcquisition, WaitAcquisitionReady
<1>4. CASE StartSequence \/ WaitSequenceReady \/ FinalizeSequence
  BY <1>4 DEF StartSequence, WaitSequenceReady, FinalizeSequence
<1>5. CASE InitComputation \/ ComputeAveragedImage \/ ComputeBlackBodyFCal \/ ComputeDeltaBeta
           \/ ApplyBadPixelMap \/ ComputeDeltaBetaStats \/ QuantizeDeltaBeta
  BY <1>5 DEF InitComputation, ComputeAveragedImage, ComputeBlackBodyFCal, ComputeDeltaBeta,
              ApplyBadPixelMap, ComputeDeltaBetaStats, QuantizeDeltaBeta, computeUnchanged
<1>6. CASE WriteActualizationFile \/ Finalize \/ Waits
  BY <1>6 DEF WriteActualizationFile, writeUnchanged, Finalize, Waits
<1>7. CASE DetectBadPixels
  BY <1>7 DEF DetectBadPixels, BPD_Idle, BPD_UpdateBeta, BPD_StartAcquisition,
              BPD_WaitSequenceReady, BPD_FinalizeSequence, BPD_UpdateBPMap, BPD_Fails
<1> QED
  BY <1>1, <1>2, <1>3, <1>4, <1>5, <1>6, <1>7 DEF Correction

LEMMA CommandGives ==
  ASSUME CommandTypes, PoweredOff, Command
  PROVE  /\ PoweredOff'
         /\ Given \/ (acq = "OFF" /\ acq' = "STOPPED" /\ UNCHANGED <<start, stop, started>>)
<1> USE DEF CommandTypes, PoweredOff, Given, acquisition
<1>1. CASE DebugStop \/ HostMovesICU \/ PowerOff
  BY <1>1 DEF DebugStop, HostMovesICU, PowerOff
<1>2. CASE HostCorrect \/ HostLoad \/ HostStart \/ HostStop \/ HostWrite \/ IcuArrives
  BY <1>2 DEF HostCorrect, HostLoad, HostStart, HostStop, HostWrite, IcuArrives
<1>3. CASE PowerOn
  BY <1>3 DEF PowerOn
<1> QED
  BY <1>1, <1>2, <1>3 DEF Command, Disturbance

LEMMA AcquisitionServes ==
  ASSUME CommandTypes, CommandTypes', PoweredOff, AcquisitionTurn
  PROVE  PoweredOff' /\ Obeyed
<1> USE DEF CommandTypes, PoweredOff, Obeyed, AcqRun, Commands!Next, acqOnly
<1>1. CASE AcqOff
  BY <1>1 DEF AcqOff, Commands!Drop
<1>2. CASE AcqStopped
  <2>1. CASE start /\ start'
    BY <1>2, <2>1 DEF AcqStopped, Commands!Arm
  <2>2. CASE ~(start /\ start')
    BY <1>2, <2>2 DEF AcqStopped, Commands!Drop
  <2> QED
    BY <2>1, <2>2
<1>3. CASE AcqWaiting \/ AcqIsOff
  BY <1>3 DEF AcqWaiting, AcqIsOff, acquisition, Commands!vars
<1>4. CASE AcqReady
  BY <1>4 DEF AcqReady, Commands!Disarm, Commands!Refuse, Commands!Begin
<1>5. CASE AcqStarted
  BY <1>5 DEF AcqStarted, Commands!Halt, Commands!Report
<1> QED
  BY <1>1, <1>2, <1>3, <1>4, <1>5 DEF AcquisitionTurn

(* Whatever goes wrong, the commands the process shares with the host are  *)
(* handled as the contract of the acquisition machine says: neither takes  *)
(* back a command of the other (Actualization.c, Acquisition.c).           *)
THEOREM CommandsAreObeyed == Spec => ObeysCommands
<1>1. Init => Commands!Init /\ PoweredOff
  BY DEF Init, Commands!Init, AcqRun, PoweredOff
<1>2. TypeOK /\ TypeOK' /\ PoweredOff /\ [Next]_vars =>
        PoweredOff' /\ [Commands!Next]_(Commands!vars)
  <2> SUFFICES ASSUME CommandTypes, CommandTypes', PoweredOff, [Next]_vars
               PROVE  PoweredOff' /\ Obeyed
    BY DEF Obeyed, TypeOK, Values, Flags, CommandTypes
  <2>1. Given => Obeyed
    BY DEF Given, Obeyed, AcqRun, Commands!Next, Commands!Ask
  <2>2. CASE AcquisitionTurn
    BY <2>2, AcquisitionServes
  <2>3. CASE Correction
    BY <2>1, <2>3, CorrectionGives DEF PoweredOff, Given
  <2>4. CASE EndOfCall \/ CalibrationTurn \/ UNCHANGED vars
    <3>1. Given /\ UNCHANGED power
      BY <2>4 DEF Given, EndOfCall, StopAcquisition, CalibrationTurn, calUnchanged, vars,
                  acquisition, CommandTypes
    <3> QED
      BY <2>1, <3>1 DEF PoweredOff, Given
  <2>5. CASE Command
    <3>1. acq = "OFF" /\ acq' = "STOPPED" /\ UNCHANGED <<start, stop, started>> => Obeyed
      BY DEF Obeyed, AcqRun, Commands!vars
    <3> QED
      BY <2>1, <2>5, <3>1, CommandGives
  <2> QED
    BY <2>2, <2>3, <2>4, <2>5 DEF Next
<1> QED
  BY <1>1, <1>2, TypeCorrect, PTL DEF Spec, ObeysCommands, Commands!Spec
=============================================================================
