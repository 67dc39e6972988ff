------------------------- MODULE FlashDynamicValues -------------------------
(***************************************************************************)
(* The file of running counters (sw/FlashDynamicValues.c): every update    *)
(* rewrites it through a temporary file, removes the old file and renames  *)
(* the temporary one; a recovery at boot finishes an update that a power   *)
(* cut interrupted.  A power cut may fall between any two effects on the   *)
(* flash.  The file system is UFFS as these functions use it: a file that  *)
(* some descriptor is open on cannot be removed, a descriptor follows its  *)
(* file through a rename, and data is on the flash once the file is closed.*)
(***************************************************************************)
EXTENDS Naturals

CONSTANTS
  Absent, Torn,     \* the contents of a file that is missing, or incomplete
  Faults,           \* the operations on files that may fail
  SecondPartition,  \* the flash has two partitions (nr_partition = 2)
  MaxUpdates        \* bound on the counters

ASSUME FlashAssumption ==
  /\ Absent \notin Nat /\ Torn \notin Nat /\ Absent # Torn
  /\ Faults \subseteq {"create", "write", "close", "remove", "rename",
                       "openDir", "open", "parse", "closeRead"}
  /\ SecondPartition \in BOOLEAN
  /\ MaxUpdates \in Nat

VARIABLES
  fdv, tmp,              \* the contents of FDV_FILENAME and FDV_TMP_FILENAME
  fdvOnFirst, tmpOnFirst,\* they are on the partition mount_points[0]
  leaked,                \* the files a forgotten descriptor is open on
  cur,                   \* gFlashDynamicValues: a counter stands for them all
  pc,                    \* the effect on the flash that comes next
  acked,                 \* history: what the last successful update saved
  lapse                  \* history: a rename failed, or a boot went on without
                         \* having read the only complete file

flash == <<fdv, tmp, fdvOnFirst, tmpOnFirst>>
vars == <<flash, leaked, cur, pc, acked, lapse>>

BootSteps == {"recover", "recoverRename", "init"}
UpdateSteps == {"create", "write", "remove", "rename", "createFdv", "writeFdv"}

(* uffs_remove refuses a file that is open.                                *)
Removable(f) == f \notin leaked

(* FM_CreateAndOpenFile keeps a file where it is, and puts a new one on    *)
(* the first partition that has room.                                      *)
Placements(content, onFirst) ==
  IF content # Absent THEN {onFirst}
                      ELSE IF SecondPartition THEN BOOLEAN ELSE {TRUE}

-----------------------------------------------------------------------------
(* FlashDynamicValues_Recover.                                             *)

(* Mutant: the old file is kept and the temporary file removed.            *)
Bug_RecoverDropsTemporary ==
  /\ pc = "recover"
  /\ pc' = "init"
  /\ tmp' = Absent
  /\ UNCHANGED <<fdv, fdvOnFirst, tmpOnFirst, leaked, cur, acked, lapse>>

(* How FlashDynamicValues_ReadFlashDynamicValuesFile may fail on a file:    *)
(* one that is not complete never parses.                                  *)
ReadFailures(content) ==
  IF content = Torn THEN {"parse"} \cup (Faults \cap {"open"})
                    ELSE Faults \cap {"open", "parse", "closeRead"}

(* It returns without closing a file that does not parse; a close that     *)
(* fails releases the file all the same.                                   *)
StaysOpen(failure) == failure = "parse"

(* The boot goes on without a complete temporary file that is the only one.*)
Overlooked == tmp \in Nat /\ fdv \notin Nat

(* The temporary file is looked for on the first partition only.  One that *)
(* could not be read is removed, whatever the reason, unless the function  *)
(* that read it left it open.                                              *)
Recover ==
  /\ pc = "recover"
  /\ \/ /\ ~(tmp # Absent /\ tmpOnFirst) \/ "openDir" \in Faults
        /\ lapse' = (lapse \/ Overlooked)
        /\ pc' = "init"
        /\ UNCHANGED <<fdv, tmp, leaked>>
     \/ \E failure \in ReadFailures(tmp) :
           /\ tmp # Absent /\ tmpOnFirst
           /\ leaked' = IF StaysOpen(failure) THEN {"tmp"} ELSE {}
           /\ \/ ~StaysOpen(failure) /\ tmp' = Absent
              \/ (StaysOpen(failure) \/ "remove" \in Faults) /\ UNCHANGED tmp
           /\ lapse' = (lapse \/ Overlooked)
           /\ pc' = "init"
           /\ UNCHANGED fdv
     \/ /\ tmp \in Nat /\ tmpOnFirst
        /\ fdv' = Absent
        /\ pc' = "recoverRename"
        /\ UNCHANGED <<tmp, leaked, lapse>>
     \/ /\ tmp \in Nat /\ tmpOnFirst /\ fdv # Absent
        /\ "remove" \in Faults
        /\ pc' = "init"
        /\ UNCHANGED <<fdv, tmp, leaked, lapse>>
  /\ UNCHANGED <<fdvOnFirst, tmpOnFirst, cur, acked>>

RecoverRename ==
  /\ pc = "recoverRename"
  /\ \/ /\ fdv' = tmp
        /\ fdvOnFirst' = tmpOnFirst
        /\ tmp' = Absent
        /\ UNCHANGED lapse
     \/ /\ "rename" \in Faults
        /\ lapse' = TRUE
        /\ UNCHANGED <<fdv, fdvOnFirst, tmp>>
  /\ pc' = "init"
  /\ UNCHANGED <<tmpOnFirst, leaked, cur, acked>>

(* FlashDynamicValues_Init: without a file the values are the defaults;    *)
(* with one that cannot be read they stay zero, and the boot goes on.  A   *)
(* close that fails comes after the values are read.                       *)
LoadValues ==
  /\ pc = "init"
  /\ \/ /\ fdv # Torn
        /\ cur' = IF fdv = Absent THEN 0 ELSE fdv
        /\ UNCHANGED <<leaked, lapse>>
     \/ \E failure \in ReadFailures(fdv) \ {"closeRead"} :
           /\ fdv # Absent
           /\ cur' = 0
           /\ leaked' = IF StaysOpen(failure) THEN leaked \cup {"fdv"} ELSE leaked
           /\ lapse' = (lapse \/ fdv \in Nat)
  /\ pc' = "running"
  /\ UNCHANGED <<flash, acked>>

-----------------------------------------------------------------------------
(* FlashDynamicValues_Update, called with a counter incremented.           *)

(* Mutant: the old file is rewritten in place.                             *)
Bug_UpdateInPlace ==
  /\ pc = "running" /\ cur < MaxUpdates
  /\ cur' = cur + 1
  /\ pc' = "createFdv"
  /\ UNCHANGED <<flash, leaked, acked, lapse>>

Update ==
  /\ pc = "running" /\ cur < MaxUpdates
  /\ cur' = cur + 1
  /\ pc' = IF fdv # Absent THEN "create" ELSE "createFdv"
  /\ UNCHANGED <<flash, leaked, acked, lapse>>

Fail == pc' = "running" /\ UNCHANGED acked

(* Mutant: the order of the removal and of the write is swapped.           *)
Bug_RemoveBeforeWrite ==
  /\ pc = "create"
  /\ fdv' = Absent
  /\ tmp' = Torn
  /\ tmpOnFirst' \in Placements(tmp, tmpOnFirst)
  /\ pc' = "write"
  /\ UNCHANGED <<fdvOnFirst, leaked, cur, acked, lapse>>

CreateTemporary ==
  /\ pc = "create"
  /\ \/ /\ tmp' = Torn
        /\ tmpOnFirst' \in Placements(tmp, tmpOnFirst)
        /\ pc' = "write"
        /\ UNCHANGED acked
     \/ /\ "create" \in Faults
        /\ Fail
        /\ UNCHANGED <<tmp, tmpOnFirst>>
  /\ UNCHANGED <<fdv, fdvOnFirst, leaked, cur, lapse>>

(* Mutant: the result of the close is ignored.                             *)
Bug_CloseIgnored ==
  /\ pc = "write"
  /\ tmp' \in {cur} \cup IF "close" \in Faults THEN {Torn} ELSE {}
  /\ pc' = "remove"
  /\ UNCHANGED <<fdv, fdvOnFirst, tmpOnFirst, leaked, cur, acked, lapse>>

(* A failed write removes the temporary file, a failed close leaves it.    *)
WriteTemporary ==
  /\ pc = "write"
  /\ \/ /\ tmp' = cur
        /\ pc' = "remove"
        /\ UNCHANGED acked
     \/ /\ "write" \in Faults
        /\ \/ Removable("tmp") /\ tmp' = Absent
           \/ (~Removable("tmp") \/ "remove" \in Faults) /\ UNCHANGED tmp
        /\ Fail
     \/ /\ "close" \in Faults
        /\ tmp' \in {Torn, cur}
        /\ Fail
  /\ UNCHANGED <<fdv, fdvOnFirst, tmpOnFirst, leaked, cur, lapse>>

RemoveOld ==
  /\ pc = "remove"
  /\ \/ /\ Removable("fdv")
        /\ fdv' = Absent
        /\ pc' = "rename"
        /\ UNCHANGED acked
     \/ /\ ~Removable("fdv") \/ "remove" \in Faults
        /\ Fail
        /\ UNCHANGED fdv
  /\ UNCHANGED <<tmp, fdvOnFirst, tmpOnFirst, leaked, cur, lapse>>

(* The update fails after all when the file is not in the file list.       *)
RenameTemporary ==
  /\ pc = "rename"
  /\ \/ /\ fdv' = tmp
        /\ fdvOnFirst' = tmpOnFirst
        /\ tmp' = Absent
        /\ leaked' = IF "tmp" \in leaked THEN {"fdv"} ELSE {}
        /\ acked' \in {cur, acked}
        /\ pc' = "running"
        /\ UNCHANGED lapse
     \/ /\ "rename" \in Faults
        /\ lapse' = TRUE
        /\ Fail
        /\ UNCHANGED <<fdv, fdvOnFirst, tmp, leaked>>
  /\ UNCHANGED <<tmpOnFirst, cur>>

(* Without a file to preserve, the new one is written directly; the        *)
(* temporary file of an earlier update is not looked at.                   *)
CreateDirectly ==
  /\ pc = "createFdv"
  /\ \/ /\ fdv' = Torn
        /\ fdvOnFirst' \in Placements(fdv, fdvOnFirst)
        /\ pc' = "writeFdv"
        /\ UNCHANGED acked
     \/ /\ "create" \in Faults
        /\ Fail
        /\ UNCHANGED <<fdv, fdvOnFirst>>
  /\ UNCHANGED <<tmp, tmpOnFirst, leaked, cur, lapse>>

WriteDirectly ==
  /\ pc = "writeFdv"
  /\ \/ /\ fdv' = cur
        /\ acked' = cur
        /\ pc' = "running"
     \/ /\ "write" \in Faults
        /\ \/ fdv' = Absent
           \/ "remove" \in Faults /\ UNCHANGED fdv
        /\ Fail
     \/ /\ "close" \in Faults
        /\ fdv' \in {Torn, cur}
        /\ Fail
  /\ UNCHANGED <<tmp, fdvOnFirst, tmpOnFirst, leaked, cur, lapse>>

-----------------------------------------------------------------------------
(* The power is cut and comes back: descriptors and values are gone.       *)
PowerCut ==
  /\ leaked' = {}
  /\ cur' = 0
  /\ pc' = "recover"
  /\ UNCHANGED <<flash, acked, lapse>>

Init ==
  /\ fdv = Absent /\ tmp = Absent
  /\ fdvOnFirst = TRUE /\ tmpOnFirst = TRUE
  /\ leaked = {}
  /\ cur = 0
  /\ pc = "recover"
  /\ acked = 0
  /\ lapse = FALSE

Next ==
  \/ Recover \/ RecoverRename \/ LoadValues
  \/ Update \/ CreateTemporary \/ WriteTemporary \/ RemoveOld \/ RenameTemporary
  \/ CreateDirectly \/ WriteDirectly
  \/ PowerCut

Spec == Init /\ [][Next]_vars

-----------------------------------------------------------------------------
(* Every variable has its type.                                            *)
TypeOK ==
  /\ fdv \in Nat \cup {Absent, Torn} /\ tmp \in Nat \cup {Absent, Torn}
  /\ fdvOnFirst \in BOOLEAN /\ tmpOnFirst \in BOOLEAN
  /\ leaked \subseteq {"fdv", "tmp"}
  /\ cur \in Nat /\ acked \in Nat /\ lapse \in BOOLEAN
  /\ pc \in BootSteps \cup UpdateSteps \cup {"running"}

(* What a boot would load if the power were cut now.                       *)
Loaded ==
  IF tmp \in Nat /\ tmpOnFirst THEN tmp ELSE IF fdv \in Nat THEN fdv ELSE 0

(* The file that a boot would load is behind no saved value: in place, or  *)
(* already replaced by a temporary file that the next step renames.        *)
FileIsCurrent ==
  \/ fdv \in Nat /\ fdv >= acked
  \/ fdv \notin Nat /\ acked = 0
  \/ fdv = Absent /\ tmp \in Nat /\ pc \in {"rename", "recover", "recoverRename"}

(* A complete temporary file is behind no saved value, and each step finds *)
(* the files as the step before it left them.                              *)
StepsAreReady ==
  /\ tmp \in Nat => tmp >= acked
  /\ tmp \in Nat /\ fdv \in Nat => tmp >= fdv
  /\ fdv \in Nat /\ pc \notin BootSteps => cur >= fdv
  /\ pc \in {"create", "write", "remove"} => fdv # Absent
  /\ pc = "write" => tmp = Torn
  /\ pc \in {"remove", "rename"} => tmp = cur
  /\ pc = "recoverRename" => tmp \in Nat /\ fdv = Absent
  /\ pc \in {"createFdv", "writeFdv"} => tmp \notin Nat /\ fdv \notin Nat
  /\ tmp \in Nat /\ fdv = Absent => pc \in {"rename", "recover", "recoverRename"}

OnFirst == fdvOnFirst /\ tmpOnFirst

(* A power cut at any instant loses no counter value whose update was      *)
(* reported successful: the boot that follows finds that value or a newer  *)
(* one, whatever failed, as long as no rename did and each boot could read *)
(* the file when it was the only complete one.                             *)
NothingLost == ~lapse => Loaded >= acked

(* Nor do the counters go back while the camera is running.                *)
NeverBackwards == ~lapse /\ pc \notin BootSteps => cur >= acked

(* The inductive invariant behind NothingLost and NeverBackwards.          *)
Kept == FileIsCurrent /\ StepsAreReady /\ NeverBackwards
IInv == TypeOK /\ OnFirst /\ (~lapse => Kept)

(* The counters are the durable record that DurableRecord specifies; while *)
(* the camera boots its latest value is the one the boot will load.        *)
Record == INSTANCE DurableRecord
            WITH durable <- Loaded,
                 latest <- IF pc \in BootSteps THEN Loaded ELSE cur

(* Wherever the power is cut and whatever fails short of a lapse, what the *)
(* flash holds only moves between the last saved value and the latest one, *)
(* and an update reports success only once its value is what a boot would  *)
(* load.                                                                   *)
KeepsRecord == Record!Spec
=============================================================================
