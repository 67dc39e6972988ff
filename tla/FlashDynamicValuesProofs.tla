---------------------- MODULE FlashDynamicValuesProofs ----------------------
(***************************************************************************)
(* For every set of failing file operations, on a flash of one partition:  *)
(* no power cut loses a counter value whose update reported success, as    *)
(* long as no rename failed and every boot could read the file when it was *)
(* the only complete one (FlashDynamicValues.c).                           *)
(***************************************************************************)
EXTENDS FlashDynamicValues, TLAPS

(* The camera these theorems are about.                                    *)
OnePartition == SecondPartition = FALSE

(* The first boot of an empty flash satisfies the invariant.               *)
LEMMA InitIInv ==
  ASSUME Init
  PROVE  IInv
BY FlashAssumption
   DEF Init, IInv, Kept, TypeOK, OnFirst, FileIsCurrent, StepsAreReady,
       NeverBackwards, BootSteps, UpdateSteps

(* Every step leaves every variable in its type, and the files where they  *)
(* are: on the only partition.                                             *)
LEMMA TypesArePreserved ==
  ASSUME OnePartition, TypeOK, OnFirst, Next
  PROVE  TypeOK' /\ OnFirst'
<1> USE FlashAssumption
    DEF OnePartition, TypeOK, OnFirst, BootSteps, UpdateSteps, flash, Fail, Placements
<1>1. CASE Recover
  BY <1>1 DEF Recover, StaysOpen
<1>2. CASE RecoverRename
  BY <1>2 DEF RecoverRename
<1>3. CASE LoadValues
  <2>1. UNCHANGED <<flash, acked>> /\ pc' = "running"
    BY <1>3 DEF LoadValues
  <2>2. cur' \in Nat
    BY <1>3 DEF LoadValues
  <2>3. leaked' \subseteq {"fdv", "tmp"}
    <3>1. leaked' \in {leaked, leaked \cup {"fdv"}}
      BY <1>3 DEF LoadValues
    <3> QED
      BY <3>1
  <2>4. lapse' \in BOOLEAN
    BY <1>3 DEF LoadValues
  <2> QED
    BY <2>1, <2>2, <2>3, <2>4
<1>4. CASE Update
  BY <1>4 DEF Update
<1>5. CASE CreateTemporary
  BY <1>5 DEF CreateTemporary
<1>6. CASE WriteTemporary
  BY <1>6 DEF WriteTemporary
<1>7. CASE RemoveOld
  BY <1>7 DEF RemoveOld
<1>8. CASE RenameTemporary
  BY <1>8 DEF RenameTemporary
<1>9. CASE CreateDirectly
  BY <1>9 DEF CreateDirectly
<1>10. CASE WriteDirectly
  BY <1>10 DEF WriteDirectly
<1>11. CASE PowerCut
  BY <1>11 DEF PowerCut
<1> QED
  BY <1>1, <1>2, <1>3, <1>4, <1>5, <1>6, <1>7, <1>8, <1>9, <1>10, <1>11 DEF Next

(* A lapse is never forgotten.                                             *)
LEMMA LapseLasts ==
  ASSUME TypeOK, Next, lapse
  PROVE  lapse'
BY DEF TypeOK, Next, Recover, RecoverRename, LoadValues, Update, CreateTemporary,
       WriteTemporary, RemoveOld, RenameTemporary, CreateDirectly,
       WriteDirectly, PowerCut

(* The steps of the boot keep the counters: the recovery removes the old   *)
(* file only for a complete temporary one, which the next step renames, and*)
(* a temporary one it could not read only beside a complete old one.       *)
LEMMA BootKeeps ==
  ASSUME OnePartition, TypeOK, OnFirst, Kept, ~lapse',
         Recover \/ RecoverRename \/ LoadValues
  PROVE  Kept'
<1> USE FlashAssumption
    DEF OnePartition, TypeOK, OnFirst, Kept, FileIsCurrent, StepsAreReady,
        NeverBackwards, BootSteps, UpdateSteps, flash
<1>1. CASE Recover
  BY <1>1 DEF Recover, Overlooked, ReadFailures, StaysOpen
<1>2. CASE RecoverRename
  BY <1>2 DEF RecoverRename
<1>3. CASE LoadValues
  <2>1. UNCHANGED <<flash, acked>> /\ pc = "init" /\ pc' = "running"
    BY <1>3 DEF LoadValues
  <2>2. cur' = IF fdv \in Nat THEN fdv ELSE 0
    BY <1>3 DEF LoadValues
  <2> QED
    BY <2>1, <2>2
<1> QED
  BY <1>1, <1>2, <1>3

(* The steps of an update through a temporary file keep them: the old     *)
(* file is removed only once the temporary one is complete.                *)
LEMMA UpdateKeeps ==
  ASSUME OnePartition, TypeOK, OnFirst, Kept, ~lapse, ~lapse',
         Update \/ CreateTemporary \/ WriteTemporary \/ RemoveOld \/ RenameTemporary
  PROVE  Kept'
<1> USE FlashAssumption
    DEF OnePartition, TypeOK, OnFirst, Kept, FileIsCurrent, StepsAreReady,
        NeverBackwards, BootSteps, UpdateSteps, flash, Fail
<1>1. CASE Update
  BY <1>1 DEF Update
<1>2. CASE CreateTemporary
  BY <1>2 DEF CreateTemporary, Placements
<1>3. CASE WriteTemporary
  <2>1. tmp' \in {Absent, Torn, cur}
    BY <1>3 DEF WriteTemporary
  <2>2. UNCHANGED <<fdv, fdvOnFirst, tmpOnFirst, leaked, cur, acked, lapse>>
    BY <1>3 DEF WriteTemporary
  <2>3. pc' = "running" \/ (pc' = "remove" /\ tmp' = cur)
    BY <1>3 DEF WriteTemporary
  <2>4. pc = "write"
    BY <1>3 DEF WriteTemporary
  <2>5. NeverBackwards'
    BY <2>1, <2>2, <2>3, <2>4
  <2>6. FileIsCurrent' /\ StepsAreReady'
    BY <2>1, <2>2, <2>3, <2>4
  <2> QED
    BY <2>5, <2>6
<1>4. CASE RemoveOld
  BY <1>4 DEF RemoveOld
<1>5. CASE RenameTemporary
  <2>1. fdv' = cur /\ tmp' = Absent /\ pc' = "running" /\ pc = "rename"
    BY <1>5 DEF RenameTemporary
  <2>2. UNCHANGED <<tmpOnFirst, cur>> /\ fdvOnFirst' = tmpOnFirst
    BY <1>5 DEF RenameTemporary
  <2>3. leaked' \subseteq {"fdv", "tmp"} /\ acked' \in {cur, acked}
    BY <1>5 DEF RenameTemporary
  <2>4. NeverBackwards'
    BY <2>1, <2>2, <2>3
  <2>5. FileIsCurrent' /\ StepsAreReady'
    BY <2>1, <2>2, <2>3
  <2> QED
    BY <2>4, <2>5
<1> QED
  BY <1>1, <1>2, <1>3, <1>4, <1>5

(* So do the steps of the first update, which has nothing to lose.         *)
LEMMA DirectUpdateKeeps ==
  ASSUME OnePartition, TypeOK, OnFirst, Kept, ~lapse, ~lapse',
         CreateDirectly \/ WriteDirectly
  PROVE  Kept'
<1> USE FlashAssumption
    DEF OnePartition, TypeOK, OnFirst, Kept, FileIsCurrent, StepsAreReady,
        NeverBackwards, BootSteps, UpdateSteps, Fail
<1>1. CASE CreateDirectly
  BY <1>1 DEF CreateDirectly, Placements
<1>2. CASE WriteDirectly
  BY <1>2 DEF WriteDirectly
<1> QED
  BY <1>1, <1>2

(* And a power cut, wherever it falls.                                     *)
LEMMA PowerCutKeeps ==
  ASSUME TypeOK, Kept, PowerCut
  PROVE  Kept'
BY FlashAssumption
   DEF Kept, TypeOK, FileIsCurrent, StepsAreReady, NeverBackwards,
       BootSteps, UpdateSteps, PowerCut, flash

(* The inductive invariant holds in every reachable state.                 *)
THEOREM Invariance ==
  ASSUME OnePartition
  PROVE  Spec => []IInv
<1>1. Init => IInv
  BY InitIInv
<1>2. IInv /\ [Next]_vars => IInv'
  <2> SUFFICES ASSUME IInv, [Next]_vars
               PROVE  IInv'
    OBVIOUS
  <2>1. CASE Next
    <3>1. TypeOK' /\ OnFirst'
      BY <2>1, TypesArePreserved DEF IInv
    <3>2. ASSUME ~lapse'
          PROVE  Kept'
      <4>1. ~lapse /\ Kept
        BY <2>1, <3>2, LapseLasts DEF IInv
      <4> QED
        BY <2>1, <3>2, <4>1, BootKeeps, UpdateKeeps, DirectUpdateKeeps,
           PowerCutKeeps DEF Next, IInv
    <3> QED
      BY <3>1, <3>2 DEF IInv
  <2>2. CASE UNCHANGED vars
    BY <2>2 DEF IInv, Kept, TypeOK, OnFirst, FileIsCurrent, StepsAreReady,
                NeverBackwards, vars, flash
  <2> QED
    BY <2>1, <2>2
<1> QED
  BY <1>1, <1>2, PTL DEF Spec

(* The invariant bounds what a boot would load.                            *)
LEMMA LoadedIsCurrent ==
  ASSUME IInv
  PROVE  NothingLost
BY FlashAssumption
   DEF IInv, Kept, TypeOK, OnFirst, FileIsCurrent, StepsAreReady, NothingLost, Loaded

(* A power cut at any instant loses no counter value whose update was      *)
(* reported successful.                                                    *)
THEOREM NoSavedValueIsLost ==
  ASSUME OnePartition
  PROVE  Spec => []NothingLost
<1>1. IInv => NothingLost
  BY LoadedIsCurrent
<1> QED
  BY <1>1, Invariance, PTL

(* The counters never go back while the camera is running.                 *)
THEOREM CountersNeverGoBack ==
  ASSUME OnePartition
  PROVE  Spec => []NeverBackwards
<1>1. IInv => NeverBackwards
  BY DEF IInv, Kept, NeverBackwards
<1> QED
  BY <1>1, Invariance, PTL

-----------------------------------------------------------------------------
(* The refinement of DurableRecord: what one step does to the record.      *)
Latest == IF pc \in BootSteps THEN Loaded ELSE cur

(* The recovery moves the record from one file to the other unchanged, and *)
(* the load takes a value that is behind no saved one.                     *)
LEMMA BootRefines ==
  ASSUME OnePartition, TypeOK, OnFirst, Kept, ~lapse, ~lapse', UNCHANGED lapse,
         Recover \/ RecoverRename \/ LoadValues
  PROVE  \/ Record!Load \/ Record!PowerCut
         \/ UNCHANGED <<Loaded, Latest, acked, lapse>>
<1> USE FlashAssumption
    DEF OnePartition, Kept, TypeOK, OnFirst, FileIsCurrent, StepsAreReady,
        Loaded, Latest, BootSteps, UpdateSteps, flash
<1>1. CASE Recover
  <2>1. UNCHANGED <<acked, tmpOnFirst>> /\ pc = "recover" /\ pc' \in BootSteps
    BY <1>1 DEF Recover
  <2>2. CASE UNCHANGED <<fdv, tmp>>
    BY <2>1, <2>2
  <2>3. CASE fdv' = fdv /\ tmp' = Absent /\ ~Overlooked
    <3>1. Loaded' \in acked..Loaded
      BY <2>1, <2>3 DEF Overlooked
    <3>2. Latest' = Loaded'
      BY <2>1
    <3> QED
      BY <2>1, <3>1, <3>2 DEF Record!PowerCut
  <2>4. CASE tmp \in Nat /\ tmp' = tmp /\ fdv' = Absent
    BY <2>1, <2>4
  <2> QED
    BY <1>1, <2>2, <2>3, <2>4 DEF Recover
<1>2. CASE RecoverRename
  BY <1>2 DEF RecoverRename
<1>3. CASE LoadValues
  <2>1. UNCHANGED <<flash, acked>> /\ pc = "init" /\ pc' = "running"
    BY <1>3 DEF LoadValues
  <2>2. cur' = IF fdv \in Nat THEN fdv ELSE 0
    BY <1>3 DEF LoadValues
  <2>3. cur' \in acked..Loaded
    BY <2>1, <2>2
  <2>4. UNCHANGED <<Loaded, acked, lapse>>
    BY <2>1
  <2>5. Latest' = cur' /\ Latest = Loaded
    BY <2>1
  <2> QED
    BY <2>3, <2>4, <2>5 DEF Record!Load
<1> QED
  BY <1>1, <1>2, <1>3

(* An update through the temporary file settles the record between the     *)
(* last saved value and the latest one, and acknowledges what it saved.    *)
LEMMA UpdateRefines ==
  ASSUME OnePartition, TypeOK, OnFirst, Kept, ~lapse, ~lapse', UNCHANGED lapse,
         Update \/ CreateTemporary \/ WriteTemporary \/ RemoveOld \/ RenameTemporary
  PROVE  \/ Record!Count \/ Record!Settle \/ Record!Acknowledge
         \/ UNCHANGED <<Loaded, Latest, acked, lapse>>
<1> USE FlashAssumption
    DEF OnePartition, Kept, TypeOK, OnFirst, FileIsCurrent, StepsAreReady,
        NeverBackwards, Loaded, Latest, BootSteps, UpdateSteps, flash, Fail
<1>1. CASE Update
  BY <1>1 DEF Update, Record!Count
<1>2. CASE CreateTemporary
  <2>1. CASE tmp' = Torn /\ tmpOnFirst' = TRUE
    <3>1. UNCHANGED <<fdv, cur, acked, lapse>> /\ pc = "create" /\ pc' \notin BootSteps
      BY <1>2 DEF CreateTemporary
    <3>2. Loaded' \in acked..cur
      BY <2>1, <3>1
    <3>3. Latest' = Latest
      BY <3>1
    <3> QED
      BY <3>1, <3>2, <3>3 DEF Record!Settle
  <2>2. CASE UNCHANGED <<tmp, tmpOnFirst>>
    BY <1>2, <2>2 DEF CreateTemporary
  <2> QED
    BY <1>2, <2>1, <2>2 DEF CreateTemporary, Placements
<1>3. CASE WriteTemporary
  BY <1>3 DEF WriteTemporary, Record!Settle
<1>4. CASE RemoveOld
  BY <1>4 DEF RemoveOld
<1>5. CASE RenameTemporary
  BY <1>5 DEF RenameTemporary, Record!Acknowledge
<1> QED
  BY <1>1, <1>2, <1>3, <1>4, <1>5

(* The first update does the same without one.                             *)
LEMMA DirectUpdateRefines ==
  ASSUME OnePartition, TypeOK, OnFirst, Kept, ~lapse, ~lapse', UNCHANGED lapse,
         CreateDirectly \/ WriteDirectly
  PROVE  \/ Record!Settle \/ Record!Acknowledge
         \/ UNCHANGED <<Loaded, Latest, acked, lapse>>
<1> USE FlashAssumption
    DEF OnePartition, Kept, TypeOK, OnFirst, FileIsCurrent, StepsAreReady,
        NeverBackwards, Loaded, Latest, BootSteps, UpdateSteps, Fail
<1>1. CASE CreateDirectly
  BY <1>1 DEF CreateDirectly, Placements
<1>2. CASE WriteDirectly
  <2>1. tmp \notin Nat /\ fdv \notin Nat /\ acked = 0 /\ cur \in Nat
    BY <1>2 DEF WriteDirectly
  <2>2. Latest = cur /\ Latest' = cur /\ tmp' = tmp
    BY <1>2 DEF WriteDirectly
  <2>3. CASE fdv' = cur
    <3>1. Loaded' = cur /\ acked' \in {cur, acked}
      BY <1>2, <2>1, <2>2, <2>3 DEF WriteDirectly
    <3> QED
      BY <2>1, <2>2, <3>1 DEF Record!Settle, Record!Acknowledge
  <2>4. CASE fdv' \notin Nat
    <3>1. Loaded' = Loaded /\ acked' = acked
      BY <1>2, <2>1, <2>2, <2>4 DEF WriteDirectly
    <3> QED
      BY <2>2, <3>1
  <2> QED
    BY <1>2, <2>1, <2>3, <2>4 DEF WriteDirectly
<1> QED
  BY <1>1, <1>2

(* The flash dynamic values implement the durable record.                  *)
THEOREM ImplementsDurableRecord ==
  ASSUME OnePartition
  PROVE  Spec => KeepsRecord
<1>1. Init => Record!Init
  BY FlashAssumption DEF Init, Record!Init, Loaded, BootSteps
<1>2. IInv /\ [Next]_vars => [Record!Next]_(Record!vars)
  <2> SUFFICES ASSUME IInv, [Next]_vars
               PROVE  Record!Next \/ UNCHANGED <<Loaded, Latest, acked, lapse>>
    BY DEF Record!vars, Latest
  <2>1. CASE lapse'
    BY <2>1 DEF Record!Next, Record!Lapse
  <2>2. CASE PowerCut /\ ~lapse'
    <3>1. UNCHANGED <<Loaded, acked, lapse>> /\ Latest' = Loaded'
      BY <2>2 DEF PowerCut, flash, Loaded, Latest, BootSteps
    <3>2. acked \in Nat /\ Loaded \in Nat /\ Loaded >= acked
      BY <2>2, <3>1, LoadedIsCurrent
         DEF IInv, TypeOK, NothingLost, Loaded
    <3>3. Record!PowerCut
      BY <3>1, <3>2 DEF Record!PowerCut, Latest
    <3> QED
      BY <3>3 DEF Record!Next
  <2>3. CASE Next /\ ~PowerCut /\ ~lapse'
    <3>1. ~lapse /\ Kept
      BY <2>3, LapseLasts DEF IInv
    <3>2. lapse \in BOOLEAN /\ lapse' \in BOOLEAN
      BY <2>3, TypesArePreserved DEF IInv, TypeOK
    <3>3. UNCHANGED lapse
      BY <2>3, <3>1, <3>2
    <3> QED
      BY <2>3, <3>1, <3>3, BootRefines, UpdateRefines, DirectUpdateRefines
         DEF Next, IInv, Record!Next
  <2>4. CASE UNCHANGED vars
    BY <2>4 DEF vars, flash, Loaded, Latest
  <2> QED
    BY <2>1, <2>2, <2>3, <2>4
<1> QED
  BY <1>1, <1>2, Invariance, PTL DEF Spec, KeepsRecord, Record!Spec
=============================================================================
