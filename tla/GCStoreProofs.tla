--------------------------- MODULE GCStoreProofs ---------------------------
(***************************************************************************)
(* Whatever the flash answers and whenever the host writes, a save that is *)
(* requested before the registers are copied reaches the flash, unless an  *)
(* operation on the flash fails (GC_Store.c).                              *)
(**************************************************************************)
EXTENDS GCStore, TLAPS

(* The boot, the first one and any later one, satisfies the invariant.     *)
LEMMA BootHolds ==
  ASSUME flash \in Registers \cup {Unreadable}
  PROVE  Booted(flash) \in Registers /\ Factory \in Registers
BY StoreAssumption DEF Booted, Registers, Factory

(* A request of the host preserves the invariant: it finds the store idle, *)
(* or before the copy, or it is late.                                      *)
LEMMA HostPreserves ==
  ASSUME IInv, Host
  PROVE  IInv'
<1> USE StoreAssumption
    DEF IInv, TypeOK, SaveInOrder, SavedUnlessLate, Settled, Registers, States
<1>1. CASE HostWrite
  BY <1>1 DEF HostWrite, request
<1>2. CASE HostSaveConfiguration
  BY <1>2 DEF HostSaveConfiguration, GC_Store_Save
<1>3. CASE LoadSavedConfigurationAtStartup
  <2>1. PICK b \in BOOLEAN : regs' = [regs EXCEPT !.load = b]
    BY <1>3 DEF LoadSavedConfigurationAtStartup
  <2>2. regs' \in Registers /\ regs'.value = regs.value
    BY <2>1
  <2> QED
    BY <1>3, <2>2 DEF LoadSavedConfigurationAtStartup, GC_Store_Save
<1> QED
  BY <1>1, <1>2, <1>3 DEF Host

(* Each state of the machine preserves it.                                 *)
LEMMA StorePreserves ==
  ASSUME IInv, GC_Store_SM
  PROVE  IInv'
<1> USE StoreAssumption
    DEF IInv, TypeOK, SaveInOrder, SavedUnlessLate, Settled, States, request
<1>1. CASE Idle
  BY <1>1 DEF Idle
<1>2. CASE DoSave
  BY <1>2 DEF DoSave, Registers
<1>3. CASE EraseBeforeWrite
  BY <1>3 DEF EraseBeforeWrite
<1>4. CASE FlashBusy
  BY <1>4 DEF FlashBusy
<1>5. CASE WriteInProgress
  BY <1>5 DEF WriteInProgress
<1>6. CASE FinishWrite
  BY <1>6 DEF FinishWrite
<1> QED
  BY <1>1, <1>2, <1>3, <1>4, <1>5, <1>6 DEF GC_Store_SM

(* And so does a power cut.                                                *)
LEMMA PowerCutPreserves ==
  ASSUME IInv, PowerCut
  PROVE  IInv'
<1>1. TypeOK'
  BY BootHolds DEF IInv, TypeOK, PowerCut, States
<1>2. requested'.value = 0 /\ state' = "gcStoreIdle"
  BY DEF PowerCut, Factory
<1>3. SaveInOrder' /\ SavedUnlessLate'
  BY <1>1, <1>2, StoreAssumption DEF TypeOK, SaveInOrder, SavedUnlessLate, Registers
<1> QED
  BY <1>1, <1>3 DEF IInv

(* The inductive invariant holds in every reachable state.                 *)
THEOREM Invariance == Spec => []IInv
<1>1. Init => IInv
  <2> SUFFICES ASSUME Init
               PROVE  IInv
    OBVIOUS
  <2>1. TypeOK
    BY BootHolds DEF Init, TypeOK, States
  <2>2. requested.value = 0 /\ state = "gcStoreIdle"
    BY DEF Init, Factory
  <2>3. SaveInOrder /\ SavedUnlessLate
    BY <2>1, <2>2, StoreAssumption DEF TypeOK, SaveInOrder, SavedUnlessLate, Registers
  <2> QED
    BY <2>1, <2>3 DEF IInv
<1>2. IInv /\ [Next]_vars => IInv'
  <2> SUFFICES ASSUME IInv, [Next]_vars
               PROVE  IInv'
    OBVIOUS
  <2>1. CASE Next
    BY <2>1, HostPreserves, StorePreserves, PowerCutPreserves DEF Next
  <2>2. CASE UNCHANGED vars
    BY <2>2 DEF IInv, TypeOK, SaveInOrder, SavedUnlessLate, Settled, vars, request
  <2> QED
    BY <2>1, <2>2
<1> QED
  BY <1>1, <1>2, PTL DEF Spec

(* A save requested before the registers are copied reaches the flash.     *)
THEOREM SavesReachTheFlash == Spec => []SavedUnlessLate
<1>1. IInv => SavedUnlessLate
  BY DEF IInv
<1> QED
  BY <1>1, Invariance, PTL
=============================================================================
