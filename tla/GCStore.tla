------------------------------ MODULE GCStore ------------------------------
(***************************************************************************)
(* The saved configuration (sw/GC_Store.c): GC_Store_SM, called once per   *)
(* main-loop iteration, copies the registers to a buffer, erases a sector  *)
(* of the configuration flash and writes the buffer to it; the boot loads  *)
(* what it finds there.  A register that says whether to load it at the    *)
(* next boot is part of what is saved, and writing it requests a save.     *)
(* The QSPI flash driver is external: an operation is started, polled and  *)
(* either succeeds or fails, and leaves the sector unreadable meanwhile.   *)
(***************************************************************************)
EXTENDS Naturals

CONSTANTS
  Unreadable,   \* a sector without a valid signature and CRCs
  FlashFails,   \* an erase or a write of the flash may fail
  MaxWrites     \* bound on the register writes of the host

Registers == [load : BOOLEAN, value : 0..MaxWrites]
Factory == [load |-> FALSE, value |-> 0]

ASSUME StoreAssumption ==
  /\ Unreadable \notin Registers
  /\ FlashFails \in BOOLEAN
  /\ MaxWrites \in Nat

VARIABLES
  regs,         \* the registers: the load flag, and a version for the others
  flash,        \* the sector of the configuration flash
  flashData,    \* GC_Store_SM's buffer
  state,        \* GC_Store_SM's state
  cmdSave,      \* cmd_save
  requested,    \* history: the registers at the last request since the boot
  late, failed  \* history: it came after the copy; a flash operation failed

request == <<cmdSave, requested, late>>
vars == <<regs, flash, flashData, state, request, failed>>

States ==
  {"gcStoreIdle", "doSave", "eraseBeforeWrite", "writeInProgress", "finishWrite"}

-----------------------------------------------------------------------------
(* GC_Store_Save, called by the callbacks of the two registers.            *)
GC_Store_Save ==
  /\ cmdSave' = TRUE
  /\ requested' = regs'
  /\ late' = (state \notin {"gcStoreIdle", "doSave"})

(* The host writes any other register.                                     *)
HostWrite ==
  /\ regs.value < MaxWrites
  /\ regs' = [regs EXCEPT !.value = @ + 1]
  /\ UNCHANGED <<flash, flashData, state, request, failed>>

HostSaveConfiguration ==
  /\ UNCHANGED regs
  /\ GC_Store_Save
  /\ UNCHANGED <<flash, flashData, state, failed>>

(* Written by the host, and cleared by the flash settings of a camera that *)
(* does not implement the feature.                                         *)
LoadSavedConfigurationAtStartup ==
  /\ \E b \in BOOLEAN : regs' = [regs EXCEPT !.load = b]
  /\ GC_Store_Save
  /\ UNCHANGED <<flash, flashData, state, failed>>

-----------------------------------------------------------------------------
(* GC_Store_SM, one action per state.                                      *)

(* Mutant: the command is taken when it is seen, and the buffer kept.      *)
Bug_IdleKeepsBuffer ==
  /\ state = "gcStoreIdle" /\ cmdSave
  /\ state' = "eraseBeforeWrite"
  /\ failed' = FALSE
  /\ UNCHANGED <<regs, flash, flashData, request>>

Idle ==
  /\ state = "gcStoreIdle" /\ cmdSave
  /\ state' = "doSave"
  /\ failed' = FALSE
  /\ UNCHANGED <<regs, flash, flashData, request>>

DoSave ==
  /\ state = "doSave"
  /\ flashData' = regs
  /\ state' = "eraseBeforeWrite"
  /\ UNCHANGED <<regs, flash, request, failed>>

EraseBeforeWrite ==
  /\ state = "eraseBeforeWrite"
  /\ \/ /\ flash' = Unreadable
        /\ state' = "writeInProgress"
        /\ UNCHANGED failed
     \/ /\ FlashFails
        /\ flash' \in {flash, Unreadable}
        /\ state' = "finishWrite"
        /\ failed' = TRUE
  /\ UNCHANGED <<regs, flashData, request>>

(* IRC_NOT_DONE: the operation goes on at the next call.                   *)
FlashBusy ==
  /\ state \in {"eraseBeforeWrite", "writeInProgress"}
  /\ flash' = Unreadable
  /\ UNCHANGED <<regs, flashData, state, request, failed>>

WriteInProgress ==
  /\ state = "writeInProgress"
  /\ \/ /\ flash' = flashData
        /\ UNCHANGED failed
     \/ /\ FlashFails
        /\ flash' = Unreadable
        /\ failed' = TRUE
  /\ state' = "finishWrite"
  /\ UNCHANGED <<regs, flashData, request>>

(* Mutant: the command is not cleared.                                     *)
Bug_FinishWriteKeepsCommand ==
  /\ state = "finishWrite"
  /\ state' = "gcStoreIdle"
  /\ UNCHANGED <<regs, flash, flashData, request, failed>>

FinishWrite ==
  /\ state = "finishWrite"
  /\ state' = "gcStoreIdle"
  /\ cmdSave' = FALSE
  /\ UNCHANGED <<regs, flash, flashData, requested, late, failed>>

-----------------------------------------------------------------------------
(* Proc_GC_Init: a saved configuration is loaded when it says so itself.   *)
Booted(sector) ==
  IF sector # Unreadable /\ sector.load THEN sector ELSE Factory

PowerCut ==
  /\ regs' = Booted(flash)
  /\ flashData' = Factory
  /\ state' = "gcStoreIdle"
  /\ cmdSave' = FALSE
  /\ requested' = Factory /\ late' = FALSE /\ failed' = FALSE
  /\ UNCHANGED flash

Init ==
  /\ flash \in Registers \cup {Unreadable}
  /\ regs = Booted(flash)
  /\ flashData = Factory
  /\ state = "gcStoreIdle"
  /\ cmdSave = FALSE
  /\ requested = Factory /\ late = FALSE /\ failed = FALSE

GC_Store_SM ==
  Idle \/ DoSave \/ EraseBeforeWrite \/ FlashBusy \/ WriteInProgress \/ FinishWrite

Host == HostWrite \/ HostSaveConfiguration \/ LoadSavedConfigurationAtStartup

Next == GC_Store_SM \/ Host \/ PowerCut

Spec == Init /\ [][Next]_vars

(* The main loop calls the machine for ever, and a flash operation ends.   *)
Fairness ==
  /\ WF_vars(GC_Store_SM)
  /\ SF_vars(EraseBeforeWrite) /\ SF_vars(WriteInProgress)

FairSpec == Spec /\ Fairness

-----------------------------------------------------------------------------
(* Every variable has its type.                                            *)
TypeOK ==
  /\ regs \in Registers /\ flashData \in Registers /\ requested \in Registers
  /\ flash \in Registers \cup {Unreadable}
  /\ state \in States
  /\ cmdSave \in BOOLEAN /\ late \in BOOLEAN /\ failed \in BOOLEAN

Settled == state = "gcStoreIdle" /\ ~cmdSave /\ ~failed

(* Once the store is idle again, the flash holds registers at least as new *)
(* as the last request, unless that request came after the registers had   *)
(* been copied for a save already under way: that one is forgotten.        *)
SavedUnlessLate ==
  Settled /\ ~late /\ requested.value > 0 =>
    flash # Unreadable /\ flash.value >= requested.value

(* What each step of a save relies on: the copy is no older than the       *)
(* request, and what a successful write left is no older than the copy.    *)
SaveInOrder ==
  /\ requested.value <= regs.value
  /\ state # "gcStoreIdle" => cmdSave
  /\ state \in {"eraseBeforeWrite", "writeInProgress"} /\ ~late =>
       flashData.value >= requested.value
  /\ state = "finishWrite" /\ ~late /\ ~failed =>
       flash # Unreadable /\ flash.value >= requested.value

(* The inductive invariant behind SavedUnlessLate.                         *)
IInv == TypeOK /\ SaveInOrder /\ SavedUnlessLate

(* A save that was requested ends, whatever the flash answers.             *)
SaveEnds == cmdSave ~> ~cmdSave
=============================================================================
