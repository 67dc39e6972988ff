# TLA+ models of the camera processor firmware

The repository is the firmware of the main processor of an infrared camera: one
bare-metal C program for a soft-core processor (`src/sw` and the drivers beside
it), compiled in some twenty variants, one per detector, together with the FPGA
design it runs in. This directory holds models of the parts of the program whose
correctness depends on the order in which things happen, the TLC configurations
that check them on small instances, and proofs, checked by TLAPS, of what must
hold for every instance.

## 1. Inventory

The program is one loop (`sw/proc_ctrl.c:208-287`) that calls every state machine
in turn, for ever: GenICam register manager and poller, configuration store, file
manager, calibration manager, flash settings loader, ADC and temperature monitors,
acquisition, buffer manager, debug terminal, power manager, exposure control, image
correction, filter wheel, ND filter, motors, GPS, lenses, autofocus. A call never
blocks: it looks at what has happened, moves by at most a state, and returns. A
state machine therefore keeps its state in static variables between calls, and
shares three things with the others: the registers (`gcRegsData`), the bits of
`TDCStatus` (what an acquisition has to wait for), and command flags that one
machine sets and another consumes. Interrupts set flags; the power button and the
histogram are the two that share more than one variable with the loop.

| component | state it keeps | what it does | what is hard, and what makes it correct |
|---|---|---|---|
| Acquisition (`sw/Acquisition.c`) | 16 states, two power flags, arm/start/stop commands, 6 test results | arms, starts and stops acquisitions; sequences the power of the detector | a power request in the middle of an acquisition, failures and time-outs of nine steps, an SCD detour through an extra-trigger delay; the detector is never switched under a running trigger |
| Power manager (`sw/power_ctrl.c`) | power state and setpoint registers | turns requests of the host, the button and the start-up into transitions | an interrupt that writes the setpoint inside the call; requests are answered and never undone |
| Counters (`sw/FlashDynamicValues.c`) | a file, a temporary file, values in memory | rewrites the counters file after each event | a power cut between any two operations, a failing operation, at boot too; no counter goes back unless the only complete file could not be read or renamed |
| Saved configuration (`sw/GC_Store.c`) | a flash sector, a buffer, a command flag | erases and writes the sector over many calls | a request during a save; what is saved is what was asked for last |
| Calibration manager (`sw/Calibration.c`) | the calibration in use, the file and blocks being loaded, a descriptor | loads a collection and its blocks over many calls | files deleted, uploaded or formatted meanwhile; a valid calibration is complete |
| File manager (`sw/FileManager.c`) | file records, seven lists, the index of the collection being filled | serves a client's requests over the network | records that others point to; lists that shrink under an index |
| Image correction (`sw/Actualization.c`) | the states of a correction, of the bad pixel detection and of the file writer, a backup of registers, a database of corrections | takes images of a reference, computes and writes a correction | drives the acquisition, the calibration manager and the internal calibration unit through commands the host uses too, and must restore them on every path; a correction that may be applied is of its block |
| Filter wheel (`FW/Driver/FWController.c`), motors (`FaulhaberControl.c`, `FaulhaberProtocol.c`) | a mode, the state of its own machine, a command queue, the answers expected | moves a wheel over a serial link | lost and late answers without a name, setpoints written while the wheel moves; acquisitions are allowed with the wheel as asked, and the wheel settles |
| ND filter | a mode, a queue | the same protocol with fewer modes | the same |
| Internal calibration unit (`ICU/Driver/ICU.c`) | a setpoint, a position | moves a paddle in front of the detector | the position is read back later |
| Flash settings (`sw/FlashSettings.c`) | a descriptor, a state | loads settings at boot or later | a second file while one is loading |
| Register poller (`sw/GC_Poller.c`) | a list of requests | reads registers of other processors | answers that are late or lost |
| Exposure control (`AEC/Driver/AEC.c`) | a flag, filters | computes an exposure from a histogram | the interrupt against the loop |
| Autofocus, lenses, GPS | queues, time-outs | serial protocols | late or lost answers |
| Detector, trigger, header, calibration drivers | none to speak of | write words to hardware blocks | nothing that depends on order |

How they interact: the host writes registers, whose callbacks set commands. The
power manager asks the acquisition machine for a transition and waits for its power
state. The image correction process starts and stops acquisitions, loads
calibrations, moves the wheel. The file manager resets the calibration when it
removes a file in use and uses the calibration's last choice to fill the first
collection. The calibration manager records its choice in the counters file, and
holds acquisitions up while it loads. `PROJECT.json` lists every component with its
status, and the hazards of the code at their lines.

## 2. Plan

In this order, the most important behaviour first. The first six are written.

1. `Acquisition`, `CameraPower` and the abstract `PowerContract` and
   `AcquisitionContract`: the two machines that switch the hardware, composed with the host, the button and the other
   writers of their inputs. Proofs: the inductive invariant, the safety
   properties, the refinement.
2. `FlashDynamicValues` and the abstract `DurableRecord`: power cuts. Proved.
3. `GCStore`: requests against an operation that takes many calls. Proved.
4. `CalibrationManager`: two machines that share records, and the abstract
   `CalibrationContract`. Proved.
5. `ImageCorrection`: `Actualization_SM` over what it uses of the acquisition
   machine (within `AcquisitionContract`), the calibration manager (within
   `CalibrationContract`) and the internal calibration unit. Proved.
6. `FilterWheel`: the mode machine of `FW_ControllerProcess` with its queue, over a
   link that loses what it carries. Proved.
7. `FlashSettings` and the rest of the file manager's protocol: descriptors, the
   settings file, selectors against lists that shrink.
8. `ExposureControl` (interrupt against loop), the register poller, the serial
   protocols of the lenses: one generic model of a request with retries and late
   answers, and each protocol as its instance. The ND filter as another instance of
   the wheel's protocol.

## 3. The modules

A call from the main loop is one step. In all modules but `ImageCorrection` the
calls of different machines come in any order: the loop's order is one of them, and
the properties do not depend on it. Those of the image correction do, and its module
has the loop's order (`turn`). A call that finds nothing to do is a stuttering step. A deadline is
abstracted: it may expire at any call. What hardware answers is chosen by the step.

### Acquisition and CameraPower

`Acquisition` has one action per state of `Acquisition_SM`; `Stopped` is split into
`TurnOn`, `TurnOff` and `ArmOrIdle` after the tests of `ACQ_STOPPED`. The variables
carry the names of the code where TLA+ allows it. `SetPowerState` is
`Acquisition_SetPowerState`. `ScdProxy` is the conditional compilation symbol that
adds two states and changes how an acquisition stops; `BypassChecks` the debug flag
that lifts the checks of a start. The bits of `TDCStatus` that no property tells
apart are one bit (`"Motors"`, `"Data"`).

`CameraPower` has one action per arm of `Power_SM`, one per register the host
writes, with the lock the register table gives it, and one for each other writer:
`Correct` (image correction), `Motors`, `DataPath`, `ValidateKey`. Only the button
interrupt (`ButtonReleased`) can fall inside a call: `PowerOnFailed` therefore ends
at an intermediate `pc`, between the write of the setpoint and that of the power
state, and no other call can take place there.

`PowerContract` is the promise behind the power register: a transition leads
somewhere, channels are switched one at a time and only during a transition, `On`
means all of them, `Standby` none, a power-on that fails has cut everything before
it turns into a power-off. `KeepsContract` is its refinement by `CameraPower`.

`AcquisitionContract` is the promise behind the start and stop commands, which the
host, the power manager and the image correction process all write: a start is obeyed
once or refused, never against a pending stop; a stop given to a machine that is armed
or acquires stays pending until it does neither; nobody takes back a command of
another; images are reported from the first call of an acquisition to the first one
after it. `ObeysCommands` is its refinement by `CameraPower`. A machine in the SCD
detour is `"paused"` while no stop is pending and off once one is: a stop that comes
during a change of the frame rate ends the acquisition without another call of
`ACQ_STARTED`.

### FlashDynamicValues and DurableRecord

One action per operation that has an effect on the flash; a value is its version
number. `fdv` and `tmp` are the two files (`Absent`, `Torn`, or a version), `acked`
is the last version whose update returned success. `Faults` are the operations that
may fail, all of them in the run: those of an update, the renames, and at boot the
search of the directory and the open, parse and close of the function that reads a
file (`ReadFailures`). `SecondPartition` lets a file be created on the second
partition. `leaked` are the files left open, which the file system refuses to remove: a
file that does not parse stays open, whatever its contents. A temporary file that
could not be read is removed, and a counters file that could not be read leaves the
values at zero; the boot goes on in either case (`proc_ctrl.c:157`), and its first
update writes what is in memory.

On one partition the code can lose counters in two ways, whose history is `lapse`: a rename
failed, or a boot went on without having read the only complete file (`Overlooked`, or
a complete `fdv` in `LoadValues`). The properties promise nothing after a lapse, and
section 5 shows that each kind is needed. `DurableRecord` is an atomic record with a
saved value: what a boot would load only moves between the last saved value and the
latest one, until its step `Lapse`.

### GCStore

One action per state of `GC_Store_SM` that is reached (the erase command has no
caller). `requested`, `late` and `failed` are history: what the registers were at
the last request, whether it came after the copy, whether the flash failed.

### CalibrationManager and CalibrationContract

`Calibration_SM`, one action per state, over the file records (`fileDB`, `closed`),
the lists, and the machine of the file manager that fills collections and serves
requests. A record is a slot; pointers to it (`cmFile`, `blockFiles`, `info.file`)
survive its being cleared and given to another file, as in the code. A file is its
POSIX time, and no two files of the flash have the same. The many calls that read
the sections of a block are one step, during which nothing else of the model can
happen: a block being read is open, and an open file is not removed. `calData` and
`calInit` are the two status bits. The ordering keys of the lists are left at their
default.

`CalibrationContract` is what the manager promises those that ask it for a
calibration: a request is taken when none is pending or under way, none replaces it,
nothing is served while it is loaded, and the load ends with what was asked for or
with nothing. `KeepsContract` is its refinement by `CalibrationManager`, in which what
is asked for is the file of `cmFile` until its header has been read and the POSIX time
in `info` after that, and what is served is a valid `info` in the idle state. The
deletion of a file may take the calibration in service away (`Lose`).

### ImageCorrection

`Actualization_SM` with `BadPixelDetection_SM` and `ActualizationFileWriter_SM`,
which it calls: one definition per state (`Idle`, `Start`, `WaitForCalibData`, ...,
`Finalize`; `BPD_...`; `FWR_...`). `turn` goes round: the host is served at the turn
of the calibration manager, then come the calibration manager, the acquisition
machine and the process. A call of the process is two steps, the code of its state
and the tail (`EndOfCall`), because a state may set the error that the tail of the
same call handles. What the process sees of its neighbours is modelled with their
guards: a load is refused while another is pending, and the refusal is ignored
(`LoadFile`); commands to the acquisition are the registers the host writes
(`start`, `stop`); the ICU's position is a transition until it is read back. What it
sees of the calibration manager implements `CalibrationContract` too
(`KeepsContract`), and what it sees of the acquisition machine, with its own commands
beside the host's, implements `AcquisitionContract` (`ObeysCommands`), so that both
sides of each interface are held to the same promise; files removed during a correction, which the contract allows for, are not in this
module.

A calibration is the sequence of its blocks. A correction in the database (`db`)
is the block it names, its type, its valid mark and its `data`: of which block the
quantized values are, and whether they are `sound`, that is computed from images of
the reference and from a calibration without correction. `corrected` are the blocks
of the calibration in use to which a correction was applied while they were read.
Timers expire at any call (`Waits`, `Fails`, `MustAdvance`); computations take any
number of calls. `regs` says whose values the registers a correction changes have,
and `backup` whose values the copy has: `"old"` is a copy that is not the host's.

`ModeKinds` are the kinds of correction: of the ICU (`"ICU"`), of all blocks
(`"AllBlocks"`), of the current block (`"Block"`), and both again with
`ImageCorrectionFWMode` rotating (`"AllBlocksSync"`, `"BlockSync"`). `"BlockSync"` is
the case of `Actualization.c:573-583` in which one block is corrected, the current one,
but the whole collection is loaded; the others load what they correct. Which
block is the current one is left open.

`Faults` selects what may go wrong or be asked for meanwhile (`FaultKinds`). Left out:
the debug modes, the ages of entries (any external entry may be the oldest), the
reading of correction files at boot, the filter wheel of the rotating kinds, and in
`Suitable` the tests on the resolution of the pixels, the binning, the well depth, the
integration mode and the reference time (`Actualization.c:3307-3312`): the collections
of the model all agree with the corrections on these.

### FilterWheel

`FW_ControllerProcess` is one action, as it is one call: it takes a command from the
queue (`AfterQueue`), changes the mode (`Switched`, `InError`) and calls the function
of the mode, which has a machine of its own (`InitialisationMode`, `VelocityMode`,
`PositionMode`, `ErrorMode`, `IdleMode`, `StartupMode`), by the order of the code: the
status bit is computed from the queue and the mode of the last call. `line` is the
command being sent, during which every other is refused; `expected` counts the
acknowledgements, which carry no name; `responses` are the answers received. The
link and the motor are external: `Sent`, `Answer`, `Arrive`, `Misses`. Angles are
positions of a small set, in half filters, so that there is a place between two
filters; two speeds stand for those below and above the threshold that changes the
gains. A stopped timer never expires; a running one expires at any call once what
it waits for cannot come any more, and too early `MaxFaults` times at most.

The host writes the mode (`HostFixed`, `HostRotating`), the position (`HostPosition`),
the raw position (`HostRawPosition`) and, while the wheel rotates, the frame rate, at
any moment; entering the rotating mode and changing the frame rate both compute the
speed anew, up to the maximum (`SpeedSetpoint`). Flash settings may lower the maximum
below a setpoint that was within it (`HostLowersMaximum`); the debug terminal resets the
controller, and `ResetAnyTime` lets it do so while the motor is at work. `asked` is
history: the last command `ChangeFWControllerMode` accepted, and whether it was a raw
position. It is what the queue and the modes are compared with: a raw position commands
the same queue as the registers but changes none of them. `ChangeFWControllerMode`
ignores any position, raw or not, while `FWMode` is not fixed (`FWController.c:180-182`),
and a raw position that the idle mode still finds waiting is replaced by a command for
the registers, as is every other (`ByRegisters`); nothing is stated of that loss.

Abstracted or left out: `GC_SetFWSpeedSetpoint` is in the submodule and is taken to run
the callback of the register; a command of several lines is one line with one
acknowledgement, although it leaves in chunks of `FH_MAX_TX_SIZE`; `FW_moveTimer`, for which
the end of a move of the synchronous wheel is not looked at (`FWController.c:1311-1314,
1328`), may run at any call of `moveWait`, but is over when the time-out of the move,
three times as long, expires; the
asynchronous rotation is not implemented by any build
(`FlashSettings.c:334-357`). A filter wheel calibration writes the position through the
same functions with a block's filter, which is a position the host could have written.

## 4. Runs

| run | instance | what it shows |
|---|---|---|
| `power_buffer` | memory buffer, 585,216 states | the inductive invariant of the proofs, what `On` guarantees, the contract |
| `power_scd` | SCD detector with a synchronous wheel and an image correction process, 1,390,592 states | the contract of the acquisition commands; stops and requests are not lost in the detours; nothing starts in a transition; a transition goes through its steps once |
| `power_live` | no option, 130,816 states | transitions end and requests are answered |
| `fdv_faults` | 4 updates, every fault, 7,746 states | no saved counter is lost, and the update is an atomic record, until a rename fails or a boot cannot read the only complete file |
| `store_requests` | 3 register writes, failing flash | what is saved is what was asked for; saves end |
| `cal_delete` | 2 collections sharing a block, deletions, formats, failing reads, 16,610 states | the inductive invariant; a valid calibration is complete; the manager keeps its contract; a load goes through its states and blocks once |
| `cal_live` | 2 of 3 collections on the flash, uploads of the third and of a bad block, 2,994 states | every accepted load ends, acquisitions are held up only meanwhile |
| `correction` | a collection of two blocks, a database of two entries, corrections of the ICU, of all blocks and of the current block behind a rotating wheel, with bad pixel detection, files that cannot be read, 3,941,044 states | the inductive invariant; a correction goes through its states and blocks once; however it ends, the host's registers, calibration and acquisition are restored, and the corrections that may be applied are sound and applied |
| `correction_faults` | one block, a database of one entry, corrections of the ICU; the debug terminal, the power button, a host that moves the ICU or starts an acquisition, files that cannot be read or written, 3,520,255 states | the camera is never busy with a correction that does not exist; the calibration manager and the acquisition machine as the process sees them keep their contracts |
| `correction_live` | two blocks, corrections of the ICU and of all blocks behind a rotating wheel, 646,487 states | a correction ends, although some of its waits have no time-out |
| `wheel` | both wheels, two filters, 2 writes, 1 fault, 256,554 states | acquisitions are only allowed with the wheel where the last command accepted wants it; the position shown is the true one; the wheel settles; the inductive invariant of the proofs |
| `wheel_error` | violation, 3 writes, no fault | see section 5 |

Bounds. The power models are finite without any: the state of the program is. The
options of a camera are constants, and each is on in one run, because all at once
exceed what TLC explores in minutes; the proofs cover every combination.
`MaxUpdates = 4` is one update that fails, one that writes directly, one that
follows it, and one more, with any number of power cuts between; `MaxWrites = 3` of
the store separates the registers before, at and after a request that comes late.
Two collections and two blocks are enough for a collection to have a first and a
last block, for a block to be shared, and for a list to have an element after the
one removed. Two blocks and the ICU's reference block over a database of two
entries (`correction`) recycle an entry while another is applied; corrections follow
one another without bound. The kinds of
correction and the faults are divided between the runs, since all at once take
`correction` beyond what TLC explores in minutes: `AllBlocksSync`, whose blocks are
corrected one after another in one sequence of images, is in `correction_live`, a
correction file that cannot be written in `correction_faults` and `correction_live`,
`Block` in none; the proofs cover every kind, and every property of `correction` with
failing writes. `MaxDisturbances = 1` is one interruption, power cycle or
move at any step; `BusyIsExplained` and the two contracts are proved for any number. Two filters and a place
between them, two speeds, two writes and one fault are a command on the way, one that
replaces it, and an answer lost in between; `wheel_error` needs three
writes: the speed, the lowering of the maximum, and the speed again. Where the machines may stop for good (an empty flash,
nothing requested) the calibration runs do not check for deadlock.

Each property has a mutant: a definition `Bug_...`, beside the one it replaces,
that makes the plausible mistake the property is there to find.

Fairness. The loop calls every machine for ever (`proc_ctrl.c:208`), hence weak
fairness of each machine or turn, in every run of a liveness property. Some ends are
only reached after any number of calls that find nothing, hence strong fairness: of
the two actions of `GCStore` that end a flash operation; of the steps of
`ImageCorrection` in which a timer expires or a computation, a load or a writing is
over (`Progress`), in which a sensor gets ready and in which the ICU arrives. In
`FilterWheel` the timers expire once nothing more can come (`TimeIsUp`), and the link
and the motor get on (`Sent`, `Answer`, `Arrive`). Nothing says that a detector ever
cools down: `TransitionEnds` has that exception. Nothing is assumed of the host, of
the button or of faults; `Settles` holds when the host stops writing, which its bound
forces, and unless the maximum was lowered below the speed the wheel was to turn at
(`Overspeed`).

## 5. What the runs found

`wheel_error` shows a disagreement between what the code does and what it says. The
comment of the error mode is "basic error mode : retry after 5 sec"
(`FWController.c:1481`), but the timer is only started by an error. The trace: the host
has the wheel rotate fast; flash settings with a lower maximum are loaded; the idle mode,
after an initialisation, queues the setpoint as it stands, which
`ChangeFWControllerMode` turns into an error and a command for the error mode. The error
mode clears the error and ends after 5 seconds, taking the command, which survives the
initialisation in `FW_newModeAvailable`. Meanwhile the host changes the frame rate or
writes the mode again, and the setpoint is computed anew, up to the new maximum: no
error is set any more. The idle mode then executes the command that was kept. The
controller stays in the error mode, with a timer that does not run, and acquisitions are
refused until the debug terminal resets it.

The other disagreements with what one would expect come out of the same modules with
other constants; they are described at their lines under `hazards`.

- `FlashDynamicValues`: without `~lapse` TLC finds `NothingLost` and `NeverBackwards`
  violated. A failed rename leaves a stale temporary file that takes the place of a
  newer one at the next boot. A boot that cannot read the directory, or cannot open,
  parse or close a complete temporary file that is the only complete one, goes on without
  it, and removes it if it can; one that cannot read the counters file goes on with
  zeros, which its first update saves. A temporary file on the second partition is not
  found (`SecondPartition = TRUE`).
- `CameraPower`: a start is verified at a call after the one whose lock allowed it, on
  which the comment at `GC_Registers.c:1176` relies; a playback arm followed by a
  change of the download mode makes a detector ready that was not configured
  (`ReadyMeansArmed`, which no run checks, with the constants of `power_buffer`; without
  a memory buffer it only restates `Arm`).
- `CalibrationManager`: after a deletion the file manager's index is above the number
  of collections, and an accepted load never starts (`LoadEnds` with `"delete"`); an
  unreadable collection makes the file manager skip the next one (`Bad` with a
  collection, `FilledWhenServing`); a cleared record given to another file is loaded in
  place of the block it named (`"create"` and `"delete"`, `ValidMeansLoaded`); a mode
  change whose tables cannot be read holds acquisitions up (`ChecksFail` in `cal_live`,
  `DataBitMeansLoading`); a format at the end of a load leaves a valid calibration
  without blocks.
- `ImageCorrection`: each property that excludes a fault fails with it. An
  interruption by the debug terminal while no correction runs restores registers from
  a copy that was not made (`"stop"`, `RegistersRestored`); a load that outlasts its
  time-out has the next one refused, and the reference block stays (`"slowLoad"`,
  `CalibrationRestored`); a load the file manager holds back lets the process take the
  calibration of before for the one it asked for (`"heldLoad"`, `CalibrationRestored`,
  `ValidIsSound`); an ICU moved by the host spoils the images and can keep a correction waiting for the
  scene position for ever (`"icuMoved"`, `ValidIsSound`, `CorrectionEnds`); a start of the host that is still pending, or a power cycle, leaves
  an acquisition behind (`"startRace"`, `"power"`, `NoStrayAcquisition`).
- `FilterWheel`: with `ResetAnyTime` the answers to commands from before a reset are
  taken for those of the initialisation (`ClearMeansAsAsked`).

## 6. Proofs

| module | theorems |
|---|---|
| `CameraPowerProofs` | `Invariance`, and from it `TypeCorrect`, `DeadArm`, `OnIsVerified`, `StandbyIsDark`, `NeverSwitchedWhileAcquiring`, `ResetHasAReason`, `TransitionsAreFinite` |
| `PowerContractProofs` | `ImplementsContract`, `CommandsAreObeyed`, `StopsAreHonoured`, `NoStartInTransition`, `RequestsAreNotUndone` |
| `FlashDynamicValuesProofs` | `Invariance`, `NoSavedValueIsLost`, `CountersNeverGoBack`, `ImplementsDurableRecord` |
| `GCStoreProofs` | `Invariance`, `SavesReachTheFlash` |
| `CalibrationManagerProofs` | `Invariance`, and from it `ManagerIsBusyForAReason`, `InitBitTellsValidity`, `ValidCanBeReadAgain`, `DatabaseIsSound`, `CollectionsAreFilled`, `ValidCalibrationsAreWhole`, `ImplementsContract`, `LoadsAreFinite`; `ImagesWaitForLoadsOnly` |
| `ImageCorrectionProofs` | `TypeCorrect`, `HostLockedOutForAReason`, `RegistersAreRestored`, `NoFileStaysOpen`, `AcquisitionsEndWithTheCorrection`, `ImplementsContract`, `CommandsAreObeyed`, `CorrectionsAreFinite` |
| `ImageCorrectionSoundness` | `CollectionIsRestored`, `CorrectionsAreApplied`, `ValidCorrectionsAreSound`, `Invariance` |
| `FilterWheelProofs` | `Invariance`, and from it `FilterShownIsThere`, `ClearIsAsAsked` |

`CameraPower`. Assumed: the options are Booleans. None of the safety properties is
inductive: that the camera does not switch a running detector depends on a stop
command having been set when the transition was requested and not yet consumed, on
the two machines agreeing on whether there is a transition, and on no start being
possible meanwhile. `IInv` ties these together. `PowerViewsAgree` relates the two
power states and the status bit; `OneTransition` says that exactly one of the two
flags or one of the two sequences is under way, and agrees with the setpoint;
`TriggerFollowsState` and `StopPendingInTransition` are what the trigger needs;
`ChannelsFollowState` and `TestsFollowState` say what each step of a sequence may
rely on. A step of the environment leaves all of these alone
(`EnvironmentPreserves`); each call of the two machines has a lemma of its own. The
action properties and the two refinements are proved from `IInv`, action by action;
that of the commands needs that the detector is off in every state of a power sequence
whatever is pending (`OffStatesObey`), and follows the states of an acquisition one by
one (`AcquisitionObeys`).
`TransitionsAreFinite` is the safety half of `TransitionEnds`: a step of a transition
never goes back (`TransitionSteps` is their order), because the acquisition that runs
when it begins has its stop pending until it is stopped, the SCD detour included.

`FlashDynamicValues`. Assumed (`OnePartition`): no file is on the second partition;
without it TLC finds the property violated (section 5). Every operation may fail, those
of the boot included, and power may be cut at any point, any number of times, for any
number of updates. What is promised ends with a lapse, a failed rename or a boot that
could not read the only complete file, and `IInv` says what holds until then (`Kept`) and
after (the types, and the partition). `FileIsCurrent` says which of the files holds the
saved value, `StepsAreReady` what each operation finds. In the refinement a failed read
that is no lapse is a step of the record too: the counters file, complete then, holds the
saved value or a later one, and what a boot would load falls back to it.

`GCStore`. Assumed: `Unreadable` is not a configuration. `SaveInOrder` says that the copy
under way is no older than the request, and the flash no older than the copy.

`CalibrationManager`. Assumed (`CalibrationAssumption`): collections are not blocks and
are not empty, the flash holds at most as many files as there are records, no two with
the same name, and names and records are not `Null`. Nothing is assumed of what the
client does or of what cannot be read, but for four theorems. `ValidCalibrationsAreWhole`
and `ImplementsContract` need `NoReuse`: the client uploads files, or deletes and
formats, but not both, since a record cleared and given to another file in the middle
of a load is loaded in place of the one it named. `CollectionsAreFilled` needs that
no collection is unreadable and no read fails (`CollectionsReadable`), since the file manager skips the
one that follows a collection it could not read; and `ImagesWaitForLoadsOnly` that
flash reads do not fail. TLC finds each of these properties violated without its
hypothesis (section 5).

`DatabaseInOrder` is the file database: a record is at most once in the list of its
kind and in no other, one whose file is closed is not empty, and no two records hold
the same file; every sorted insertion, removal and format is shown to keep it.
`FilledInOrder` says that all collections up to the index are filled, and the start-up
one that the file manager passes over, and that a load only runs when all are;
`RecordsKept` that a client that only uploads clears no record a load has found. A
valid calibration is complete because every step of the load that led to it kept account:
`LoadInOrder` says which variables a state may rely on, `CollectionSoFar` that the
blocks before the current index are those of the collection and the records after it
still name theirs or have been cleared, which opening them would notice, and
`BlockSoFar` the same for a block that is loaded by itself and for a calibration that
a format has emptied. The refinement follows the load state by state: `Begin` is the
call that resets the calibration in service, `Finish` the end of
`CMS_FINALIZE_COLLECTION_FILE`. `LoadsAreFinite` is the safety half of `LoadEnds`, for
every number of blocks, every file and every client: each step of a load goes on to a
later state or block (`Stage`, `BlockSteps`), and nothing the client does meanwhile
takes it back. That a load does take its steps is the fairness, and stays with TLC.

`ImageCorrection`. Assumed (`CorrectionAssumption`): a collection has at least a block,
the ICU's reference block is no block of a collection, and `Null` is none of the
values. The invariant is proved in layers, each from those before it and each with the
faults it survives, so that a theorem assumes no more than it needs:

| layer | faults it excludes | what it says |
|---|---|---|
| `TypeOK` | none | types, among them that the database stays within its size and `entry` within the database |
| `LockedOut`, `RegistersKept`, `FilesClosed` | `stop` (`Uninterrupted`) | the host is locked out while a correction runs, an error is dealt with in the call it happens in; the copy of the registers is the host's from the start to the end; the writer is at work in one state only |
| `CommandsServed`, `OwnAcquisition` | and `power`, `startRace` (`Undisturbed`) | what the acquisition machine has made of the last command, and in which states of the correction an acquisition may run or be about to |
| `CollectionKept`, `AppliedSoFar` | and `slowLoad`, `heldLoad` (`LoadsInTime`) | a load has begun when the process looks at the status bit; the collection to go back to is the host's; the blocks read so far have their corrections |
| `PlainCalibration`, `OnReference`, `EntriesDistinct`, `EntryKept` | all but `badLoad`, `writeError` (`FilesFailOnly`) | images are taken with the right calibration, not corrected, and with the ICU in place; an entry per block; the entry under computation stays the one that was allocated |

None of the layers can be left out. That a valid entry is sound depends on `entry`
not having been moved by a search since it was allocated; every start of an
acquisition and every end of a load searches, so it depends on no acquisition being
started and no load ending between the allocation and the writing
(`OwnAcquisition`, `PlainCalibration`), except by the bad pixel detection, which
searches for the entry it was called for and finds it because it has just been made
valid, ahead of its data. `BusyIsExplained` needs no layer but itself, and holds
under every fault; so do the refinement of `CalibrationContract`, which needs that a
load under way has a request behind it (`LoadExplained`), that of
`AcquisitionContract`, which needs that the machine is off in standby (`PoweredOff`),
and `CorrectionsAreFinite`,
the safety half of `CorrectionEnds`: no step of any machine takes a correction back,
and those of the process take it on to a later state, a later block or its end, an
error being dealt with in the call it happens in (`ErrorAtTail`). The order
(`StepsOf`) is that of the states of the correction, of the bad pixel detection and of
the file writer.

`FilterWheel`. Assumed (`WheelAssumption`): filters are at even positions, Filter1 is at
0, and the debug terminal does not reset while the motor is at work (`~ResetAnyTime`);
with such a reset TLC finds `ClearMeansAsAsked` violated, since a late answer to a command
of before is taken for that of the next. Neither property is inductive: that the position
shown is the true one depends on every answer on the link being the one the present state
waits for, although acknowledgements carry no name and any message may be lost.
`Pending(cmd, before, after)` says so of one command: it is on its way, it has been
lost, with or without having been carried out, or it is answered, and never more than
one is. `InitInv`, `VelocityInv` and
`PositionInv` give each state of each machine its command, what the wheel may be doing
meanwhile (`Coasting`, `Steering`, `Moving`) and what its answer proves; `RecoveryInv`
that the error mode only ends on a quiet link; `QueueInv` that the command queued, taken
or carried out is the last one accepted, `asked`, which suits `FWMode` and is what the
registers ask for unless it was a raw position; `ShownInv` when a filter is shown.
The motor's steps (`MotorPreserves`), the host's (`HostPreserves`) and each mode's call
(`InitCall`, `VelocityCall`, `PositionCall`, ...) have a lemma each.

Only model-checked: the liveness properties `TransitionEnds`, `RequestAnswered`,
`SaveEnds`, `LoadEnds`, `CorrectionEnds`, `Settles` (liveness and `ENABLED` are out of
the prover's reach; for transitions, loads and corrections the proofs cover that they cannot go
round, and TLC that they do not stand still). Everything else that a passing run checks
is a theorem.

## 7. What is not modelled

Hardware drivers that only write words, floating-point computations, file formats,
the vendored file system (but for the refusal to remove an open file), the shared
library in a submodule that is not part of the repository, the debug terminal (but
for its two commands that interrupt a correction and reset the wheel), the production
test firmware and the FPGA design. The flash settings loader, the register poller, the
exposure control, the ND filter and the protocols of lenses and GPS are in the plan:
machines of their own that share little with those modelled. Of the some 300 registers
of the host, those modelled are the start, stop and arm commands, the power state, the
test image, the download mode and the frame rate (`CameraPower`), the save of the
configuration (`GCStore`), the load of a collection or block (`CalibrationManager`), the
image correction, the load, the ICU's position and one that stands for the parameters a
correction changes (`ImageCorrection`), the mode, the two positions and the frame rate as
they drive the wheel (`FilterWheel`). A register with a role in two modules is in each
with that role only: `CameraPower` sees the wheel as a status bit. The others convert,
clamp and forward parameters, or command machines that are not modelled. Durations are nowhere modelled: a defect that consists of measuring from
the wrong instant (`Acquisition.c:316`) is listed as a hazard without a property.
