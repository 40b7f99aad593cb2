# A TLA+ model of the K2 FPGA Manager

The K2 FPGA Manager is the firmware of an RP2040 that boots the FPGA of a
Wildbits/K2 computer and then serves it through a small mailbox.  Its hard part
is flash: the firmware replaces itself, replaces FPGA cores and saves settings
in raw NOR flash, on a board whose power switch may be thrown at any time.  This
directory models those protocols, checks them with TLC and proves the main
results with TLAPS.

## 1. The system

| Part | Source | State it keeps | Operations |
| --- | --- | --- | --- |
| Update engine | `firmware_update_engine.cpp` | three 1.5 MiB slots (active, rollback, staging), two journal sectors | decide a boot, copy an image, commit a record, mark pending, confirm |
| First-stage loader | `firmware_loader.cpp` | none of its own | call the engine, start the active application, or enter USB recovery |
| Trial | `firmware_trial.cpp` | `trial_active`, the watchdog | detect a trial at start, feed, confirm |
| Staging receiver | `firmware_staging.cpp` | a session in RAM, the staging slot | begin, write, erase step by step, finish, abort |
| Core pool | `core_store.cpp`, `core_flash.cpp` | 128 blocks of 64 KiB, two allocation records, a guard page | load, migrate, begin, erase, write, commit, abort, clear, read |
| Boot configuration | `boot_config.cpp` | two metadata sectors, selections of four contexts | load, set a selection, set or clear a slot |
| Boot and programming | `fpga_mgr.cpp`, `gzip_inspect.cpp`, `golden_images.cpp`, `boot_log.cpp` | the context, the FPGA, a log ring | choose a source with fallback, program the fabric, main loop |
| Supervisor | `supervisor_service.cpp` | the last request and response, upload, copy, catalog and firmware sessions | one transaction per call |
| K2 programs | `k2/k2uploader.asm`, `k2/k2coremgr.asm` | bytes acknowledged, retries, the mailbox registers | scan a core or a firmware package, send it in frames, recover from lost replies, abort |
| FatFs | `FatFs_SPI/ff15` (vendored) | the card's directories | open, sync, rename, unlink, as its callers see them |
| miniz, packaging tools | vendored or offline | | not modelled |

The loader runs first and either rewrites slots and journal or starts the
application in the active slot.  The application decides whether it is on trial,
programs the FPGA, confirms itself, and then loops over mailbox transactions and
steps of the sessions.  Nothing runs concurrently inside the manager (one core,
no interrupt handler touches this state): the interleavings are those of the
*power supply*, the *watchdog*, the *K2's requests* and *failing flash* with the
steps of long operations, and those of several sessions over one set of flash
sectors.

Hard behaviours: power loss inside every erase and program operation; a NOR page
that can only be cleared by erasing its sector; alternating records whose
sequence numbers wrap; a boot fast path that does not hash what it starts;
retries over a serial link; sessions that have to exclude one another.  They are
listed line by line under `hazards` in `PROJECT.json`.

What makes each part correct:

* update engine: some build can always be started; a candidate replaces the
  accepted build only behind a verified backup; an unconfirmed trial ends in that
  backup; the journal moves atomically;
* receiver: READY means the candidate is whole and durably pending; a frame whose
  answer is lost is neither written twice nor skipped;
* core pool: every core a durable record names keeps its data, through failed
  and interrupted replacements, for the newest record and the one before it;
* boot configuration: an interrupted save keeps the previous selection;
* boot and programming: the saved choice is what boots if it can be loaded, a
  recovery context is never left without an image, and the status tells the truth;
* supervisor: a repeated request is not executed twice and gets its own answer;
  sessions exclude one another; an image on the card survives a failure while it
  is replaced.

## 2. Modules

| Module | What it is |
| --- | --- |
| `UpdateEngine` | loader, journal, trial, receiver |
| `UpdateEngineInvariant` | the inductive invariants `IInv` and `WornInv`, together `UpdateInv` |
| `UpdateEngineProofs` | types, `WornInvariant` and what follows from it, whatever rots or fails |
| `UpdateEngineSafety` | `InvariantHolds`, `UpdateInvariant` and what follows while the flash is sound |
| `CoreStore` | the core pool: allocator, records, guard, migration, flash uploads |
| `CorePool` | what the pool promises: a table of cores |
| `CoreStoreProperties` | the inductive invariant `CoreInv`, the properties, the refinement mapping |
| `CoreStoreProofs`, `CoreStoreSafety` | types, `CoreInvariant`, the safety theorems, and `ImplementsCorePool`: `CoreStore` refines `CorePool` |
| `ImageTransfer` | a core sent from the K2 to a flash slot: uploader, mailbox, upload session |
| `FirmwareTransfer` | a firmware package sent from the K2 to the staging slot, beside the core transfers, over `ImageTransfer` |
| `TransferInvariant` | the inductive invariant of both transfers, `TransferInv` |
| `TransferProofs` | `TransferInvariantHolds` and the safety theorems of both transfers |
| `BootChoices` | what the journal of boot choices promises: a table that changes one choice at a time |
| `BootJournal` | the journal: two sectors, the record in memory, a save |
| `FabricBoot` | the choice of an image for the FPGA, over `BootJournal` |
| `Supervisor` | mailbox transactions and the main loop, over `FabricBoot` |
| `BootJournalProofs`, `SupervisorProofs` | the proofs of the journal; of the choice of an image and of the service |
| `ImageLibrary` | the images on the manager's card, and the sessions that share card, flash and buffers |
| `ImageLibraryProofs` | the inductive invariant `LibraryInv` and the safety theorems |
| `MCUpdateEngine`, `MCCoreStore`, `MCImageTransfer`, `MCFirmwareTransfer`, `MCSupervisor`, `MCImageLibrary` | the instances for TLC |

How they fit together:

* `UpdateEngine` and `CoreStore` meet in the fence.  `requires_pool_firmware`
  reads the record sectors and the guard page of the pool to decide whether a
  build that does not know the pool may be started; `UpdateEngine` keeps the answer
  in `fence` and moves it as `FenceMoves` allows, which is a theorem of `CoreStore`.
* `ImageTransfer` is the caller of `CoreStore`: it takes `begin`, `write_page` and
  `commit` for operations that succeed or fail as a whole, which is what `CorePool`
  states and `ImplementsCorePool` proves, and models the page buffer between the
  frames of the mailbox and the pages of flash.  `CoreStore` in turn takes the
  data from any caller, as long as the caller does not go on after a failed page.
* `FirmwareTransfer` EXTENDS `ImageTransfer`: the K2 runs one of its programs at a
  time, the supervisor keeps a session of each kind.  It has the receiver frame by
  frame; `UpdateEngine` has the same receiver flash operation by flash operation,
  with power loss in each, and what the loader makes of a pending package.
* `Supervisor` EXTENDS `FabricBoot`, which EXTENDS `BootJournal`: an action of the
  service contains the action of the layer below, and the proofs are stacked in
  the same way.  Of uploads and deletions it sees that the sources change.
* `ImageLibrary` says what uploads and deletions do to the card, and which of the
  sessions exclude one another: `ImageTransfer`'s upload, `UpdateEngine`'s receiver,
  the copy from card to flash, and the catalog reads.

### Plan

Done: `UpdateEngine`, `CoreStore` with its contract, `ImageTransfer`,
`FirmwareTransfer`, `BootJournal` with its contract, `FabricBoot`, `Supervisor`,
`ImageLibrary`, and the proof of every safety property that a run checks and finds
to hold.  What could follow:

1. an abstract contract of the update (a build is accepted, a candidate is
   offered, tried, and accepted or dropped), implemented by `UpdateEngine`;
2. the two directory sectors of a rename as two writes.

## 3. `UpdateEngine`: state and actions

Flash is `slot` (an array of units per slot; unit 0 is the manifest sector),
`journal` (a record or `Unreadable` per sector) and `fence` (what
`requires_pool_firmware` reads of the core pool).  A step is one erase or one
program operation with the decisions that follow it; `pc` names the operation
the processor is about to do, `xfer` and `commit` hold the arguments of
`copy_image` and `commit_journal`.

| Code | Model |
| --- | --- |
| `process_firmware_boot` | `Boot` (one disjunct per branch) and `Install` |
| `copy_image` | `BeginCopy`, `CopyErase`, `CopyProgram`, `CopyManifest` |
| `commit_journal` | `BeginCommit`, `JournalErase`, then `LoaderCommit`, `PendingCommit` or `ConfirmCommit` by caller |
| `restore_and_confirm`, `recover_without_update` | `RestoreFrom`, `RecoverWithoutUpdate` |
| `start_active_application`, early trial hook | `StartActive` |
| `firmware_trial_confirm` | `Confirm`, `ConfirmCommit`, `JournalFault` |
| watchdog | `WatchdogReset`, possible in every unconfirmed trial |
| receiver | `ReceiveBegin`, `ReceiveManifest`, `ReceiveErase`, `ReceivePayload`, `ReceiveFinish`, `StageManifest`, `ReceiveAbort` |
| first use of the core pool | `MigrateRecord`, `MigrateRetry`, `MigrateGuard` |
| power supply | `PowerLoss`: any pc, with every outcome of the operation cut short |
| flash device | `FlashFault` (an operation fails its verification), `Damage` (a sector rots) |

`accepted` and `tried` are history variables: the build last accepted other than
by a rollback, and whether the candidate of the newest TRIAL record was started.

Abstractions:

* an image is one model value, standing for build id and payload hash; a unit
  holds the image it belongs to, or `Erased`, `Junk` (torn or corrupted), or
  `Rotten`.  CRC-32 and SHA-256 are taken to tell them apart;
* the pages of a sector, and the sectors of a unit, are programmed as one unit;
* two distinct images differ in every unit;
* the loader may take the hashing or the fast path for a CONFIRMED journal in any
  boot (the code chooses by the reset cause and the DIP context);
* the instants between the jump of the loader and the early hook of the
  application are one step: no watchdog runs there and nothing is written;
* frames, offsets and retries of the upload are `FirmwareTransfer`'s, and its
  exclusion by other sessions is `ImageLibrary`'s; here the receiver may be driven in any order
  its states allow;
* `Init` is the state the factory image leaves (`tools/firmware_package.py`
  `create_factory_journal`): the active slot and a CONFIRMED record, with blank
  or older contents in the other two slots.

## 4. `CoreStore`: state and actions

Flash is `pool` (what each 64 KiB block holds), `sector` (the two allocation
records) and `guard`.  Memory is `state`, `current` and `record` of the `Store`,
and `upload`, the session.  `call` and `stage` say which public function is under
way and which of its records is being persisted, `step` the flash operation it is
about to do.

| Code | Model |
| --- | --- |
| `Store::load` | `Load`, in `PowerOn` and in each failure path that reloads |
| `begin`, `clear` | `Begin`, `ClearImage`, both through `Start` |
| `migrate` | stage `import`, then `importCheckpoint` |
| `prepare_mutation` | stage `checkpoint`: rewrite the older record, then the guard |
| `persist` | `PersistErase`, `PersistProgram` with `Persisted`; `CallFails` |
| `guard` | `Guard`, with what the caller does next in `Guarded` |
| first-fit search of `begin` | `Allocations` |
| `erase_next`, `write_page`, `commit` | `EraseNext`, `WritePages`, `Commit` |
| `abort_upload` | `Abort` |
| power supply, flash device | `PowerLoss`, `FlashFault`, `Rot` |

Abstractions:

* an image is its core and the function from positions to blocks; the offset,
  length and CRC fields of a directory entry follow from the core.  A core
  occupies `Size` blocks, and block `n` of core `c` holds `Part(c, n)`;
* the pages of a block are programmed as one step.  The data that arrive may
  differ from what the host announced (`WritePages(Junk)`); `intact` stands for
  the running CRC that `finish_upload` compares before it commits;
* the pages of a record are programmed as one step too: the checksum is written
  with the last page, so a record cut short is not valid (`Torn`);
* label bytes, version fields and the bounds checks on them are left out: no
  label written by `persist` violates them;
* legacy slots are any pairwise disjoint runs of blocks, `LegacyBlocks`.
  `inspect_legacy_gzip` recognizes exactly the cores; anything else in a slot is
  reserved as `Foreign`;
* `Init` is a board that never migrated: any recognized, unrecognized or empty
  slots, no record, no guard;
* a mutation refused because firmware is on trial, or by another session, is an
  action not taken.

## 5. `ImageTransfer`, `FirmwareTransfer`: state and actions

### A core to a flash slot

`session` is the upload of the supervisor (`upload_active` and what goes with it,
the page buffer, the pages in flash), `stored` what the committed image of each
slot holds.  `pc`, `want`, `sent` and `retry` belong to the uploader, `count` and
`busy` are what it can read of the mailbox: the newest byte count in the receive
FIFO and a bit of the status register.

A step is one `mailbox_command`.  `Exchange` gives it its outcomes: the command
arrives or not; its reply is read in time, arrives after the timeout, or is lost;
and for the commands in `faults.stale` the uploader may read the reply of an older
command in its place, with no error.  The supervisor's part is an operator
`...Results` that gives the possible results of a command, the uploader's part an
operator `After...` that says what it makes of a reply.

| Code | Model |
| --- | --- |
| IMAGE_ABORT before a transfer | `SendAbort`, `AfterAbort` |
| IMAGE_BEGIN and its confirmation by IMAGE_STATUS | `SendBegin`, `AfterBegin`, `ConfirmBegin`, `AfterBeginStatus` |
| IMAGE_DATA | `SendData`, `AfterData` |
| IMAGE_END and its confirmation | `SendEnd`, `AfterEnd`, `ConfirmEnd`, `AfterEndStatus` |
| `mailbox_failure`, `abort_if_needed` | `SendFailAbort` |
| `begin_upload`, `write_upload`, `finish_upload`, `abort_upload` | `BeginResults`, `DataResults`, `EndResults`, `AbortResults` |
| `flash_program_page`, `core_flash_commit` | inside `DataResults`; `FinishResults`, `CommitResults` |
| polling by the FPGA, RESET, power switch | `Poll`, `ResetK2`, `PowerCycle` |

Abstractions:

* units stand for bytes; a file is a sequence of units that no other file has, so
  comparing `got` with the file stands for the comparison of sizes and CRCs;
* a file is what the scan saw (`finish_scan`); the card is not changed between
  scan and transfer;
* the PING before each frame changes nothing in the supervisor; its failure is
  the timeout of the frame;
* registers of the FPGA are external.  `faults.stale` says which commands may be
  answered by an older reply, the hazard named at `k2/k2uploader.asm:372-375`, and
  `faults.flash` whether flash operations may fail; `Init` chooses one of `Faults`.
  Every command but the first IMAGE_ABORT may be answered so in some behaviour: the
  uploader does not confirm that one, and if it were lost and an older reply read
  for its own, the session of an interrupted run for another slot would go on and be
  taken for the new one;
* IMAGE_BEGIN may fail for lack of blocks, too, also when flash is sound: the fill of
  the pool is `CoreStore`'s;
* targets on the SD card, labels and the check of the gzip header are left out;
  `k2coremgr.asm` follows the same protocol for a flash slot;
* of a session that has ended only the byte count is kept, and of a program that has
  ended only its report: what is left of the rest is set anew before it is read.

### A firmware package to the staging slot

`receiver` is the `FirmwareStagingReceiver` in RAM, `staging` the slot (the package
its manifest names, and the payload), `pending` the package the journal names as
PENDING.  `step`, `package`, `accepted` and `tries` belong to the "U" command of the
core manager.  A step is one `mailbox_command_response`: `Request` gives it its
outcomes.  The nonce in every reply rules out that an old one is taken for it.

| Code | Model |
| --- | --- |
| `update_firmware_highlighted` | `PressU`, `AfterInfo` |
| FIRMWARE_BEGIN | `BeginReceive`, `AfterBegun` |
| `transfer_firmware_data`, FIRMWARE_DATA | `Frame`, `WriteReceive`, `AfterWrite`, `Accept` |
| `transfer_firmware_data_recover` | `Recover`, `AfterPosition` |
| `firmware_wait_for_payload`, the erasure by `service_step` | `AfterWait`, `WaitUnanswered`, `ServiceStep` |
| `transfer_resync_firmware` | `AfterResync` |
| FIRMWARE_END | `FinishReceive`, `SealResults`, `AfterSeal` |
| `transfer_file_failure`, FIRMWARE_ABORT | `PackageFails`, `AbortReceive` |
| FIRMWARE_APPLY | `Apply`, `Restarted` |
| a core transfer, refused while a package is received | `SendCore` |

Abstractions:

* units stand for bytes, and a unit belongs to one package, so that comparing what
  was received with the package stands for SHA-256 and the manifest's checksum;
* every package is acceptable: a bad manifest and a downgrade are `UpdateEngine`'s
  (`ReceiveManifest`);
* the first sector erased takes the manifest with it; the rest of the slot is not
  read while there is none;
* the mailbox is reset after every 64th frame: here after any frame, or none;
* `Restarted` stands for a restart of the manager at any moment, and for what the
  boots that follow make of a pending package (`UpdateEngine`): afterwards nothing
  is pending.

## 6. `BootJournal`, `FabricBoot`, `Supervisor`: state and actions

`sector` holds the two metadata sectors, `metadata` and `active` the record in
memory and the sector it came from; `saving` is the flash operation a save does
next.  `context` is read from the switches, `image` says what each file of the card
and the flash core and embedded image of each context would do to the FPGA, `plan`
holds the sources still to be tried, `fabric` the image the FPGA runs and `running`
the one the status names.  `turn` is the place of the main loop
(before a transaction, inside a save, or acting on what the transaction asked for),
`response` the frame the FPGA hears next, `last` the command repeats are compared
with, `armed` what the loop does after one more transaction.

| Code | Model |
| --- | --- |
| `boot_config_init`, `refresh_public_selections` | `Load`, `Newest`, `Normal` |
| `boot_config_set_selection`, `write_record` | `BeginSave`, `EraseSector`, `ProgramSector`, `FinishSave`, `FailSave` |
| `program_context_selection` | `PlanFor`, `Fallbacks`, then `Discover`, `TryNext`, `Exhausted` |
| `program_fpga_from_sd_card`, `find_wildbits_image` | `Discovered`, `Found` |
| `manager_sd_mount` | `MountResult` |
| `main`: start, turn of the loop | `StartBoot` (`Start`), `Idle`, `Reconfigure`, `Restart` |
| `supervisor_service_once`, `process_request` | `Exchange`: `Missed`, `Poll`, `Repeat`, or `Obey`: `Refuse`, `Execute`, `Save`, `Remove` |
| SET_SELECTION | `Save` (`StartSave`), then `WriteSave`, `EndSave` |
| DELETE_SD_IMAGE, CLEAR_FLASH | `Remove`: `RemoveFails`, `RemoveUnselected`, or `RemoveSelected`, which goes on like a save of automatic discovery |
| `finish_upload` and what else transfers images | `Upload` (`ChangeImages`) |
| `reset_hold_timer_callback` | `HoldReset` |
| power switch | `PowerLoss` |

`saved`, `issued` and `runs` are history: the choices each context may have saved,
from what the K2 was told (the one choice of an acknowledged SET_SELECTION; after an
acknowledged removal all but the one that named what was removed; any, once a save
has begun to write), the commands sent, and how often each was executed.

Abstractions:

* a choice is a model value, not a path; `Home`, `Class` and `Rank` give what
  discovery reads of a name.  A record is valid as a whole or not (its CRC is
  taken to detect what is torn);
* a source is absent, refused before PROGRAM_B, broken after it, or good: the
  inspection of gzip headers, decompression, the handshake pins and the boot log
  ring come down to which of the four;
* a restart that follows RESET held down and one that was requested leave the FPGA
  as it was until PROGRAM_B; power loss clears it;
* the labels of the fixed flash slots (`boot_config.cpp:241-295`), which the core
  pool replaced, are left out, and so are the commands that only report;
* whether a session is open, which makes the manager refuse to remove an image, to
  reconfigure and to restart, is left open at each command (`Obey`); the sessions are
  `ImageLibrary`'s;
* frames of a wrong version or length, whose error response overwrites the
  prepared one, are left out;
* a record is found rotten when it is read, at a start (`Decay`);
* `Upload` stands for the commands that bring new images; it changes files of the card
  at will, but neither removes a flash core nor touches an embedded image.  A removal
  that fails may have taken effect (`RemoveFails`);
* `SavedRecords` gives what an earlier session may have left in one sector.

Taken from outside the manager: the FPGA sends a command again with its number
until the response with that number arrives, and POLLs otherwise; PROGRAM_B resets
its counter; a transaction the manager hears whole is one whose response the FPGA
has got; a program on the K2 sends commands only after a POLL has got through.  The
last is the time the K2 takes to start: without it a command numbered 1 could meet
`last` of the configuration before.

## 7. `ImageLibrary`: state and actions

`dir` says which copy of an image each name on the card holds (destination,
temporary, backup, and for a raw one the compressed image beside it), `whole` which
copies are complete.  `upload`, `copy`, `source`, `read` and `firmware` are the
sessions in memory; `call` is the FatFs call the command under way makes next.

| Code | Model |
| --- | --- |
| `begin_upload` | `BeginUpload`, `ClearTemp`, `Create` |
| `write_upload` | `Data` |
| `finish_named_sd_upload`, `finish_sd_upload` | `Sync`, `ClearBackup`, `Keep`, `Publish`, `Restore`, `DropBackup`, `DropCompressed` |
| IMAGE_ABORT, `abort_upload` | `Abort`, `AbortUpload` |
| `delete_catalog_sd_image` | `Delete`, `Deselect` |
| SET_SELECTION | `Select` |
| `begin_incremental_sd_to_flash_copy` and its steps | `BeginCopy`, `CopyErase`, `CopyWrite`, `StoreCopy`, `StaleStep` |
| READ_SD_BEGIN, READ_SD_END | `BeginRead`, `EndRead` |
| `rebuild_catalog`, CATALOG_BEGIN | `Scan`, `Catalogue` |
| FIRMWARE_BEGIN and the end of its session | `BeginFirmware`, `EndFirmware` |
| power switch, RESTART, RESET | `PowerLoss` |

`StaleStep` is a step after IMAGE_ABORT (or IMAGE_END) ended the upload of a copy
that was finalizing: `finish_upload` then meets whatever upload there is.

Abstractions:

* a call of FatFs succeeds or fails as a whole, and power is lost between calls.  A
  rename moves one directory entry at once; FatFs itself marks a critical section
  there (`ff.c:5186`, `ff.c:5212`), a loss inside which can leave both names or a
  lost chain;
* the contents are a copy's identity; the size and CRC of `IMAGE_END` tell a whole
  upload from any other.  The K2 sends DATA for the upload it began;
* COPY_SD_TO_FLASH, one long call, is the same sequence as the incremental copy
  with nothing in between; the flash side of a copy is `CoreStore`'s;
* RESTART and RESET count as `PowerLoss`: they clear the same memory;
* `MaxTroubles` counts failing calls and losses of power together.

## 8. Runs

| Run | Question | Instance |
| --- | --- | --- |
| `update_core` | Does power loss alone ever cost the device its build, its backup or its journal?  Does an update end? | three builds of one and two payload units, one of them without the pool (ABI 1), one older; sequence numbers modulo 4; fairness |
| `update_damage` | What do a rotten sector and a failed operation cost? | two builds, one rotten sector, one failed operation |
| `update_doc_trial` | Is a candidate always tried before it is rolled back, as the manual says? | violated |
| `update_doc_staging` | Is staging used when the other slots are lost, as the manual says? | violated |
| `pool_core` | Do power loss and failed operations in migration, upload or deletion ever damage a generation of the map?  Does the pool behave as a table of cores? | two contexts, two cores of one and two blocks, three blocks, slots of one, one failed operation |
| `pool_damage` | Does a rotten record lead to a write on live blocks, or disable the pool for another reason? | four blocks, slots of two, one rotten record |
| `transfer_core` | Is what a program reports true, and is nothing else ever stored, though replies are lost, late or old, or flash operations fail?  Do sender and receiver of a package stay in step?  Does a transfer end? | a core of four units, packages of four and of two with a manifest of one, frames of two, pages of three, two slots, one staging sector, two tries; fairness |
| `transfer_doc_resend` | Is a committed core what was sent, also if a frame is sent again after a failed page? | violated |
| `supervisor_core` | Is a command executed once and answered for itself?  Is an acknowledged choice durable, also beside removals, and what boots?  Is a recovery context ever dark?  Does a program wait for ever? | a context with and one without the embedded image, an image on the card for each, two worlds of sources, the choice of a removed file saved before, six commands (a save, both removals, three reconfigurations and restarts), two sent, sequence numbers modulo 4, one rotten record, one failed operation; fairness |
| `supervisor_doc_ack` | Is RECONFIGURE answered before the FPGA is stopped, as the comment says? | violated |
| `library_core` | Do the sessions exclude one another?  Does an image on the card survive its replacement? | a file uploaded by name and a raw one, two uploads, two scans, two failing calls or losses of power |
| `library_doc_replace` | Does an interrupted upload keep the destination, as the manual says? | violated |

The safety properties `NeverStranded`, `RollbackKept`, `ReadyMeansPending`,
`JournalAtomic`, `UpdateOrder` and `ActiveGuarded` of `UpdateEngine` are stated under `Sound`, no rot and no fault so far; `StartsOnlyComplete`,
`UsbMeansBackupLost` and `InstalledIsRunning` without it.  `MemoryIsDurable`,
`AckMeansSaved` and `SavedChoiceBoots` are stated while no record has rotted, with
failed operations; the rest of `Supervisor` without a condition.

Bounds.  Two payload units are the fewest that tell "the first unit written" from
"all of them"; three builds allow an update of an update, with a candidate that
is neither the active nor the backup build.  `SeqMod = 4` is the smallest width
in which the signed comparison is meaningful, and makes the number wrap within
one update (a real one wraps after 2^32 records).  Power may fail any number of
times, in `ImageLibrary` excepted.  `MaxDamage` and `MaxFaults` count the rotten
sectors and failed operations of a behaviour.  The pool needs two contexts, so that
replacing one image can threaten another, a core of two blocks, so that a block list
can be fragmented and half erased, and in `pool_core` fewer blocks than two
generations of both cores would take, so that an upload can find the pool full;
`pool_damage` has room for both.  The transfers need frames that end within a page
and a last page that is short, two slots, so that an interrupted session can be for
another slot with the same size and CRC, two packages, so that one can follow
another that was broken off or is pending, a manifest that is not a multiple of the
frame, and two tries, the fewest that repeat a command (the code has eight).  The service needs two commands, so that the
second can be taken for a repeat of the first and can remove what the first has
saved, the two kinds of context, and sources that fail before and after PROGRAM_B.  The library needs two uploads, so that one
can replace the other's file or take its place while a copy is finalizing.  One
trouble is what the code withstands: with two, a restore that fails after a rename
that failed, or a second loss of power, the next upload of the same name removes
the last copy.  `NothingLost` therefore says `troubles <= 1`; the instance allows two,
so that its other properties are seen to hold behind the second.  No counter is unbounded, so there is no state constraint.

Fairness.  `WF(Progress)` of `UpdateEngine`: the loader is a straight line without
waiting; a started commit returns; a trial that never confirms stops feeding the
watchdog (`firmware_trial.cpp:27-53`), so its reset is part of `Progress`.
`WF(PowerSettles)`: power loss stops some day; without it no update can end.
Nothing is assumed of the K2: `InstallResolves` and `PendingProcessed` hold
though nobody sends a command.  `WF(SendCore \/ StageFirmware)` of `FirmwareTransfer`: the
K2 runs one of two programs, and every wait for the mailbox has a timeout;
`WF(ServiceStep)`: the manager's loop takes its step before each transaction.  A query of the waiting program that stays
unanswered, and would end the wait, is left out of the fairness.  In
`Supervisor` weak fairness of the manager's own steps (a loop that never blocks) and
strong fairness of `Exchange(TRUE, TRUE)`: of the transactions the manager keeps
offering not all are missed.  Power may be lost for ever there; a request then dies
with the configuration it was sent from.

`CHECK_DEADLOCK FALSE` in the two runs of `UpdateEngine` with rotten sectors: in USB
recovery the device waits for its user, and nothing in the model leaves that state
once power no longer fails.

## 9. Findings

* `update_doc_trial`: the manual (`docs/rp2040-firmware-updates.md:360`) says
  that after power loss while committing TRIAL the installation repeats or the
  candidate is trialled.  If the record became durable before power failed, the
  next boot finds TRIAL and rolls back: the candidate never ran.
* `update_doc_staging`: the manual (line 365) promises valid staging as the last
  resort when active and rollback are both invalid.  Only the branches through
  `recover_without_update` do that; with BACKUP_READY or TRIAL in the journal the
  engine returns to USB recovery although staging is valid.
* `transfer_doc_resend`: `release/README.md:238` says that programming verifies
  every flash page and commits the header last, and both hosts take the byte count
  of the supervisor as authoritative (`k2/k2uploader.asm:375`).  When a page fails,
  `write_upload` returns with the page buffer full and the byte count and CRC as
  they were before the frame.  A host that is told of the error aborts; one that
  read an older reply finds the count unchanged and sends the frame again, and the
  bytes that had filled the page go to flash twice while size and CRC count them
  once.  It takes two faults at once, a failed page and an old reply; with either
  alone, `transfer_core` finds nothing.
* `supervisor_doc_ack`: the comment at `fpga_mgr.cpp:586-588` says that waiting one
  transaction guarantees the acknowledgement of RECONFIGURE.  What the loop waits for
  is the next return of `supervisor_service_once`, which returns false for a
  transaction that timed out (`supervisor_service.cpp:2126-2131`) as for one that
  asks for nothing.  If the next frame is missed, the FPGA is reprogrammed while the
  program still waits.  The command itself is carried out once (`AtMostOnce`).
* `library_doc_replace`: `README.md:127-128` says that an interrupted copy does not
  replace the previous destination, and `k2/README.md:119-120` that the replacement
  is atomic.  Between the two renames of `finish_named_sd_upload` (lines 934 and 939)
  no file has the destination's name, and no start repairs that: the image is kept
  only under a hidden name (`NothingLost`), and the boot falls back to flash.

Observed while modelling, without a run:

* the first IMAGE_ABORT of the uploader (`k2/k2uploader.asm:286`) is not confirmed;
  lost and answered by an older reply, it leaves a session for another slot, see the
  note on `faults.stale` in section 5;
* if the answer to FIRMWARE_END is lost, the program reports a failure while the
  package is sealed and pending (the abort that follows is refused): the next start
  installs it, and the next "U" offers it;
* `firmware_recover_data_position` accepts only the state PAYLOAD, so that a frame of
  the manifest sector whose answer is lost ends the transfer, while
  `docs/rp2040-firmware-updates.md:306-307` has a client that lost synchronization
  continue at the offset that FW_INFO returns;
* a `finish` that fails after the manifest is in flash leaves `manifest_committed_`
  set: begin and abort are refused until the manager restarts;
* the deletion of a file compares names with `strcmp` while FatFs ignores case, so a
  selection spelt otherwise dangles; it falls back at the next start;
* a compressed image that cannot be removed after a raw upload stays, and automatic
  discovery prefers it to the raw one;
* discovery does not skip hidden files, so that the hidden backup or temporary of an
  image named `Wildbits...` is a candidate, while `README.md:121` speaks of visible
  ones.

## 10. Proofs

Every theorem is for any values of the constants within the named assumptions, which
TLC evaluates on the runs.  The bounds of the instances are constants there, and no
theorem fixes one, `MaxDamage` in `ImplementsCorePool` excepted.

### The update engine

Assumptions: `ImagesAssumption`, `SizeAssumption`, `SeqAssumption` (a sequence
width of at least 4) and `BudgetAssumption`.

`TypeCorrect` proves types together with `ControlOK`, the types that depend on
the control point: a copy has a source image, positions stay within it, an
application that runs is an image.

`NeverStranded` and the rest are not inductive: that the loader finds an image
depends on what the interrupted operation had promised.  `IInv` says it for every
control point.

* `JournalOK`: readable sectors hold consecutive numbers, so the newer one is
  defined across the wrap;
* `BackupOK`: what each journal state promises the next boot: CONFIRMED and
  PENDING a whole accepted active image, BACKUP_READY and TRIAL a whole accepted
  rollback image, BACKUP_READY also a whole candidate;
* `CopyOK`: a copy is one of three (backup, installation, rollback), each in its
  journal state, and its position tells which units are erased and written;
* `CommitOK`: a record is committed only when its promise already holds;
* `RunningOK`: what runs is what the active slot holds.

`InvariantHolds` has one lemma per action.  The state theorems follow from
`IInv`; `JournalCommitAtomic`, `UpdateOrderKept` and `ActiveSlotGuarded` from
`IInv` and a case split on the step.

`IInv` says nothing once a cell has rotted or an operation has failed.  `WornInv`
is inductive without that condition, and the theorems `OnlyCompleteStarts`,
`UsbOnlyWithoutBackup` and `OnlyRunningInstalls` follow from it:

* `Intact`: over a manifest each unit of the payload is the one the manifest names,
  or rotten; that is what erasing the manifest first and writing it last is for, and
  the only fact about a slot that survives everything;
* `CopyHolds`: nothing rots while the loader copies, so that the image it hashed is
  the one it copies, and its position is as in `CopyOK`;
* `LoaderOK`, `ReceiverOK`: what was validated before a commit, an installation or a
  start, and that the receiver has no manifest in place while it writes;
* `StartedOK`: what runs was compatible with the pool, and its slot has held nothing
  else since; a confirmation is of the image that runs, tried and validated;
* `UsbMeansBackupLost` itself, which the step into USB recovery establishes and no
  later step disturbs.

`ReadyIsPending` needs `MarkedOK` beside `IInv`: from the record that marks the
candidate to the restart, staging holds what was received.  `UpdateInvariant` joins
the three, and is what `update_core` checks.

### The core pool

Assumptions: `CoresAssumption`, `PoolAssumption`, `LegacyAssumption` (fixed slots
lie in the pool and are disjoint) and `SectorAssumption`.

`GenerationsIntact` is not inductive: that the blocks of an upload are in neither
generation follows from the checkpoint taken when it began.  `CoreInv` has

* `StageOK`: what stage, step, call and session go together;
* `FlashOK`: readable records are sane (no block twice, every core whole), two
  readable records have consecutive numbers, and unless one has rotted there is
  one whenever the guard is set;
* `MemoryOK`: `record` is the durable record or the one that will replace it, and
  when the guard is due both durable records equal it: this is what
  `prepare_mutation` is for;
* `UploadOK`: the blocks of a session are listed neither in memory nor in a
  readable record, and what is written of them is the core's data.

`CoreInvariant` has one lemma per action; the flash operations, complete or cut
short, share the lemmas `TargetLost`, `TargetWritten`, `GuardSet` and
`BlockChanged`.  `ImplementsCorePool` maps the table to what a boot would load
now and shows that it changes only in `PersistProgram` of stage `update`, also
when that operation is reported as failed or power is lost behind it.  It assumes
`MaxDamage = 0`: a record that rots takes the newest generation with it.

### Journal of choices, boot, service

Assumptions: `JournalAssumption` and `RecordAssumption`; `BootAssumption` and
`OrderAssumption` (of any names one comes last, which holds of finitely many);
`SupervisorAssumption` and `NoneAssumption`.

The proofs follow the modules.  `JournalInv` (`JournalTypes`, `Successive`,
`ActiveAgrees`, `OtherPrecedes`, `OtherSaved`, `FreshOnly`, `SaveIsOne`,
`MemoryNormal`) says that memory is the newest record unless a save is under way,
that the sector to be written holds the record before it or none, and that the
record a save will write differs in one choice.  `BootInv` (`BootTypes`,
`GoldenLast`, `NeverDark`, `StatusNames`) adds that the plan of a recovery context
ends in the embedded image until an image is accepted.  `MailInv` (`MailTypes`,
`Numbered`, `Counted`, `Answered`, `SaveIsFrames`, `AckMeansSaved`, `SavedFirst`)
ties the numbers in request, response and `last` to the commands issued:
`AtMostOnce` follows because a command in flight that was executed is the one in
`last` until its response is heard or the FPGA starts anew.  `Answered` also says
that while a response "ok" waits to be heard, what the next start would load is one of
the choices its command leaves (`Leaves`): that carries `AckMeansSaved` over a lost
response, for a removal as for a save.  `Awake` says that the choices are loaded
whenever the manager runs; a removal compares with them.  `SupervisorInv` joins the
four.

`SupervisorInvariant` lifts the lemmas of the layers below, as each action of the
service is an action of a layer beside which the others stand still.
`ServiceKeepsChoices` maps the table of `BootChoices` to what the next start would
load, as an instance of `KeepsChoices`.  `SavedChoiceIsRun` is proved from
`SavedFirst`: in a start nothing precedes the saved choice in the plan.

### The transfers

Assumptions: `SizeAssumption` and `PackageAssumption`, with at least one sector to
erase (`firmware_staging.cpp` erases the manifest's sector before the payload), and
`FaultsApart` as a hypothesis of each theorem.  `FaultsApart` says two things of
`Faults`: the first IMAGE_ABORT is not answered by an older reply (section 5), and no
behaviour has both failing pages and older replies to data, which is
`transfer_doc_resend`, where `StoredWhole` is false.  The instance of `transfer_core`
satisfies it, and TLC evaluates it there.

What a program reports depends on what it could not see.  `TransferInv` says for every
step of either program how far the other side may be from what it knows:

* `UploaderOK`, `ProgramOK`: the counters, where the program is;
* `SessionOK`: from the abort on, an active session is that of this transfer, and what
  it counts is in flash or in the page buffer, in order;
* `StatusOK`: between begin and its confirmation the status register shows a session
  only if there is one; between END and its confirmation a session that is gone has
  stored the core.  Without it a second END that fails could not be counted as success;
* `ManagerOK`: what receiver, staging slot and journal hold in each receiver state:
  flash and page are the payload counted so far, READY is a whole package and pending.
  It is a predicate of three values, so that each command of the receiver has one
  lemma for its outcome, whatever the K2 reads of it;
* `PrefixOK`: the receiver has what was acknowledged, or, only while the program asks
  after a frame in doubt, that frame too.  `ReceiverInStep` follows;
* `OfferOK`: a package offered is READY, one reported as staged is pending.

`TransferInvariantHolds` has one lemma per command on each side: what the supervisor
makes of it, and what the program makes of the reply.  That the K2 runs one
program at a time is part of `TransferTypes`.  `OnlyWantedStored` is a step property: a slot
changes only in END, in a session which `SessionOK` says is the one that was wanted.
The lemmas on sequences (`PageFilled`, `PageTurned`, `LastPage`, `PayloadGrows`) say
that frames cut at page ends, and the last page filled up, are the data in order, for
any frame and page size.

### The library

Assumptions: `LibraryAssumption` and `CopiesAssumption` (a file's first image is not
one of the uploads).
`Exclusive` and `NothingLost` are not inductive: who may begin depends on the call
under way, and what a second failure destroys on what the first has left.
`LibraryInv` has

* `SessionsAgree`: who holds the upload at each call, and that the source of a copy
  is open exactly while it is erased or written; with `Exclusive` itself;
* `CardSound`: no copy has two names, and what took the destination's or the
  backup's name is whole;
* `UploadOnCard`: where the upload under way is: under the temporary's name until
  the second rename, then under the destination's;
* `AckAgrees`: an acknowledgement is withdrawn by the upload that replaces it;
* `KeptThroughOne`: before the first trouble a backup exists only between the two
  renames; after it, a published image is the destination, the backup, or the
  temporary that is about to be renamed;
* `PagesAgree`: the K2 knows no generation of the catalog that is still to come.

`LibraryInvariant` has one lemma per call.

### Model-checked only

Liveness (`InstallResolves`, `PendingProcessed`, `TransfersEnd`, `RequestsEnd`):
fairness is beyond the prover used.  Every other property of a passing run is a
theorem.

## 11. Not modelled

* Vendored code: miniz, the interior of FatFs (`ff.c` and the 15,000 lines of
  character tables in `ffunicode.c`), the SD card driver.  Their callers are modelled
  against what they promise.
* PIO programs, pins, board and linker files: no state, or state of the hardware.
* Decompression, gzip inspection and the programming handshake: a source is refused,
  breaks or loads.  The boot log is a ring that only the K2's display reads.
* The labels of the fixed flash slots and the commands that only report.
* Offsets and retried frames of catalog reads.
* The menus, scans and screens of the K2 programs.
* Packaging: offline and sequential.  The factory journal it writes is `Init` of
  `UpdateEngine`.

Three quarters of the implementation is vendored code and its tables, and much of the
rest is data formats, user interface and hardware access, so that the modelled
lines are a small share of it.  Of the manager's own operations on flash and card only
the labels above have no action (COPY_SD_TO_FLASH does in one transaction what the
incremental copy of `ImageLibrary` does in several).  Of those on the boot choices, the reset by a
removal is an action of `Supervisor` with its save and that save's failure; in
`ImageLibrary`, which looks at the files, it is one variable.
