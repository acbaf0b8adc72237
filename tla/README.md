# A verified model of setup-script

setup-script is a terminal program (C, ncurses) that lets an operator describe an Arch Linux
installation, the *builder*, and that writes a self-contained Bash program, the *installer*, which
carries it out on a Live system. This directory models both in TLA+, checks the models with TLC and
proves their central properties with TLAPS. Paths below are relative to the repository (`src/src/...`
is the repository's `src/` directory, `T/` stands for `src/src/generator/templates/`).

## 1. The system

| Component | State it keeps | Operations | How it interacts |
|---|---|---|---|
| Plan model (`model/storage.c`, `model.h`) | the planned disks and their partition records | assign a purpose, an action, a file system, a mount profile; take over an existing table; guided layouts; compare with the inventory | changed by the Storage page, read by validation and generator |
| Validation (`model/validation.c`) | none | one verdict on a whole plan | last gate before a script is written |
| Storage page (`ui/pages/storage.c`) | selection, identity flag, dirty flag | one handler per key, each with its dialogs; cfdisk as a child | changes plan, inventory and flags |
| Start (`main.c`) | paths of plan, script and `packages.json` | find, refuse or replace the package configuration; compare the paths; load the plan; detect; session or `-g` | hands plan, packages and inventory to the session |
| Builder session (`ui/ui.c`, `ui/pages/`, `model/json.c`) | plan, plan file, script, dirty flag, loop | settings rows, save, generate, run, quit, signals | saves through `atomic_write_file`, executes the script |
| Dialogs (`ui/dialogs.c`) | one modal dialog | list, choice, text field, wrapped confirmation | called by the pages, return an answer or nothing |
| Detection (`detector/storage.c`) | the inventory: fixed numbers of disks and partitions | one captured lsblk, one traversal of its trees | read by the Storage page |
| Child processes (`common/process.c`) | a child, a pipe, a growing buffer | run and capture to the end | called by the detection |
| Package configuration (`packages.c`) | groups of names | settings to groups, load, save | previews, emitted arrays |
| Atomic files (`common/atomic_file.c`) | a temporary file per call | save | plan, package configuration and script |
| Generator (`generator/`) | none | arrays of the plan, then fixed templates | its arrays are the constants of the installer |
| Installer: storage (`T/finish-main.sh`, `T/runtime-*`) | partition tables, file systems, mounts, swap areas | check, confirm, erase, partition, format, mount | everything it acquires is recorded for cleanup |
| Installer: package source | Live `pacman.conf` and mirror list, nginx, mirror mount | replace, back up, start, poll, stop, restore | pacman and pacstrap read the host files |
| Installer: boot chain | eleven files on the EFI partition, firmware entry, key snapshot | sign, stage, rename, register | |
| Installer: cleanup (`T/runtime-cleanup.sh`, `T/runtime-state.sh`) | the record of what is held | EXIT, INT, TERM and HUP traps; one release per resource | runs after any command of the others |
| Chroot script (`T/chroot-*`) | the target: packages, initramfs, loader entries, units, account, mirrors | eleven functions in a row under `set -e` | run by the installer after the base system |
| Drawing, `ui/layout.c`, tests | see section 8 | | not modelled |

Hard behaviour: a signal or failure after any command of the installer; SIGKILL and a second start; a
child (nginx) that dies on its own; other programs that mount, enable swap or change a disk meanwhile;
a check made long before its use; a step of cleanup that fails itself; sequences of keys that leave a
record, flag or selection inconsistent; a save that fails half-way or runs beside another; sizes that
are counted in bytes here and MiB there; a child and its parent on two ends of a full pipe; settings that
pages, package resolution and templates each map to packages on their own; two paths that name one file.
`PROJECT.json` lists them as hazards with their lines.

## 2. Modules

| Module | Models | Remarks |
|---|---|---|
| `InstallerState` | variables, plans, types, frames of the installer | `Emitted` says what a plan in a script looks like |
| `InstallerPackages` | host pacman files, mirror, nginx, package steps | one action per command that changes state |
| `InstallerStorage` | identity checks, confirmation, partitioning, formatting, mounting | formatting loops over records with `idx` |
| `InstallerBoot` | chroot step, signing and staged placement of boot files, firmware | a staged file is made, recorded, filled, renamed |
| `InstallerCleanup` | every release of `cleanup`, in order | `When(guard, Attempt(ok, failed), skipped)` is the `if ...; then ... || cleanup_failed=1` of the script |
| `Installer` | composition with aborts, signals, kills, restarts and the environment; the properties | `pc` is the command to run next, `idx` the loop index |
| `PartitionPlan` | records, disks and the pure functions of `model/storage.c`; the rules of `validate_plan` | no variables |
| `StoragePage` | keys of the Storage page over a changing world of devices | variables: `world`, `inventory`, `disks`, selection, flags |
| `Builder` | the session around the page: files, generation, execution, restarts | EXTENDS `StoragePage` |
| `DiskLayout` | sizes of guided layouts, in sectors, from plan to verification | no variables |
| `Partitioning` | plan, emitted arrays, rebuilding and verification of disks | EXTENDS `DiskLayout` |
| `AtomicCell` | abstract: a file is a cell that is replaced at one moment or not | the promise of `atomic_file.h` |
| `AtomicFile` | `atomic_write_file` with several processes, failures, kills, power failures | implements `AtomicCell` through `CellValue`, `CallState` |
| `CapturedProcess` | `run_capture_stdout`: parent, child, pipe, every failure | also a specification of its own, with calls one after the other |
| `LsblkInventory` | `detect_hardware`'s traversal, and a reference reading of the same trees | no variables |
| `PlanFile` | version, schema, integer widths of a plan file; load and save | no variables |
| `PackageGroups` | settings to groups: of the early resolution, of the previews, of the functions of the script | no variables |
| `Dialogs` | the four dialogs: what a key does, what is in view; the wrapping of warnings | a dialog is a record |
| `Startup` | `main` up to the session or the script | EXTENDS the five it calls |
| `SettingsPages` | rows of the settings, hardware, software, identity and output pages, F2, F10 | EXTENDS `Startup`, `Dialogs` |
| `TargetSystem` | package source, early resolution, base installation, each function of the chroot script | reads only the script that was written |
| `Program` | composition of the four above; the properties | |
| `InstallerProofs` | theorems of `Installer`: types, kept data, authorized writes; then everything that cleanup, host files and boot files need | two layers, the second on the first |
| `StoragePageProofs`, `BuilderProofs` | theorems of `StoragePage` and of the session around it | the second EXTENDS the first |
| `Recursions` | lemmas only: induction over numbers and over the height of a tree, existence of recursive functions, elements of joined sequences | used by the two below |
| `PartitioningProofs` | theorems of `DiskLayout` and `Partitioning` | EXTENDS `Recursions` |
| `AtomicFileProofs` | theorems of `AtomicFile` and its refinement of `AtomicCell` | |
| `StartupProofs`, `ProgramProofs` | theorems of `CapturedProcess`, `LsblkInventory`, `PackageGroups`, `PlanFile`; then of `Dialogs` and `Program` | the first EXTENDS `Recursions`, the second the first |
| `MC...` | constants for TLC | |

The parts meet where one hands data to the next: `ScriptFitsInstaller` (a property of `Builder`, about the records of
a plan) and `ListedInMountOrder` (of `Partitioning`, about the order of the arrays) are together
what `Emitted` assumes in `InstallerState`; `ValidatedPlanIsBuilt` justifies that the installer's
partitioning of a verified disk succeeds or fails as a unit; `IsAtomicCell` justifies that `Builder`
replaces the plan file and the script in one step. `InventoryIsWhole` is about the inventory that `StoragePage`
starts from, `InstalledIsShownAndResolved` relates the first key of the operator to the last pacman of the
chroot script. Two pairs of modules look at the same code from two sides: `StoragePage` and
`Builder` follow the storage page with the session around it, `SettingsPages` all other pages; `Installer`
follows what the script holds and must give back, `TargetSystem` what it leaves in the target.

### How the code was abstracted

*Installer.* Bash runs a trap between two simple commands, so one command is one action, and
`Abort` stands for whatever ends the main program there: a declined prompt, a failed check, a failing
command under `set -e`, INT, TERM, HUP. `Kill` is SIGKILL, or a second signal after cleanup has reset
its traps. `Rerun` starts the script again. Mounts, swap areas, tables and contents of partitions are
what the kernel has, the upper-case variables are the script's own (`HOST_PACMAN_CHANGED`,
`SWAPS_TO_DISABLE`, `INSTALL_SUCCEEDED`, ...); a copy that fails may leave a torn file; `umount -R` may
stop half-way. Whether `wait` of a child that was reaped before gives its status is left open. The
environment: `ForeignMount`, one at a time, and on a private mountpoint only while the script has claimed
it; `ForeignSwapon`; `NginxCrashes`; `DiskDrift`, until the recheck after the confirmation, and
`KeepDrift`, until the checks before formatting, because what is changed after the last check cannot be
noticed by any program. `raced` collects mounts that arrived after the last look at a mountpoint; the
properties exclude them, and the hazard list names that window. PID reuse, and a foreign mount that
covers /mnt between two mounts of the script, are not modelled.

*Builder.* Dialogs are modal: a key with all its answers is one action, and a dialog that is left
changes nothing. A disk is recognised by size, serial number and model, where a serial number or a model the plan does
not know matches any (`SameIdentity`). The identity of a partition (start, size, PARTUUID) is one value: that a plan
without a PARTUUID or type matches any is left out, because the validator refuses such a plan. Texts of the settings
pages are one value with a verdict. The read-only flag stored in the plan, the confirmation for removable disks, and
the non-interactive `-g`, which compares no devices, are left out of `Builder`. `Offered...` constants bound the answers.

*Program.* The storage part of plan and inventory is handed to `StoragePage`: `Program` looks at the inventory
when it is made and then forgets it. The cursor is left out, so that a row's key is possible at any time; the
dialogs without consequence (lists, choices, text fields) open in a session without changes only, which loses
nothing because no key remembers that a dialog was open. A plan file is one representative of each kind of
value, and every kind is read and written by its own operator, so that one kind cannot hide another. Files
outside `SessionFiles` are followed until they are loaded or refused; `PlanFiles` holds every boundary of every kind. A
package group is in the defaults, emptied, or names a package no repository has. `Obstructed`
says what makes a step of the script fail *for certain*, whatever network and operator do, and `Refuse` is
that failure; `Fail` is any other and may come at any step. The three early histories (`seen`, `overwritten`,
`answer`) are dropped when the script starts. That bash is executed from the output page or by hand after `-g`
makes no difference to the script.

*Captured child.* Output is counted in chunks. The child is scheduled and ends by itself; what it does wrong, and
what fails in the parent (`Mishaps`), may happen at any time. An interrupted `read` or last `waitpid` is
repeated by the code and is no step; the `waitpid` of the error paths is not, which is `LeaveChild`.

*Layouts.* Sizes are exact, in sectors of 512 bytes. sfdisk is external: it starts at 1 MiB, places
partitions one behind the other, and a partition that takes the rest ends anywhere from the last usable
sector to the alignment boundary before it (`Tails`). GPT types and 4096-byte sectors are left out.

*Files.* The file system is external: rename is atomic, fsync makes the data of a file durable, a
directory becomes durable some time later. A power failure may restore any entry since then and tears
what was not synchronized. unlink of the own temporary file does not fail.

## 3. Properties and runs

| Run | Bounds | Properties | Result |
|---|---|---|---|
| `failures` | 2 disks, 4 partitions, 1 start; a plan with everything but swap, one with swap and the local mirror, one with swap and network mirrors; nginx may crash | `TypeOK`, `OwnedIsRecorded`, `ReleasedOrReported`, `ExitZeroMeansInstalled`, `HostFilesRecoverable`, `HttpUsesOriginalPolicy`, `BootChainWhole`, `CleanupEnds` | hold |
| `actors` | the same disks; 1 start with foreign mounts, for a key snapshot and for a local mirror; 2 starts with drifting devices and foreign swapon, for a kept file system and for a kept swap area | `KeptDataSurvives`, `KeptIsIdentifiedBeforeUse`, `ForeignMountsSpared`, `NothingRemovedThroughMount`, `WritesAreAuthorized` | hold |
| `nginx` | 1 start, local mirror | `NginxAlwaysReaped` | **violated**, finding 1 |
| `rerun` | 2 starts, local mirror | `HttpUsesOriginalPolicy` | **violated**, finding 2 |
| `records` | 1 path; ext4, vfat, F2FS and swap partitions; all purposes, layouts, file systems, profiles | `PageTypeOK`, `RecordsAreSound`, `NoSilentFormat` | hold |
| `disks` | 2 paths, a disk without and one with a serial number, devices that come, go, are exchanged or repartitioned | `FlagCoversDisks`, `SelectionInPlan` | hold |
| `session` | 1 path; a disk whose two vfat partitions with the EFI type, one without a UUID, become boot and root in either order, kept or formatted, or that gets a guided layout; 2 settings of which one is invalid | `BuilderTypeOK`, `CleanMeansSaved`, `InstallsWhatIsShown`, `ScriptFitsInstaller` | hold |
| `stale` | 2 paths | `GeneratedMatchesDevices` | **violated**, finding 3 |
| `layouts` | 1 or 2 disks; eight sizes around the limits, odd sectors; three memory sizes; edited plan files, also with a kept root or two roots | `TypeOK`, `ValidatedPlanIsBuilt`, `ListedInMountOrder` | hold |
| `rootonly` | the same | `AcceptedLayoutIsNotRefused` | **violated**, finding 4 |
| `files` | 2 processes, 2 documents, 3 names, 3 calls, 2 kills, power failures or disturbances | `TypeOK`, `AlwaysWhole`, `NothingLeftBehind`, `SpecialFilesStay`, `IsAtomicCell` | hold |
| `program` | pipe of 2 for 3 chunks, 2 disks of 3 partitions, seven package configurations, seven relations of the two paths, two changes of settings | `ProgramTypeOK`, `InventoryIsWhole`, `PlanIsReadAsWritten`, `PackageFileReplacedOnlyWhenAgreed`, `PlanOutlivesScript`, `InstalledIsShownAndResolved`, `NoLateSurprise`, `FinishedSystemBoots`, `DialogsStayInBounds`, `CallReturns` | hold |

Why the bounds are enough. The installer handles disks and partitions in loops without any memory
from one iteration to the next but the record of what it holds; two disks (one guided, one existing) and four
partitions (formatted root and boot, a kept one, a swap area) give every combination of mode, action
and usage the loops distinguish, and an interruption in and between iterations. In `failures` swap meets the local mirror but not
Secure Boot: the release of a swap area and that of the boot chain share only `cleanup_failed`, which other steps set in both plans. Two starts show
what the first leaves to the second. On the Storage page two disks are needed to remove one of them and
to leave the selection behind; records do not influence each other, so one per disk is enough. Of the two disks of `disks` one has
no serial number, so that it matches whatever disk of its size and model takes its place; the other does not. In `session` the two partitions are what it takes to use a disk as it is,
and each is offered for either purpose: every way to a plan that the validator accepts or refuses for a kept root, a missing UUID or a
purpose given twice is there. The other rules of the validator are met in `records` and, for every plan whatever, in the
proof of `ValidFits`. The
sizes of `layouts` are one sector below, at and above each comparison, and a disk too small for its partition tables. Two processes
show every overlap of two saves; a third name is needed only beside an orphan. Starts and outside actors are
given per plan (`MaxRuns`, `Interference`), so that each plan meets the actors its resources can collide with.

In `program` the child writes one chunk more than the pipe holds (`PipeCapacity` 2, `OutputLength` 3), the least
that makes it block. `AI_MAX_DISKS` 2 and `MaxPartsPerDisk` 3 are reached and exceeded by `MCDeviceTrees`,
57 answers of lsblk with mounts on disks, partitions and stacked devices, before and after the last one stored,
and one array that lsblk lists beneath both of its volumes; the deepest tree has four levels, all that `MaxDepth` 4 allows. `IntMax` 15,
`UintMax` 31, `Int64Max` 63 and `Uint64Max` 127 keep the order of the four widths, and the files hold the values on both sides of
each; `MaxPlanDisks` and `MaxPlanParts` 2 are exceeded by one. `ListPage` 2 with at most 4 options (`MaxChoices`)
and lists of up to `GroupSize` 2 per group are shorter than, equal to and longer than a page; a text of up to 5
characters (`TextSize` 6) is wider than a field of `DialogWidth` 4. The warnings have words as wide as a line and
one wider, blank runs and line feeds at the edge; `DialogLines` 12 is too low for the longest, which then cannot be
confirmed. Settings start from the defaults, a laptop with everything and a virtual machine (`MCSessionFiles`),
and `MaxChanges` 2 keys change them, the least that can switch one feature for another. The loop of groups in the
script has no memory but the set of what is installed, so more keys give no new kind of state.

`CHECK_DEADLOCK FALSE`
where it occurs: the installer ends, the bounded calls end.

Every property has a mutant in `PROJECT.json`: a plausible slip in one definition (a dropped guard, a
flag not reset, a missing fsync, a name shared between processes) that makes TLC find it violated.

*Fairness.* `FairSpec` of `Installer` has weak fairness of the actions of cleanup, which
contains no prompt and no unbounded loop, so Bash runs it to its end; and of the exit of nginx once it
was sent SIGTERM. Nothing is assumed of the main program, which may wait for the operator for ever, nor of
the environment. `CaptureFairness` has weak fairness of the parent inside `run_capture_stdout`, which waits for
nobody but the child, and of the child's own progress: lsblk reads the kernel's tables and ends. A child that
hangs by itself would make the builder wait, and no code of it says otherwise. The mishaps are not fair:
`CallReturns` holds with and without them. Symmetry is used in `files` (processes, documents, names)
and in `disks` (paths), whose properties are all safety properties.

## 4. Findings

1. `NginxAlwaysReaped`. `T/runtime-filesystems.sh:173` says "Record the child before readiness
   polling so cleanup can always reap it". nginx is started at 171-172, `LOCAL_MIRROR_SERVER_RUNNING` is
   set at 175; a signal handled between them leaves nginx running and the mirror mount busy.
2. `HttpUsesOriginalPolicy` with two starts. `T/runtime-filesystems.sh:192` says that "HTTP operations use
   the original policy". After a kill while the temporary policy is in place, the second start takes
   that file for the original (131) and restores it before the HTTP operations (193).
3. `GeneratedMatchesDevices`. `ui/ui.c:68` and `model/storage.c:84` say that the plan is compared with the
   current devices before a script is written. `ui_generate` reads a flag that the partition keys do not
   compute again; records ignored at the time of the comparison were not compared. The identity checks
   of the installer still stand between such a script and the disk.
4. `AcceptedLayoutIsNotRefused`. `model/validation.c:325`: "The root partition must be at least 8 GiB."; a
   root-only disk of exactly 9 GiB passes. `T/runtime-partitioning.sh:28` wants strictly more and stops after
   the confirmation, when guided disks earlier in the list have been erased.

Observations that were met while modelling and proving and that no run is spent on:

- `model/validation.c:252` and after: a data disk of up to 3 MiB passes the validator, but has no room for a partition
  beside the two partition tables and their alignment; sfdisk fails after the confirmation, when the disk has been
  wiped. No real disk is that small; the attempt to prove `ValidatedPlanIsBuilt` for every size found it, and the
  property names it as its second exception.
- `T/runtime-filesystems.sh:131`: a second start on a machine that a kill left unrestored begins with empty records. What
  the first start changed is then nobody's to restore (finding 2 is one effect), so several theorems about host files,
  stage files and the firmware entry are stated for the first start.
- `T/runtime-filesystems.sh:14` says "Recheck both type and UUID immediately before any sibling is
  formatted". The recheck is one iteration of the loop that formats (9-37), and root comes first in
  the arrays: records before the kept one are formatted before it is rechecked. The kept partition itself
  is safe (`KeptDataSurvives`), and nothing is mounted before all kept ones were compared (`KeptAlwaysIdentified`).
- `T/runtime-cleanup.sh:114` says "Disable only swap devices enabled by this installer". A device
  is recorded before `swapon` (`T/runtime-filesystems.sh:82-83`); when somebody else enables it in between and
  `swapon` fails, cleanup finds it active and disables it (126).
- `ui/pages/storage.c:245-251`: when the detection after cfdisk fails or the disk is gone, the old
  assignments stay in the plan, and on a failed detection the old inventory and flag too.
- `ui/pages/storage.c:444` offers "No mount point (use F to choose IGNORE or FORMAT)", but for a
  partition without a regular file system F offers only FORMAT (`model/storage.c:417`).
- `T/finish-main.sh:38`: a complete installation ends as failed when nginx died after its last use,
  because stopping it then reports an error. `ExitZeroMeansInstalled` is one direction.
- `T/chroot-bootloader.sh` names the microcode image of the platform in the loader entries whether or not the
  package of that group was emptied in `packages.json`; `FinishedSystemBoots` allows for it.
- `model/json.c:369` reads the partition number, which the schema admits up to `UINT_MAX`, with the 32 bits of
  an int: such a file is accepted and saved with another number. A size beyond `UINT64_MAX` passes the signed check saturated and is
  saved as `UINT64_MAX`. `PlanIsReadAsWritten` is stated for numbers and sizes a device can have.
- `detector/storage.c:71`: lsblk lists a device that stands on two others beneath both, so a partition of an array of two
  partitions of one disk takes two places of the fixed number of partitions; the last of a disk can then be cut although there are
  fewer partitions than places. `Faithful` speaks of places for this reason: nothing is missing while one is free, and use is never cut.
- `main.c:57`: `packages.json` that appears between the lstat that found none and the save of the defaults is
  replaced without a question, and one that is repaired after it was refused is replaced by the answer given before (`EditConfig`).
- `main.c:108`: the comparison by real path does not recognise one directory that is bind-mounted in two places while
  the file does not exist; writing the script then replaces the plan (`PlanOutlivesScript` leaves that out).
- A user name that another account of the target has passes `valid_username` (`model/system.c:65`) and makes
  useradd fail after everything is installed; emptying a group of `packages.json` that a selected feature enables
  a unit from has the same effect. `NoLateSurprise` names both.
- `common/process.c:104`: the waitpid of the error paths is not repeated after a signal and leaves the child behind.

## 5. Proofs

All theorems hold for every value of the constants under the named assumptions of the modules.

| Module | Theorems | Argument |
|---|---|---|
| `InstallerProofs`, first layer | `TypeCorrect`, `KeptDataAlwaysSurvives`, `WritesAlwaysAuthorized` | `IInv == TypeOK /\ IndexInRange /\ BackupsMade /\ FormatsOnlyPlanned /\ WritesLicensed /\ KeptDataSurvives` is inductive |
| `InstallerProofs`, second layer | `OwnedAlwaysRecorded`, `HostFilesAlwaysRecoverable`, `HttpAlwaysVerified`, `BootChainAlwaysWhole`, `KeptAlwaysIdentified`, `CleanupReleasesOrReports`, `ExitZeroAlwaysMeansInstalled`, `ForeignMountsAlwaysSpared`, `NothingEverRemovedThroughMount` | `SafetyInv == IInv /\ MountInv /\ SwapInv /\ HostInv /\ BootInv /\ KeepInv /\ DoneInv /\ ReleaseInv` |
| `StoragePageProofs` | `PageTypeCorrect`, `RecordsAlwaysSound`, `FlagAlwaysCoversDisks`, `SelectionAlwaysInPlan`, `NeverFormatsSilently` | `PageInv`: types, every disk `GoodDisk` (its layout and records are sound), the flag covers the disks, the selection is in the plan |
| `BuilderProofs` | `ValidFits`; `BuilderTypeCorrect`, `CleanAlwaysMeansSaved`, `AlwaysInstallsWhatIsShown`, `ScriptAlwaysFitsInstaller` | `BuilderInv`: `PageInv`, files hold good plans, without the mark memory and file agree |
| `PartitioningProofs` | `LayoutTypeCorrect`, `ListIsInMountOrder`, `AcceptedPlansAreBuilt`, `LayoutsAreAsComputed` | `LayoutInv == StateInv /\ ShapeInv /\ ListInv /\ RebuiltInv /\ ValidatedPlanIsBuilt`; induction over records and positions |
| `AtomicFileProofs` | `FileTypeCorrect`, `FileAlwaysWhole`, `FileLeavesNothing`, `FileSparesSpecial`, `FileIsAtomicCell` | `FileInv == TypeOK /\ OwnTemps /\ TargetSurvives /\ AlwaysWhole`; every step maps to a step or a stutter of `AtomicCell` |
| `StartupProofs` | `CaptureTypeCorrect`, `SuccessIsWhole`; `PreviewsShowWhatIsRequired`, `ResolvedIsInstalled`; `SavedAsLoaded` | `CaptureInv == CaptureTypeOK /\ WrittenToTheEnd /\ Drained /\ Told`; equality of sets, row by row and desktop by desktop; saturation loses nothing that the schema accepts; the traversal of a tree, by the height of the tree (`DetectedIsWhole`) |
| `ProgramProofs` | `ProgramTypeCorrect`, `AcceptedPlansAreKept`, `NoConfigurationLost`, `ScriptSparesPlan`, `TargetIsAsShown`, `ObstaclesAreFoundEarly`, `FinishedTargetBoots`, `DialogsAlwaysInBounds`, `InventoryOfWholeOutput`, `InventoryAlwaysWhole` | `ProgramInv`: eight parts, one per piece of state |

TLC finds each of these invariants to hold on the runs of its module, too, but for `BuilderInv`, which quantifies over an
unbounded set of plans.

*Installer, first layer.* That kept contents survive is not inductive: it needs that a loop which formats points at
a record whose action is FORMAT (`FormatsOnlyPlanned`), that the index stays in the arrays
(`IndexInRange`) and that an existing disk is never rebuilt. For the authorization of writes,
`WritesLicensed` says of each command that writes that consent and recheck lie behind it and that
nothing has drifted since; `BackupsMade` says that a backup exists wherever it may be restored, which `TypeCorrect` needs.

*Installer, second layer.* A cleanup that reports no failure has released everything: this relates what the kernel holds to
the records of the script at every command, those of cleanup included. Each resource has an invariant of its own, which
holds before and after every command and so wherever a trap can cut in:

- `MountInv`: a mount of this run is claimed (`Recorded`), a claim is made only after the spot was looked at, cleanup passes
  a spot only unmounted or with a failure reported, and a directory is removed only when nothing is mounted on it.
- `SwapInv`: an area enabled by this run is in `SWAPS_TO_DISABLE`; once the loop of cleanup is past an index, it is off there.
- `HostInv`: a changed file is flagged, a flagged one has a whole backup, and HTTP steps see the original policy.
- `BootInv`: files are placed in order, a shim lies only beside what it loads, a stage file is on record, a firmware entry has its loader.
- `KeepInv`: in the loop of formatting, every kept partition handled so far was compared and is the one of the plan; behind the loop, and
  wherever one is mounted or enabled, every kept one is. Those still ahead in the loop are not covered, and what changes after the comparison is not.
- `DoneInv`: what lies behind a command has been done; status 0 at the end only with `INSTALL_SUCCEEDED`.
- `ReleaseInv`: what lies behind a command of cleanup has been released, unless a failure is reported.

`OwnedIsRecorded`, `HostFilesRecoverable`, `HttpUsesOriginalPolicy`, `BootChainWhole`, `ReleasedOrReported` and
`ExitZeroMeansInstalled` are proved for the first start (`run = 1`), because they are not true of a second one on a machine
that a kill left unrestored: its records start empty (finding 2 is a counterexample). Where a theorem says this, it also states the
part that holds in every run: records of mounts and swap areas, release of what this run made, shims beside loaders,
and all that status 0 says about the installation itself: that the main program came to its end (`INSTALL_SUCCEEDED`), what it then has
made (`Installed`), and that no step of cleanup failed. The other theorems have no such restriction.

*Storage page.* A key sees one record; `GoodDisk` collects what all keys together keep of a disk, so
that each key is proved against the same statement. It is split into lemmas about the pure functions of
`PartitionPlan` (what `AssignUsage`, `SetAction`, `WithSupportedProfile` and `UseAutomatic` preserve) and one
lemma per key. `NoSilentFormat` compares records of one position before and after a step; a disk that is removed moves
the others up, so it needs that no path is planned twice (`PathsDistinct`), which holds because adding looks for the path.

*Session.* That a session without the mark is saved rests on the converse of what the code does: a key which does not
set the mark must leave every record as it is. The pages mark a change when purpose, action or target differ, and ignore the mount
profile; a sound record determines its profile from the others unless it is chosen, and choosing marks (`ProfileFits`).
`ValidFits` compares two tables, the rules of `validate_plan` on a record and the cases of the templates, for every
plan, also a hand-edited one, and turns the counters of the validator (at most one and at least one) into exactly one, which is a
fact about finite sets. `ScriptAlwaysFitsInstaller` carries it to every script that a session leaves.

*Recursions.* Plans, lists, device trees and wrapped lines are recursive functions. The library's induction
theorems cannot be used here, but an induction can be stated without a parameter: every non-empty set of numbers has a
least element (from the library's facts on well-founded relations, `Least`), hence a set of numbers with 0 and with
each successor is all of them (`NumbersFromZero`), and a set comprehension stands for the predicate. `Recursion` gives the
existence of a function on numbers that is defined from its value before. Where a value depends on several others, as on those of
a device's children or of the rest of a message, the relation is a height: `InductionByHeight` and `RecursionByHeight`
need only that each step goes to something of smaller height.

*Layouts.* From `Recursion` follow the existence and recursion of
`RecordsUpTo` and `ListedUpTo`, then that one insertion keeps the order (`InsertionKeepsOrder`) and the entries
(`InsertionKeepsEntries`), and so that `CollectActionable` lists the plan in mount order (`ListOfPlan`). That the list starts with the only root
(`OneRoot`) and formats what has to be formatted (`ListFits`) comes from the rules of the validator on roots and actions. The arithmetic is
one lemma per mode (`DataDisk`, `RootOnlyDisk`, `RootSwapDisk`, `HomeSwapDisk`): the MiB the script asks for, rounded and less the
slack, fit beside both tables, and the tail that sfdisk leaves stays within what `verify_created_partition` tolerates.

*Files.* `AlwaysWhole` depends on temporary files having one owner each and holding what the owner has
written (`OwnTemps`), and on the present target being among the survivors. For `SpecialFilesStay` the added
invariant says that whoever is past the check while a special file has the name was past it when the file
came.

*Start.* That a success comes with the whole output (`WholeOutput`, a part of `InventoryIsWhole`) needs
that a child which exits with 0 has written everything, and that the parent passes on to `waitpid` only when
the pipe is empty and its writer gone. The selection of groups is written down three times in the code:
`PreviewsShowWhatIsRequired` and `ResolvedIsInstalled` say that the three agree for all settings. `SavedAsLoaded` says for
all widths of the four integer types what the run checks for one: an accepted file is written back as it was read.

*Detection.* The height of a device is `Depth`, which the assumption bounds. By it, `Visited` exists and is the concatenation over
the children (`VisitedByChildren`), and visits exactly what the reference `Beneath` collects without an order
(`VisitedIsBeneath`). `DiskInfo` is then followed along that sequence: after n devices the disk is in use exactly when it or one of them is
mounted or stacked, and its partitions are all among them while there is room (`CollectHolds`, `DiskInfoFaithful`). The outer loop is an induction over
positions that counts disks (`FoundHolds`), because the place of a disk in the inventory is the number of disks up to it.
`DetectedIsWhole` is the sum, and `InventoryAlwaysWhole` adds that the trees are those of the whole output.

*Dialogs.* The arithmetic of lists, choices and text fields is one lemma per dialog. The wrapping of a warning advances in each
call, so what is left of the message is a height (`LinesStepByStep`). Each call shows the letters it passes and cuts no word
that fits a line: a line that ends a paragraph is shown whole (`WholeLineShows`); one that is cut at a blank holds the words up to
it, and where no blank is found the word that is cut is longer than the window (`CutLineShows`).
`WrappedLinesShow` carries this from the rest of a message to the message.

*Program.* The parts of `ProgramInv`: the captured child (`CaptureInv`), paths and files (`FilesInv`, `ScriptInv`), what was seen
and answered about the package configuration (`AgreedInv`), the plan between load and session (`LoadedInv`), the inventory
(`DetectedInv`), the dialog (`DialogInv`) and the target (`TargetInv`). The target is the long one: `GroupsBefore` gives for each step
of the chroot script exactly the groups behind it, so that at the end nothing is left but the equality of `ResolvedIsInstalled`;
`ResolvedInv` carries that no group unknown to pacman is left once the disks are erased, which makes a late failure
one of those `NoLateSurprise` names; `BootableInv` follows kernel, loader entry, initramfs and mirrors.

### Assumptions

| Assumption | Says | Because |
|---|---|---|
| `SizesAssumption`, `RunsAssumption`, `InterferenceAssumption`, `MaxDisksAssumption`, `ConstantsAssumption`, `DialogsAssumption`, `PagesAssumption`, `CaptureAssumption` | bounds are numbers, windows and pipes are not empty, warnings are sequences of letters, blanks and feeds | shape of the constants |
| `PlansAssumption` | plans are as the generator emits them | `ScriptAlwaysFitsInstaller`, `ListIsInMountOrder` |
| `DevicesAssumption` (storage page), `OfferedAssumption`, `SettingsAssumption`, `NoIdentAssumption` | devices, answers and settings are of the C types | types in `model.h` |
| `DevicesAssumption` (inventory) | the children of a device are devices, no tree nests deeper than `MaxDepth` | `json_tokener_parse` refuses JSON beyond its nesting limit |
| `WidthAssumption` | an int holds every enumeration value; int, unsigned, int64 and uint64 are of rising width | platforms the code builds for |
| `FilesAssumption` | plan files are what JSON can hold, sessions start from some of them; an answer of lsblk is a sequence of devices | the parser decides the rest |
| `LayoutsAssumption` | sizes are numbers, kept partitions are records of the C type | `model.h` |
| `TailsAssumption` | sfdisk leaves between the backup table and 2 MiB at the end | alignment of 1 MiB |

### Only model-checked

`CleanupEnds` and `CallReturns` are liveness, which the prover does not handle. All other properties of the passing runs have a theorem.

## 6. Reading a model beside the code

Names follow the source: variables of the scripts keep their spelling, actions are named after the C
function or the command. `PROJECT.json` maps each definition to its lines. In the installer
modules, `Goto(from, to)` is the sequence of commands; the `Touches...` and `Releases...` operators say
which groups of variables a command leaves alone.

## 7. Plan for what follows

1. `AtomicFile` and `Builder`: derive from `FileIsAtomicCell` that the session may replace its files in one step.

## 8. Not modelled

Drawing and the arithmetic of windows in `ui/layout.c`, the tables of the storage page, the scrolling of
`review`; quoting and concatenation of the templates; characters of names, paths and time zones, which are one
value with a verdict; the text of JSON, whose rejection is one verdict; the log recorder; the contents of packages,
signatures and their verification; the contents of the configuration files the chroot script writes; the values of
locale, time zone and the like. The tests and build files are no part of the program that runs.
