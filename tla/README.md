# NvStrapsReBar: models, checks and proofs

NvStrapsReBar widens BAR1 of NVIDIA Turing GPUs. It has two routes: a UEFI driver
inside the firmware image, installed by a guided deployment of the Windows
application, and an EFI loader on the EFI system partition or a USB drive that needs
no change to the firmware. Beside them the application edits the BAR sizes and
switches Resizable BAR per game in NVIDIA's driver settings.

This directory holds TLA+ models of the parts whose correctness is hard to test:
hardware programming that must undo itself, files several processes write, workflows
that run over reboots, pages that outrun their commands, firmware images in which
everything else must stay where it is. TLC checks small instances of every model;
TLAPS proves theorems about eleven of them for every value of their constants, in eight
modules of proofs (the loader's are also about the loader on a bus, those of the
artifacts also about the plan store, those of the driver also about the page that saves
its settings).

`PROJECT.json` lists the runs with their properties, faulty variants ("mutants") of
the modelled code that each property detects, the hazards of the code with the
properties that are about them, and, for every definition, the source lines it stands
for.

```
cd tla
tlc -workers 2 -config MCDeviceTransaction.cfg MCDeviceTransaction
tlapm DeviceTransactionProofs.tla
```

## The system

| Component | Sources | State it keeps | Hard behaviour | Modules |
|---|---|---|---|---|
| Firmware device transaction | `nvstraps-uefi` `execution, pci, uefi_adapter, straps, s3`; `nvstraps-core` `straps` | bridge and GPU registers, straps, S3 boot script | any access may fail half-way; reverse-order restore; the script replays at resume | `ExecutionPolicy`, `StrapPlan`, `DeviceTransaction` |
| Driver entry and engine | `nvstraps-uefi` `driver, engine, host_bridge, setup_variable, status_writer, variables` | configuration and status variables, enumerated bridges | which safety clear persists, any order of enumeration, writes that get lost | `DriverBoot`, `SizeSelection` |
| Deployment plan store | `nvstraps-deploy` `store, workflow, lib` | plan revisions, profiles, artifacts, receipts, package | several processes, a crash in the middle of a save, damaged files | `PlanHistory`, `PlanStore`, `MachineProfile`, `Artifacts` |
| Deployment workflow | `src-tauri/src` `deployment, deployment_workflow, resizable_bar_commands, app, reboot` | the plan, the configuration variable | crash between an effect and its record, stale evidence, a machine that changes between boots | `DeploymentWorkflow` |
| Resizable BAR observation | `src-tauri/src` `resizable_bar, devices, resizable_bar_commands` | none | two readings that disagree, resources that change between them, three verdicts on one reading | `BarInspection`, in `DeploymentWorkflow` |
| External EFI loader | `nvstraps-external`, `nvstraps-external-efi`, `nvstraps-external-tool` `candidates` | BAR1 registers, straps, reserved MMIO, receipt file | writes that fail with effect, failed rollback, power loss, changed hardware | `Spans`, `LoaderPlan`, `ExternalLoader`, `PlannedLoader` |
| External route | `src-tauri/src/external_boot`, `nvstraps-external-tool` `media, boot_entries`, the page | files on the medium, `Boot####`, `BootOrder`, `BootNext` | a command stops between two writes; Windows, Secure Boot and the hardware change in between | `ExternalRoute` |
| Firmware image injection, legacy catalog | `nvstraps-ffs`, `nvstraps-legacy` | none | nested containers, free space, several DXE domains, byte rules | `FirmwareInjection`, `BoardImage` |
| BAR settings | `src-tauri/src` `bar_settings*, config, settings_snapshot`; the page | configuration variable, tokens, draft | answers out of order, a variable that changed since it was read | `SizeSelection`, `SettingsEditor` |
| NVIDIA driver profiles | `src-tauri/src/nvidia_profiles`; the page | driver database, record of earlier values, backup | failing calls between record and save, other tools, a stale page | `ProfileUndo`, `DriverSession` |
| Guided installation page | `src/deployment-workspace`, `src/guided` | session, remembered choices | replies to a replaced session, effects that start commands | `GuidedInstall` |
| Host tool formats | `nvstraps-external-tool` `authenticode, main` | the signed program | a digest over a file that is changed afterwards, damaged files | `Authenticode` |
| Driver support, S3 probe, release tooling | see `PROJECT.json` | none | - | not modelled |

How they interact. The application puts the driver into a board image (`BoardImage`)
and preserves and exports what it made (`Artifacts`), in steps the page leads through
(`GuidedInstall`) and the plan records (`DeploymentWorkflow` on the machine,
`PlanStore` on the disk). It writes the configuration variable (`SettingsEditor`,
`DeploymentWorkflow`); the driver reads it at the next boot (`DriverBoot`), programs
each selected GPU (`DeviceTransaction`) and leaves a status variable, which the
application reads as evidence. On the other route the application writes files and
boot entries (`ExternalRoute`), the firmware starts the loader, which programs the GPU
(`PlannedLoader`) and leaves a receipt the application reads after the restart.

Each lower module justifies a step of the higher one: `PlanStore` that recording is
one atomic append while saves do not overlap (`DeploymentWorkflow`, `Artifacts`,
`GuidedInstall`); `DeviceTransaction` that a transaction ends restored or reported
(one step with the outcome of a receipt in `DriverBoot`); `ExternalLoader` that a
loader that did not start Windows gave the machine back unchanged (`ExternalRoute`);
`SizeSelection` the size of a GPU (`DriverBoot`, `SettingsEditor`); `FirmwareInjection`
and its rounds the image (`BoardImage`); `DriverSession` that a switch is saved whole
or not at all (one step of `ProfileUndo`); `Authenticode` that the loader on a medium
is the one that was signed (`ExternalRoute` only asks whether its signer is trusted).
`PlannedLoader` and `BoardImage` extend the modules they compose.

## Modules, state and actions

**`ExecutionPolicy`** is the abstract specification of `execute_device_transaction`
(`execution.rs`): the order of its five calls and the receipt it returns.

**`StrapPlan`** is `straps.rs` of the core as operators: the split of a size selector
over the two strap fields, the planned register values, the reported change.

**`DeviceTransaction`** is the UEFI adapter under that policy. `bridge`, `device` and
`straps` are the registers; `bridgeSaved`, `deviceSaved` the saved values; `script`
the boot script; `at` and `k` the operation and the position in its register list.
One action is one configuration write, strap write or script record; each of them but
the strap writes (plain MMIO) may fail. `ImplementsPolicy` maps it to
`ExecutionPolicy`.

**`DriverBoot`** is the driver from `initialize` to the last enumerated device, boot
after boot. `variable` is the configuration variable, `shown` the status Windows sees,
`running` the configuration in memory, `enumerated` and `visited` what the hook was
called for. Each guard of `initialize` (setup CRC, reset clock) is an action with its
clear, persisted or not; the hook is called for the devices in any order. `saved` and
`pinned` are histories of what the user wants and of the setup it first ran under.

**`SizeSelection`** is how settings become sizes in the three places that compute it:
the driver's lookup, the application's conversions and validation, the page's own
reading of a draft.

**`PlanHistory`** is what a plan store promises: one plan that only grows.

**`PlanStore`** is the directory of one profile and the processes that record steps.
`files` maps a revision to its plan; each client loads, decides, checks for the file,
writes a temporary file and renames it in separate steps, and may die in between.
`SerialSpec` adds that two saves do not overlap; there the store implements
`PlanHistory` with the latest plan.

**`MachineProfile`** has the profiles of every schema, their normalisation, validation
and identity, and the plan built for one. A text is its words and whether there is
white space around them; a digest is what was digested; an identity is the record of
what is hashed.

**`Artifacts`** is the files of one profile: creating it, preparing the image and
receipt, exporting the package. A file is what it was made from. A command is a list
of steps (`cmd`) that may stop after any of them; `Disturbances` update the
application, damage or exchange a file, alter the profile or the plan.

**`DeploymentWorkflow`** is the application and the machine it deploys to. `plan`,
`profile` are what is recorded; `cmd` is the command that runs, from its load and
preflight to its record; `preview` the manual step shown; `rom`, `running`, `setup`,
`bar0`, `place`, `status`, `config`, `clock` and `bootedAt` are the machine. Each
command is split where the process may die between an effect and its record. The
operator flashes and reboots; the disturbances are crashes, unwanted and failing
boots, a boot on another board, the old firmware flashed back, a new BAR0 address and
a clock set back. `witnessed` and `rebooted` are histories of what was true.

**`Spans`** are address spans in units of 64 MiB, with 4 GiB as 64.

**`LoaderPlan`** is `make_plan`: which snapshot and GPU it accepts, the path of bridges
from the root, the windows they leave open, the lowest aligned place in unallocated
space that no BAR is in; `Offers` is the list the page shows, `validate_plan` the
comparison the loader makes. `Place` is the lowest place in closed form, so that it
can be proved about; `MCExternalLoader` has the loop of the code and an `ASSUME` that
both find the same place in every small space with every set of allocations.

**`ExternalLoader`** is one loader boot after another. `command`, `high`, `low` and
`straps` are the registers, `reserved` the claimed destination, `receipt` the file.
`ApplyWrites`, `EnableWrites` and `RestoreWrites` are the register sequences of
`execute.rs`; a write is taken or not, and reported as failed or not, independently.

**`PlannedLoader`** puts that loader on a bus. `surroundings` is everything else a
snapshot shows in this boot, `report` what it was when the diagnostic ran. `capture`
makes the snapshot of both; the checks of `ExternalLoader` become `validate_plan`, its
reservation succeeds only in free space. Between two boots cards, displays, drivers
and windows may change.

**`ExternalRoute`** is the route over restarts. A command computes the list `cmd` of
its file and variable writes when it starts, and the list may be cut short anywhere;
`Step` makes the next write. `files`, `variables`, `order` and `next` are the medium
and the boot variables, `secureBoot` what the firmware trusts; `chain` is the list of
entries a boot still has to try; `externalScreen` is the page. `tried` is a history of
the hardware a trial succeeded on. Medium (PC or USB drive) is chosen at the start.

**`FirmwareInjection`** is the injection of the driver. A stream has volumes, a volume
files and erased space, a file that is a volume image has sections with a stream in
each; sizes count units of eight bytes. `targets` is what the plan pins, `output` the
copy that is changed; each round censuses, injects into one target and proves itself.

**`BoardImage`** adds the step before: the rules a legacy board selects, `patched` one
after the other, each with its number of matches, then the injection of the result.

**`SettingsEditor`** is the settings page, the commands and the variable. A call in
`calls` is pending, then answered, then gone; answers come in any order. `snap`,
`draft`, `baseline`, `report`, `timer`, `receipt`, `restore` are the page's state;
`backend` is the application's; others may change `variable` and `machine`. A save is
run in steps (`saving`): the status and the GPUs are read, the variable is read and
both tokens are compared, the variable is written, it is read back. Another program may
come between any two of them. Other commands of the application may not: the commands
that read or write the variable (`save_bar_settings`, `save_config`,
`save_deployment_config`, `get_system_snapshot`, `refresh_system`) are not `async`, and
Tauri runs such commands on the main thread, one after the other. The state of the
backend is locked for the write only.

**`ProfileUndo`** is the commands that change NVIDIA's database `db`. `requests` wait
for the lock, `command` holds it with its session and step; `record` is
`originals.json`, `copies` the backup; `page` the games page. NVIDIA's own tools may
save between any two steps. `held` is a history of the values before the first save.

Four modules have no variables: `SizeSelection` above and the next three compute what
one call of the code returns from what it is given.

**`DriverSession`** is one command of `ProfileUndo` down to the calls of NVIDIA's
driver. A database has the user's and NVIDIA's values by profile and setting, each with
its type; `change` and `undo` compute the list of writes a command makes in its
session, apply them to a copy, read it back, and return the copy, or the database as it
was when a call failed. What a call does to the database is NVIDIA's; `drs.rs`, and the
driver of the tests (`fake.rs`), say what.

**`BarInspection`** is the status shown outside of any plan. `Readings` are the answers
an inspection may get from a machine and from the same GPUs a moment later: the Windows
device list of the first, and any output `nvidia-smi` may print of the second.
`build_inspection`, `require_resizable_bar_proof` and `recommend_deployment_config` are
what is made of one; they stand next to the operators of `SizeSelection`, with which
the offer is compared.

**`Authenticode`** is the layout of an EFI program in cells of four bytes, what its
digest covers, the certificate table that `sign` appends after its `prepare`, and the
check of a signed file. `Loaded` is what the firmware takes from a file.

**`GuidedInstall`** is the guided page: `session` is the workspace state, `ui` the
page's, `orphans` the commands whose session was replaced, `exports` and `remembered`
the browser's storage. `Screen` is `routing.ts`; `Effect` is what the page starts by
itself, before the next click.

## Runs

| Run | Instance and bounds | What it shows |
|---|---|---|
| `device_transaction` | three command register contents, three strap contents, selectors 0, 2, 3, 9, 10: both sides of both thresholds; a fault at every access | every register is restored or reported; straps only through both remaps; a completed transaction is programmed and its script repeats it; it implements the policy |
| `driver_boot` | two GPUs behind two bridges, three topologies, two setups, three drafts, one failing call, any number of boots | a boot programs only what was saved (`ProgramsAsSaved`), through the bridge the GPU is behind; what it left out is reported; restoring the setup restores the settings |
| `plan_store_serial` | two clients, two evidence values, three steps; saves do not overlap | the store implements `PlanHistory` |
| `artifacts` | two processes, three releases, a native, a legacy and a schema 3 profile, two disturbances | only a proven package is published; the preparation gets done unless what is stored is not what this version makes |
| `deployment_safety` | legacy board (all steps), two BAR0 addresses, two disturbances of any kind but a clock set forward | reboots and apertures are proven, the machine is the pinned one, the configuration is for the pinned BAR0, a persevering operator completes the plan |
| `deployment_earlier_driver` (violation) | the installed firmware already runs the driver | the status of the boot before the flash completes `RebootAfterFirmware` |
| `external_loader` | three machines (GPU on the root bus, behind one bridge, behind two) and eight changes of one of them, four strap contents, BAR1 on both sides of 4 GiB, sizes 1, 8 and 32 GiB, one further boot | BAR1 decodes no address of another BAR, DMA is off while it is moved, fallback is clean, a handoff is measured and every address of the aperture reaches the GPU only |
| `external_route` | PC and USB drive, two hardware states, two boot manager versions, one foreign entry, Secure Boot on and off, three disturbances, `Boot####` numbers up to 9 (never exhausted) | only a tried loader is first, foreign entries and files are untouched, the page leads to an installed loader |
| `board_image` | images of two volumes with a core and up to one container of every kind, compressed sizes 1 to 3; four rules on boards with plain, compressed, nested, deleted and hidden files | every DXE domain has the driver once or no image is returned; all else is kept; no round fails its own census; boards are patched exactly as selected |
| `settings_editor` | two twin GPUs, or one beside an unlisted one; three inputs, one mishap | the page shows the size the driver computes, an edit changes that GPU only, between the check of a save and its write nothing of the application comes in, what is reported saved is what is shown |
| `profile_undo` | two games and all games, in a database of which an update brings one game or drops none; four commands, one disturbance | the undo puts the first values back and only what was shown; the backup has the earlier values; the page shows what the driver resolves |
| `guided_install` | two records of one machine, two detours, one mishap | no step of the user is recorded unconfirmed; the page shows no plan it does not have; it leads to the end from every screen |

The modules without variables are checked by named `ASSUME`s over bounded inputs, in
the MC module of the run that rests on them; TLC evaluates them before the run starts.

| `ASSUME` (run) | Bounds | What it shows |
|---|---|---|
| `SearchFindsTheLowest` (`external_loader`) | every small space, alignment and set of allocations | the loop of `make_plan` finds the place that `LoaderPlan` has in closed form |
| `SignedAsLoaded` (`external_loader`) | every image of up to two sections with places and sizes 0 to 2, a spare cell of header, odd and even length; two certificates, two lengths of a signature, any one cell damaged | whatever can be prepared is signed; a file that passes the check loads as what was signed with that certificate, and has the same behind its sections |
| `SwitchIsWhole` (`profile_undo`) | a game and all games, databases of the user and of NVIDIA, drivers before and after the accessors, the size type and the app setting changed; one failing call | a switch takes effect unless a call fails, is saved whole or not at all, keeps NVIDIA's values and what the user chose |
| `UndoIsExact` (`profile_undo`) | the same, with the values another tool or an update left since | the undo restores every value in its type and takes none of NVIDIA's along |
| `ShowsWhatWas` (`settings_editor`) | two GPUs, the second of twelve kinds the code tells apart or missing, every output of `nvidia-smi`, every change of resources between the readings | a size shown is the BAR1 of that GPU in both readings |
| `OneVerdict` (`settings_editor`) | the same | the page, the plan and the settings page judge one reading alike |
| `OfferIsWhatTheDriverDoes` (`settings_editor`) | the same | what is offered is what the driver does with the recommended configuration |
| `DriverTakesWhatIsSaved` (`settings_editor`) | BAR0s on both sides of 2 and 4 GiB, aligned and not, 2 to 32 MiB | the application saves the windows the driver takes, but for one that ends at 4 GiB |

Why the bounds are enough. The register sequences are finite and run in full, and the
strap and address values include each side of each threshold and of the 4 GiB carry.
Two clients give every overlap of two saves; three steps let a slow client meet a
revision two behind. The three machines of `external_loader` have a BAR in the way of
the first place and one behind it, windows that exclude the lowest free space, and a
sibling bridge that would take the addresses; the changes are one for each thing
`make_plan` refuses or places differently. Two GPUs behind two bridges, two twins and
two records are the least that can be mistaken for each other. Two or three
disturbances are a failure, a failure of the recovery and one more. `ExternalRoute`
starts with one hardware state and one manager (`FirstMachine`, `FirstManager`):
nothing distinguishes them before the first change. Two sections are the least that can be out of order, overlap or leave a gap. Deadlock is not checked where the
system really ends (a transaction that returned, a boot that handed over, a plan that
is complete).

Fairness. `DeviceTransaction` and `ExternalLoader` are sequential programs that wait
for nothing. In `DeploymentWorkflow` a command that started goes on (weak), and the
operator retries the command of the active step, flashes and reboots when the step
asks for it; strong fairness for the commands that a concurrent boot or another
command may disable again and again. `Resumable` assumes that the machine is finally
the pinned one and its chip keeps the driver. In `Artifacts` one process perseveres,
the other may hang anywhere. In `ExternalRoute` a running command and a running boot
go on and the operator presses the button that leads further (`Helpful`); `Continues`
assumes besides that at some time the operator presses no other. The operator reads
the refusal the page shows word for word: after a mismatch the way out is its
secondary button. In `GuidedInstall` commands answer, effects run and the operator
follows the page (weak), boots when a step asks for it, refreshes when the page is
behind the records, and restarts the application from the screen that asks for
elevation (strong: each of them is disabled and enabled again by the others). The
disturbances are bounded and never forced. `DriverBoot`, `SettingsEditor`,
`ProfileUndo` and `BoardImage` state no fairness and no liveness.

## What is proved

`tlapm` checks eight modules; a theorem holds for every value of the constants that
satisfies the named `ASSUME` of the module. None of the invariants the runs check is
inductive, so that each proof rests on an `IInv` that implies it; its parts are named
for what they say.

- `DeviceTransactionProofs`, first the operators of `StrapPlan`: the split of every
  selector, and what a plan makes of every register contents. Then `TypeCorrect`;
  `Restoration` (`RestoredOrReported`), `ReverseOrder` (`BridgeOutlivesDevice`),
  `StrapsThroughWindow` (`StrapsOnlyThroughWindow`). Whether a register is as firmware
  left it depends on how far the remap or the restore has got: `BridgeInv` and
  `DeviceInv` state, for each operation and each position `k` in its register list,
  which registers hold the window and which hold the saved value, and that the saved
  value is the firmware's. `Programmed` (`CompletedIsProgrammed`): `StrapInv` follows
  the straps from what was read over the writes to what the receipt reports.
  `PolicyRefinement`: every step is a step of `ExecutionPolicy` or changes nothing of
  it. That is `ImplementsPolicy` without its fairness; `FaultInv` says which call may
  have failed by each operation, and whether the device is held.
- `DriverBootProofs`: `OnlyAsSaved` (`ProgramsAsSaved`) and `OnlyThroughItsBridge`
  (`ThroughItsBridge`), for any number of GPUs, bridges, bus numbers, setups and boots.
  The invariant follows the configuration from the save to the straps: the variable is
  what was saved or was cleared, what is read is the variable, what runs is what was
  saved and passed both guards in this boot, nothing is enumerated before that, and
  the programmed straps are of GPUs it selects. `Reports` (`LeftOutIsReported`) and
  `ComeBack` (`SettingsComeBack`) add `ReportInv`: the status is what the variable
  shows unless it got lost, and who was visited is programmed or behind the status.
  `BootAssumption` has no device that is both GPU and bridge.
  The last part is about the page that saves those settings, with variables of its own
  (`Editor`, an instance of `SettingsEditor`): `SavesOverWhatWasRead`
  (`ReplacesWhatWasRead`), for any drafts, machines and contents of the variable, any
  number of calls under way and any changes by others. Comparison and write are two
  steps, and a load that ends the busy state while a save is under way lets a second
  save be sent; the three inputs of `settings_editor` do not get that far. The
  invariant `ComparedHolds` says of the moment between the two that the variable is
  what was compared or that another program wrote it, and rests on the installation,
  the loads and the other saves waiting for the save that is running.
- `DeploymentWorkflowProofs`: `TypeCorrect`; `FirmwareReboot`
  (`FirmwareRebootProven`), `ConfigurationReboot` (`ConfigurationRebootProven`),
  `Aperture` (`ApertureProven`); `PinnedMachine` (`OnlyPinnedMachine`), `PinnedBar0`
  (`ConfigForPinnedBar0`), for any number of disturbances. A command compares the
  machine once, at its load, and a reboot ends it, so that `CommandInv` may keep what
  was compared until the record; `StatusInv` ties the status to the running firmware,
  `ClockInv` the boot time to the time of the save however the clock is set back, and
  `ClaimInv` says what each recorded step had behind it. `FirmwareReboot` has the
  hypothesis `~EarlierDriver`; `deployment_earlier_driver` shows that it fails without.
- `ArtifactsProofs`: `Packages` (`PackageIsProven`), for any processes, releases,
  requests and earlier profiles, and any number of stops, updates and damages.
  `RecordInv`: the identity stays once there is one and names the original. An export
  compares everything at one moment (`ExportCompares`); `Kept` says that from then on
  neither the profile nor the plan changes, since a command is in progress and no step
  that makes a file is active (`NothingIsActive`), so that `Compared` holds when the
  store reads the files, whatever happened to them in between, and what it reads and
  finds equal is `Proven`. `ProfilesAssumption`: an identity is never the mark of an
  absent one, and requests have one of the two target policies.
  The second half is about the plan store, with clients and variables of its own
  (`Store`, an instance of `PlanStore`; the hypothesis `StoreParameters` is the
  `StoreAssumption` of that module): `StoredWithoutGaps` and `LatestPlanNeverRegresses`
  for its `Spec`, with any number of clients; `RevisionsAreAppendOnly` and
  `StoreImplementsHistory` (`ImplementsHistory`, the refinement of `PlanHistory`) for
  its `SerialSpec`. The invariant ties each client to the store: its plan has a stored
  revision, the revision it is going to save is that one plus one, and with serial
  saves the target is free exactly while a client is between its check and its rename.
- `ExternalLoaderProofs`, about the loader alone: `TypeCorrect`, `CleanFallback`
  (`FallbackIsClean`) and `DmaOff` (`DmaOffWhileMoved`), for every register contents,
  destination and size. `IInv` says in each phase which registers already equal the
  firmware's (`RestoreInv`), that the first write of `apply` turns bus mastering off
  (`ApplyInv`), and that the saved registers are the firmware's (`OwnerInv`).
  `OwnSpace`: with decoding on, BAR1 answers where firmware placed it or inside the
  destination; `MeasuredHandoff`: the successor is started with the aperture moved and
  measured. Both rest on `SpaceInv`, which says between which two values each strap
  set is at every position, and that decoding is off until both address registers are
  written. `OwnSpace` assumes `Steady`: no order of two strap writes passes through a
  larger size than both ends ("Known limits" has the case that does).
  About the loader on a bus: every step is a step of the loader or leaves its state
  alone, so that `PlannedFallback`, `PlannedDmaOff` and `PlannedMeasured` hold on
  whatever bus; `OnlyTheDiagnosedMachine`: from its own check to the end of the boot
  the loader works on exactly the machine of the diagnostic, at the destination the
  rules of the plan give for it; from it, and from what a placement is, `Apart`: the
  destination and the firmware's span meet no other BAR; and `Alone` (`DecodesAlone`),
  again for `Steady` straps. `SurroundingsAssumption`: the spans of the other BARs are
  numbers.
- `ExternalRouteProofs`: `TypeCorrect`; `FirstTried` (`FirstIsTried`) and
  `OthersUntouched` (`ForeignUntouched`), for any machines, boot managers, boot entries
  and disturbances. A command is a list of writes that may end after any of them, so
  that `FirstIsTried` needs more than what holds between two commands. `Settled` is what
  must hold after every write: what the files, the boot entries, the boot that runs and
  the history say of each other. `Running` says, for each kind of command, which writes
  are still to come and which came before: that report and plan are deleted before
  the diagnostic is scheduled, the old receipts before the loader gets its name, its
  entry is made before `BootNext` names it, and the entries go before the plan. Each command is shown to start with such a list, each write
  to leave the rest of one. First come the operators on lists: `Ascending` names each
  number of a finite set once and in order, and `Retain` keeps an order free of
  repetitions. `OthersUntouched` has the hypothesis `Hidden = {}`: an entry of others
  that `BootOrder` does not name is never read and may be taken ("Known limits").
- `ProfileUndoProofs`: `TypeCorrect`; `PutsBack` (`UndoPutsBack`), `UndoesShown`
  (`UndoesWhatWasShown`), `CopyKept` (`CopyHasEarlierValues`), `PageShows`
  (`ShowsTheDriver`), for any set of games and every database. `DataInv` is about the
  disk: an unchanged profile has a held value (`HeldInv`), every changed one is in an
  intact copy (`CopyInv`) and in the record (`RecordInv`), and a command between its
  record and its save has both behind it (`CommandInv`). `ScreenInv` is about the page
  and the commands in flight: which may be pending together (`PendingInv`), what an
  answer promises (`Promised`) and when what the page was told is still true (`Told`,
  `Fresh`).
- `GuidedInstallProofs`: `TypeCorrect`; `Confirmed` (`OnlyConfirmed`) and `Selected`
  (`ShowsTheSelected`), for any set of profiles and any number of detours and
  failures. A command carries the plan it was started with, and its session may be
  replaced while it runs: `Fits` says of the session what call it may wait for and
  that a dialog shows a plan it has, `OrphanFits` of the commands whose session is
  gone, and `Vouched` that each recorded step that only the user knows was confirmed.

Only model-checked:

- liveness (`Resumable`, `Continues`, `Prepares`, `Finishes`, and the fairness of
  `ExecutionPolicy`): TLAPS does not reason about liveness under fairness or `ENABLED`;
- `FirmwareInjection` and `BoardImage`: their trees are read by recursive operators,
  which the provers do not take;
- `HandoffIsReached`: it follows an address down the bus by recursion on the path, and
  what a recursion computes for every input needs induction over data;
- `Authenticode`, `BarInspection` and `DriverSession`, which compute with folds over a
  file, a device list or the writes of a command, for the same reason;
- the invariants of `SettingsEditor`, which compare lists of rules that folds rewrite.

## Where the code and its documents disagree

`deployment_earlier_driver`: the driver's status of the boot before the flash is
accepted as evidence of the boot after it, on a machine whose installed firmware
already carries a driver (`deployment_workflow.rs:268`, against `CONTEXT.md:167`).

Known limits without a run of their own, met while modelling. The models either avoid
the case, by an assumption named here, or contain it and state their properties so
that it is allowed.

Plan store and artifacts
- Two saves that overlap: `exists` then `rename` (`store.rs:1010`, `1033`) lets the
  second replace the first's revision, while `CONTEXT.md:36` calls the plan
  append-only. `ImplementsHistory` is stated for `SerialSpec`.
- The name shown and the firmware's file name are in a stored profile but not in its
  identity: creating the same profile under another name is a conflict
  (`store.rs:190`). The identities of earlier schemas do not cover the recovery note
  (3) or the recovery (1, 2). Earlier schemas can be prepared and not exported.
- A lost original comes back only by creating the same profile again; an update of the
  application between preserving an artifact and recording it, or after, leaves a
  conflict. `Prepares` allows these.

Deployment workflow
- A crash between the configuration write and its record, and a boot that moves BAR0
  before the operator resumes: every further command is refused
  (`deployment_workflow.rs:183`), although `CONTEXT.md:36` calls the plan resumable
  and `CONTEXT.md:25` lets the configuration reboot change BAR0. `Resumable` assumes
  that the machine is finally the pinned one.
- The boot time is the wall clock minus the uptime. A clock set forward after the
  configuration was saved proves a configuration reboot that did not happen; the
  disturbances include a clock set back only.
- A pinned GPU that never gets an expanded BAR blocks `VerifyResizableBar` for good.
- The token that confirms the restart into firmware setup names the profile only
  (`reboot.rs:182`).

External route and loader
- `read_boot_state` reads only the `Boot####` variables `BootOrder` names, so that a
  foreign one beside it can be overwritten, against `docs/EXTERNAL_EFI.md:59`
  (`Hidden` is empty in `external_route`). An own variable written just before the
  power fails, and not yet in `BootOrder`, is never found again.
- The page compares the whole text of `last-error.txt` with a bare reason
  (`external-boot.tsx`): after a hardware change its first button writes the refused
  plan again, and only the second one diagnoses anew. `Continues` lets the operator
  read the refusal.
- With Secure Boot turned on while a route is active, the page never offers to enrol
  the certificate, and the screen of an installed loader says nothing of it.
- On a USB drive, a stop between `BOOTX64.EFI` and `owner.json` leaves a boot file the
  application treats as foreign; a receipt cut short makes every later reading of the
  medium fail (`Refused`).
- The loader writes strap set 0 before set 1 while memory decoding is on
  (`execute.rs:94`). When firmware left the straps split otherwise than the loader
  splits them (512 MiB as parts 0 and 3, say), the size after the first write exceeds
  the planned one, and BAR1 decodes more than its reservation until the second write.
  `external_loader` takes strap contents from which neither transition passes through
  a larger size.

Firmware images
- `patch_rule_in_firmware` (`firmware.rs:1247`) replaces a file without keeping the
  extent of one that is not the last: when it packs smaller, the gap makes the dry run
  refuse. Rules pass over disposable sections, deleted files and sections beside the
  volumes of a decoded payload, while an unknown section refuses the image. Rules that
  pass the analysis one by one can fail together (`docs/TAURI_BACKEND.md:161`).
- An image with a core of its own and a container may be refused because the first
  injection makes the container no longer the last file; a container without a core
  in front of the target makes an accepted plan fail. Each is a refusal, not a wrong
  image. `signed_update_covers_injection` (`firmware.rs:727`) compares the extent of
  the container only, not the erased space it grows into.

Driver
- The setup guard is checked before the clock (`driver.rs:52`) and its clear is not
  saved. A boot that finds the setup changed and the clock reset leaves the saved
  configuration as it is, although the repository's `README.md:101` lets a CMOS reset
  save the off state.

Observation
- BAR0 is the first resource Windows lists whose descriptor can be read
  (`devices.rs`): when the first one cannot, the address of BAR1 passes for BAR0, and
  `validate_dxe_bar0` accepts it if it lies below 4 GiB. `SecondBoards` contains the
  case; the offer is then for a BAR0 the driver does not find.
- `validate_dxe_bar0` (`config.rs:268`) accepts a BAR0 that ends exactly at 4 GiB, one
  whose size is no power of two and one too small for the straps, which the driver's
  `ValidatedGpuWindow::new` refuses (`straps.rs:66`): such a configuration is saved and
  does nothing. `DriverTakesWhatIsSaved` excludes these.

Settings and games
- An invalid saved configuration cannot be repaired from the settings page: `loaded`
  (`bar-settings.tsx:274`) needs a configuration, so the notice for it is never shown,
  although `docs/adr/0003` says so.
- The tokens of a save are compared with a reading of the variable
  (`bar_settings_commands.rs:49`) that precedes the write (`app.rs:248`): what another
  program writes in between is replaced unseen (`overtaken` in `ReplacesWhatWasRead`).
  When the last reading (`bar_settings_commands.rs:55`) fails, the page is told that the
  save failed, and the variable and the state of the backend are those of the save.
- A stored rule with a location and no subsystem, which this application does not
  write, sizes every GPU of the model in the driver (`config.rs` of the core, lookup)
  while the page takes it for a rule of no GPU (`model.ts:44`) and shows "automatic".
  `Variables` has none.
- `save_config` without tokens (the path "configure") writes over whatever is there.
  One load ends the busy state while another is under way
  (`use-configuration-workspace.ts:349`), and its answer replaces edits made since; the
  notice "saved" stays after a later save that failed; the list of changes leaves out
  a changed mask override when there are others.
- `RestoreProfileDefaultSetting` fails when no predefined value is left
  (`docs/TAURI_BACKEND.md:233`); a torn backup is never written again (`mod.rs:817`); a
  failed change leaves the page's revision of the undo record stale, and the next undo
  is refused.

Guided installation (found by TLC with three detours)
- "Finished in the BIOS" followed by "show the install steps" shows the screen for a
  status that cannot be read (`routing.ts:129`), which only the menu or a restart
  leaves.
- `createProfile` keeps the last record's package receipt, failed check and missing
  recommendation (`profile-source-actions.ts:122`): a new record counts as exported,
  shows the other record's failure, or has its save button disabled until a refresh.
- A refresh resets the count of created records, so that one created meanwhile does not
  end "prepare another file" until it is pressed again.

## Not modelled, and why

- Formats of bytes: load options, DER, signature lists, JSON, SMBIOS, AML,
  compression, checksums and erase polarity, capsules and signed ranges, the XML of
  `nvidia-smi`, the structures of NVAPI. Pure functions with tests; the models take
  what they decide and not how.
- Firmware device transaction: the walk to the Resizable BAR capability, the write of
  the size, the address arithmetic of the window. Undefined hardware behaviour beyond
  failing and lost writes.
- Observation: inspections that overlap, the timeout of `nvidia-smi`, the polling of the
  page.
- Host tools: the signer, the files that are read and the one that is written.
- Driver: a bad BAR0 window, intermediate writes of the status, the replacement of the
  host bridge functions.
- Profiles and artifacts: `LegacyPatchProfile::normalized` beyond its
  risks and counts, the window of
  `write_bytes_once`, a board image that does not parse. Damage happens between two
  commands, to the profile as the last disturbance only.
- External route: BitLocker, elevation, a medium without an ESP or not FAT, the QEMU
  environment, a candidate without a size, torn diagnostics, failing writes of
  `last-error.txt`, the step from a drive to the PC.
- Loader: the device path of the successor, non-prefetchable windows of bridges (BAR1
  behind a bridge starts above 4 GiB), translated roots; a successor that cannot be
  unloaded (`app.rs:258`, `295` and `306` of the EFI program ignore the result).
- Settings: conflicts of bridges, limits of counts, warnings, elevation, wording; the
  three option flags of a GPU are one value. Validation and the settings file are
  answered at once.
- Games: damage to a copy of the database that was intact once, sessions of others that
  merge, a session that fails to close, the table NVIDIA masks predefined values with, a binary size limit that is not eight bytes.
- Guided installation: comparing records, analysing legacy boards, the record page,
  elevation and an unreadable status beyond their screen; the list of records is read
  with its reply.
- Driver support (memory pool, exclusive cell, GPU registry, CRC), the S3 probe and
  release tooling: no state of the program.

## What is left

1. The capability walk and the size write of `pci.rs`, with `DeviceTransaction`.
2. BitLocker and the step from a USB drive to the PC in `ExternalRoute`.
3. The comparison of records and legacy analysis in `GuidedInstall`.
4. `DriverSession` as a refinement of the commands of `ProfileUndo`.
