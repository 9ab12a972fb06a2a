# TLA+ models of a1625-linux-winboot

The repository boots Linux into the RAM of an Apple TV HD (A1625) from a Windows
host, keeps the device's RAM state in encrypted files on the host, and brings up
the device's Wi-Fi radio with an out-of-tree kernel module. Nothing on the
device survives a reboot, no hardware access may be assumed to succeed, and most
state changes are transactions written by hand: a chain of renames in a shell
script, a stack of register writes in a kernel function, a pointer file on the
host. This directory models those transactions, checks them with TLC on small
instances and proves their safety with TLAPS for every instance.

`PROJECT.json` maps every definition to the lines it models and lists the runs,
the mutants (a plausible bug for each property, which the property then
catches), the findings, the hazards and the theorems.

Paths below are relative to `src/windows-native/`.

## Inventory

| Component | State | Operations | Hard behaviour |
|---|---|---|---|
| RAM state transaction (`ram-state/A1625RamState.psm1`, generated shell programs; `codex-runtime/codex-ram`) | `/run/work`, `/run/codex-home`, the lock directory `/run/.a1625-state-lock` and the trees kept below it, the flags `committed`, `worknew`, `homenew` | snapshot, restore, rollback (EXIT trap), `codex-ram`'s `mkdir -p` | concurrent SSH sessions, a command failing after each rename, signals between two commands, SIGKILL, a broken upload |
| Host store (`ram-state/Save-…`, `Restore-…`, `codex-state/A1625CodexState.psm1`) | `state-<sha>.dpapi` files, `current`, `current.next`, `current.previous` | save, validate, restore, `Write-A1625AtomicBytes` | kill and power loss between flush and rename, two saves at once, inputs replaced between save and restore |
| PCIe PHY (`wifi/pmu-probe/a1625_pcie_phy.h`) | registers, saved values | apply table, run callback, undo in reverse | a step failing anywhere, on the way in or on the way out |
| Wi-Fi hardware probe (`a1625_pcie_domains.c/.h`, `a1625_msi.h`, `a1625_dart_lifetime.h`, `a1625_dart_map.h`, `a1625_radio_pulse.h`, `a1625_pci_scan.h`, `a1625_pci_node.h`) | power domains, PHY, MSI registers, DART device, PMU rail, PERST, link, configuration space, bound driver | one module load that nests all layers and unwinds them | each of some forty steps failing, an endless hold ended by a signal, the driver failing on another thread |
| brcmfmac firmware fence (`wifi/kernel-patches/0003-…`) | the completion `fw_setup_done`, the device lock, the driver's memory | probe, firmware callback, remove | the callback racing with unbinding from sysfs and with the probe's own take-down; waiting under a lock |
| PongoOS uploader (`pongo-uploader/src/main.rs`) | file, open device and claimed interface, bytes sent | validate, probe, upload (and boot) | file changed between measuring and sending, short transfers, USB failing half-way |
| Wi-Fi session (`wifi/hold-wifi-session.sh`, `network-session.sh`, `wifi-dhcp.sh`, `Connect-A1625Wifi.ps1`) | lock directories, pid files, firmware timeout, resolver, address and listener, `wpa.conf` | hold, supervise, clean up, DHCP events, Connect's SSH commands | stale pid files, two Connects interleaving, two TERMs for one supervisor, a hook running while its supervisor cleans up |
| Development tools (`development-tools/Install-…`) | installed root, previous root, wrappers, marker, lock and the backup below it | install, roll back | the rename-and-flag windows of the RAM state again, a previous root that an earlier installation left |
| MSI domain and PCI scan (`a1625_msi.h`, `a1625_pci_scan.h`) | bitmap of vectors and the parent's mappings, the table of saved controls, bus mastering, the host bridge | alloc, free, self test, scan, policed write, bind, hold, restore | the parent failing half-way, the driver's thread freeing vectors while the caller restores, writes that go past the policy |
| Boot orchestration (`Restore-A1625RamEnvironment.ps1`, `AtvNative.psm1`) | the stage of the device (DFU, PongoOS, Linux) | preflight, boot, install, restore | a device that disappears between two stages |
| Codex runtime, RAM SSH, minimal rootfs, builds, read-only probes | - | straight-line set-up and readers | none that outlives one run |

How they interact. The host scripts talk to the device only through SSH: one
command per session, whose exit status and standard output are all the host
learns, so the RAM state transaction has to be atomic by itself. The host store
supplies the archive that a restoration installs and receives the one a
snapshot produces. The Wi-Fi hardware probe calls the PHY, MSI, DART, radio and
PCI layers as nested callbacks of one kernel call; the firmware fence is what
makes it safe for the outermost of them to unbind a driver whose firmware is
still loading. Threads meet there: the caller, the firmware loader and whoever
unbinds the driver through sysfs share vectors and configuration space. On the
device the holder of the Wi-Fi session, the network supervisor and the DHCP hook
share only files below `/run/a1625-wifi` and signals to the pids in them. The
uploader runs before all of these and shares no state with them.

What makes each correct: the pair of trees is replaced as a whole or not at
all, and user files are never deleted before the replacement is final; a pointer
on the host always names a whole generation, and only verified bytes are sent to
the device; registers are put back, or an error says that they were not;
hardware layers and kernel objects are released in the reverse order of their
set-up on every path; a vector, a register value or bus mastering does not
outlive the session that set it; one supervisor at a time, and the system as it
was found when it has gone; PongoOS boots only after as many bytes as were
validated, in the order of the file (only their number is validated).

## Modules

| Module | What it is |
|---|---|
| `RamTrees` | the content of a directory tree, and what `mv` does when its target is an existing directory |
| `AtomicReplace` | abstract specification: a pair of trees that one step replaces, by both trees of one archive |
| `RamStateRestore` | the restore and snapshot programs, one action per command |
| `RamStateRestoreProofs` | its theorems |
| `RamStateStore`, `RamStateStoreProofs` | save, restore and the atomic write on the host |
| `PhyRollback`, `PhyRollbackProofs` | `a1625_with_pcie_phy` for any table of steps |
| `RadioProbe`, `RadioProbeProofs` | the whole call of `a1625_pcie_domains` |
| `FirmwareFence` | patch 0003 and the threads around it; its theorems are in `PciSessionProofs` |
| `MsiVectors` | the domain's alloc and free |
| `PciConfig` | configuration space: the saved controls, the write policy, the restoration |
| `PciSession`, `PciSessionProofs` | `a1625_with_msi` and `a1625_pci_scan`: the three above composed |
| `WifiSession`, `WifiSessionProofs` | the shell programs of a session, and Connect |
| `AtomicInstall` | abstract specification: root, wrappers and marker replaced by one step |
| `DevInstall`, `DevInstallProofs` | the installation program, one action per command |
| `PongoUpload`, `PongoUploadProofs` | the uploader |
| `MC…` | values of the constants for TLC |

### RamStateRestore

A process is one SSH session: a restorer, a snapshotter or `codex-ram`. `pc` is
its next simple command, which is the granularity at which a shell runs traps.
Under `set -e` a failing command and a trapped signal lead to the same place,
the EXIT trap, hence the single action `Abort`; a signal after the trap has been
reset, and SIGKILL, are `Die`; a failing command of the rollback is `GetStuck`.
A tree is the set of generations of files in it together with the trees moved
inside it, because `mv old place` does not fail when `place` is a directory: it
moves `old` into it. `Orig` and `Local` are the files the device had before.
Two things weaken what the code guarantees: a signal handled between a rename
and the assignment after it, and a directory that `codex-ram` (`Launchers`)
makes without the lock. Both may always happen; the history variable `disturbed`
remembers whether one did, and the properties that it weakens (`TransactionInv`,
`RollbackCompletes`, `SuccessMeansReplaced`, `Atomic`) say so. `NothingLost`,
`SnapshotConsistent` and `LockGivenBack` have no such exception. `Casts` are the
sets of sessions that meet on one boot.

### RamStateStore

A generation is identified with the save that wrote it, as ciphertexts of two
saves differ (DPAPI uses fresh entropy) and the file is named by its digest.
`File.Replace` is the two renames it is documented to be, with a failure, a kill
or a power loss possible between them. `unflushed`
holds what a power loss would take. Nothing on the host keeps two saves apart;
the ones in `Careful` are those whose user waits for the others to end, and
`overlapped` remembers whether two ever ran together. What the pointer names is
promised only while none did; that a pointer file stays, that one which is whole
names a generation in the store, and that only verified state is uploaded,
always. A restoration reads only `current`. After a save that was cut between the
two renames there is none, and `current.previous` names the last reported
generation: `LastSaveRecoverable` says that nothing worse happens (`current` is
never an older generation), and `InterruptedKeepsCurrent`, which is what the
README of that directory says, is the violation `ramstore_interrupted`.

### PhyRollback

The bits under a mask are a cell, a step is a read-modify-write of one cell, and
the table is the constant `Steps`; `MCPhyRollback` gives it nine steps with the
shape of the table in the code: cells set and cleared again in nested order, one
cleared and set again around another's step, two masks of one register, and the
prefix that `inspect_prefix` runs. Any read may return all ones, and a write
may leave any value in its cell. `orig` and `hist` are history variables.

### RadioProbe

The layers are nested callbacks, so a single `pc` stands for the call stack and
the `Leave…` operators for the returns. `hw` is the hardware as the property
needs it (a layer is as found, set, or left in between), `obj` the kernel objects
registered. The loops over the domains count up, the cleanup counts down
(`FirstOf`). Each step succeeds or fails, and a failing write may have taken
effect or not. Error numbers are not distinguished. The PHY and the MSI domain
with the PCI scan appear as the summaries that the module needs: set up, left
dirty, or put back. `PhyRollback` and `PciSession` are their detail. `ProbeAssumption` says that
the baselines are ones the call may find: PHY off, configuration untouched, no bus
mastering. The module tells those layers apart only from that state.

### FirmwareFence

Threads are the caller of the probe, the firmware loader, and any number of
unbinders through sysfs. The driver core (device lock, `device_release_driver`)
is external and modelled from how the patch and the scan use it. The waits
are guards: `Lock` for the device lock, `WaitForSetup` for the completion. The property is
about memory that the remove path frees and hardware that the caller takes down.

`NoUseAfterFree` and `FenceInv` are what the module promises; it is run as a part
of `PciSession`, where the same threads do the rest of their work.

### PciSession

The module extends `FirmwareFence`, so that a thread's step of the fence is also a
step here, and instantiates `MsiVectors` and `PciConfig`. `stage` is the caller's
place in `a1625_with_msi` and `a1625_pci_scan`; at stage `fence` it is inside
`a1625_scan_firmware` and the fence's `pc` says where. Allocating and freeing
vectors take two steps each, around the calls of the parent domain; `op` is the
one under way, which holds the interrupt core's mutex. A register is a pair of
bus and name, and a value is `plain` or the `danger` that the policy looks for in
that register (bus mastering, another bus number, a sleep state, ...). The PCI
core writes any register while it scans and the driver while it is bound or its
callback runs, through the policy; the driver's replay of saved state goes past it. `MaxWrites` bounds
these writes for TLC only. PCI core, interrupt core and brcmfmac are external.

### WifiSession

`f` is the set of files: lock directories, pid files, the firmware timeout,
resolver, address, published listener, configuration. A pid is the name of its
process. A step is a command, or several that nobody else can see between;
TERM is handled between two commands, and the default action kills a shell whose
trap has been reset. Connect's SSH commands are separate steps, because
another Connect may come between them; each starts at most one supervisor,
which has its name. A scenario says who takes part and how many lease events
udhcpc has.

Assumed of what is outside: pids are not reused; a second is enough for a
supervisor to write its pid file or to give up (`Connect-A1625Wifi.ps1` sleeps
as long before it tests); a further lease event comes after dropbear has
written its pid file; a dropbear that has bound does not die by itself; the user
sends TERM to the supervisor once. Writing a few lines to a file in RAM is taken
to succeed, and so is the write of `listen-address` after a new listener has
bound; every program and every write to sysfs may fail.

A TERM may come at any command, also between `&` and the pid file: cleanup then
waits for a child that it cannot name, and the session ends only when that child
does. `RunnerLossEnds` names that exception (`Unnamed`).

A run of the hook may fail at `ifconfig`, at `ip route` or at dropbear, with the
old listener stopped and `listen-address` as it was (`<<"failed">>`); udhcpc
ignores it and calls the hook again with the next event. A hook that is running
when cleanup starts goes on while cleanup waits, and may start a dropbear whose
pid file cleanup removes right after it: nothing stops that one, and in a later
session a lease of its address stops the listener there is and cannot bind
another. `PublishedIsListened` holds in spite of both: whenever the last run of
the hook has succeeded, the published address is the interface's and is listened
on. What they break is `StopIsComplete`. Power save and routes are set and put
back where address and resolver are, and are left out.

### DevInstall

A tree is the sequence of its content and of what a rename put inside it.
`backup` has the copies of wrappers and marker below the lock; a copy or a
marker cut short is `Torn`. `hit` (history) says that a signal or a failure came
where the program does not cover it: between the rename of the new root and its
flag, or after the commit while the previous root is still there. The rollback
and the refinement are promised for `~hit`; an installation that dies in its
cleanup, or of SIGKILL, keeps the lock, and `OldSurvives` says what is then
still there. `stale` (history) says that a
`root.previous` was there when the lock was taken. `CopyAssumption` only says that
no copy is mistaken for the absence of one. Removals in the RAM file
system succeed, but for the last one; copies and renames may fail, also those of
the cleanup, which then stops with the lock in place (`stuck`). The download server of the host and swap
on zram are left out.

### PongoUpload

A byte is its offset in the file, and `received` is the sequence of them that
reached PongoOS, so that a byte repeated, skipped or swapped is visible. The
file may change its length between any two steps. Each libusb call may fail
before or after it took effect. The word size `Word` bounds the length that
the control request can carry.

## Runs

| Run | Instance | Distinct states | Shows |
|---|---|---|---|
| `ramrestore` | 2 restorers and 1 snapshotter, and 1 of each with one `codex-ram`; 2 generations, one with and one without credentials; signals at every command | 323,482 | user files are never deleted before a commit, though they may end up inside another tree; a snapshot sees one instant; a lock is given back unless its holder was killed or could not roll back; while undisturbed, the inductive invariant, complete rollback, honest success and refinement of `AtomicReplace` |
| `ramrestore_signal` | 1 restorer | | violation: see findings |
| `ramstore` | 3 saves, two of which may overlap, 1 restorer, 2 sets of inputs | 1,583,804 | while no saves overlapped, pointers name whole generations, and `current`, or without one `current.previous`, names the last reported save; always, a pointer stays, a whole one names a stored generation, and only verified state is uploaded |
| `ramstore_interrupted` | the same | | violation: see findings |
| `phy` | a table of the code's shape, all option combinations, two register values | 218,014 | the inductive invariant, in which the callback sees a programmed PHY; registers restored or `-EIO` |
| `radio` | the documented option sets, two that stop after the domains and two refused ones, three baselines, two domains | 1,012,718 | success means everything is as found and no object is left; objects and layers nest on every path; bus mastering only behind the DART; a signal or the loss of the driver ends an endless hold, and the call returns |
| `radio_perst` | the Wi-Fi session's options, one domain | | violation: see findings |
| `pcisession` | 2 unbinders, 8 vectors, 26 table entries, 1 write | 405,840 | teardown is safe (no use after free, no vector without its domain, mastering stays cleared); bitmap, parent and owners agree; success means configuration space as found; the table is large enough; the session implements the fence, and returns |
| `wifi` | 1 holder, 1 Connect, 3 lease events; 2 holders, 1 Connect, 1 event; 1 holder, 2 Connects; 2 addresses | 604,108 | one supervisor works at a time, and `network.pid`, `wpa.pid` and `dhcp.pid` name its processes; resolver, address and timeout as found when the locks are free; after a successful run of the hook the published address is the interface's and has a listener; Connects one after the other do not replace a live configuration; a supervisor whose runner has gone ends, or waits for a child without a pid file |
| `wifi_stop` | the same | | violation: see findings |
| `devinstall` | 3 installers, one with the compiler, 1 link | 268,581 | an old root survives until a commit; an installation ends whole or rolled back and the next may start; refinement of `AtomicInstall`; the lock is given back |
| `pongo` | files up to 5 bytes, limit 4, chunks of 2 | 2,020 | only exact and ordered payloads are booted; only an upload talks to the device |

Why the bounds suffice. Two restorers are the fewest that can compete for the
lock while a third session (a snapshot) reads; `codex-ram` meets one of each, as
both at once only add orders of the same windows; and the sessions that come after
find what the earlier ones left, among them a stale lock; the proofs lift this
to any number. Three saves are the fewest in which one is reported, the next is
cut short and a third starts from what it left; two that overlap are the fewest
that share `current.next`. They are interchangeable, and so are the inputs,
which is the symmetry used. Two domains show the loops' first, last and inner
turns in both directions. The PHY and upload tables have more steps than a chunk
or prefix, so that each boundary lies inside. In `pcisession` the vectors and
the table have the sizes of the code. One write is enough there to leave
something to restore, before or after the caller's baseline; two unbinders
compete with the caller for the device lock. The theorem removes both bounds.
In `wifi` three events change an address and bring it back; two holders and two
Connects are the fewest that can meet the other's files. In `devinstall` one
installation leaves a `root.previous`, another that is past its checks takes it
over, and a third starts from what that leaves. The proofs remove these
bounds for every safety property.

Deadlock is not checked: every process, call or upload in these models ends, and
the last state has no successor. That waiting ends is stated as a property
instead (`LockGivenBack`, `SignalEndsHold`, `SessionEnds`, `RunnerLossEnds`).

Fairness. `LockGivenBack`, for both transactions, assumes that a session goes
on: its commands end, as dropbear closes the standard input of a host that has
gone and the host kills an SSH command after a time limit. `SignalEndsHold`
assumes only that the kernel thread of the call runs; signals, faults and the
driver's failure need not happen. `SessionEnds` assumes that the caller, the
loader and every thread already releasing the driver run; nobody need unbind or
write. The loader calls back, successful or not: its request has a time limit,
which the session script sets to one second. A thread waiting for the device
lock, the completion or the interrupt core's mutex is helped by nothing but the
step that frees it. `RunnerLossEnds` assumes that shells and hooks run and that
`wpa_supplicant` and `udhcpc` end after a TERM; no process need die, no lease
need come and nobody need send a signal, so that a child which cleanup could not
signal need not end either. `wifi_stop` is under the same fairness.

## Theorems

| Theorem | For every | Assuming |
|---|---|---|
| `RestoreTypeCorrect`, `LockExclusion` | sets of sessions and generations | nothing |
| `TransactionCorrect`, `RestoreIsAtomic`, `RollbackIsComplete`, `SuccessIsReplacement` | sets of sessions, launchers and generations | nothing; what they state ends when the transaction is disturbed |
| `KeepCorrect`, `RestoreLosesNothing`, `SnapshotsConsistent` | sets of sessions, launchers and generations | nothing: signals at any command |
| `StoreCorrect`, `StoreNamesWhole`, `StoreKeepsLast`, `StoreKeepsPointer`, `StoreUploadsVerified` | sets of saves, restorations and inputs | nothing |
| `PhyTypeCorrect`, `PhyUndoable`, `PhyReadyInOperate`, `PhyRestoredOrReported` | table of steps, cells and values | the table's own well-formedness |
| `ProbeCorrect`, `ProbeTypeCorrect`, `ProbeSuccessIsClean`, `ProbeNeverUnreset`, `ProbeObjectsOutlive`, `ProbeLayersNested` | number of domains, set of options and baseline | `ProbeAssumption` |
| `FenceCorrect`, `FenceProtects` | set of unbinders | caller, loader and unbinders are different threads |
| `SessionKeepsFence`, `SessionCorrect`, `SessionTeardown`, `SessionVectors`, `SessionRestores`, `SessionTypeCorrect` | set of unbinders, number of vectors, table entries and writes | the same |
| `SessionControlsFit` | the same | at least 26 table entries, which the code has |
| `WifiCorrect`, `WifiTypeCorrect`, `WifiOneSupervisor`, `WifiSystemRestored`, `WifiPublished`, `WifiLiveConfKept` | sets of holders, Connects and addresses, number of leases | nothing: a TERM at any moment |
| `InstallCorrect`, `InstallTypeCorrect`, `InstallOldSurvives`, `InstallEndsWhole`, `InstallAtomic` | sets of installers and links, and what each provides | `CopyAssumption` |
| `UploadCorrect`, `UploadInOrder`, `BootIsExact`, `OnlyUploads` | file, limit, chunk and word size | the limit fits the word |

Besides these, every module assumes that the names it uses for "nobody",
"missing" and the like are different from the members of its sets.

The arguments.

* `TransactionInv`. That a rollback completes is not inductive by itself; the
  invariant says for each command where the old and the new version of each tree
  are (untouched, set aside or swapped) and which flag is set. The case that
  matters is `rollback`: the flag is set exactly when the new tree is in place.
  A signal in a window, or a directory made by a launcher, sets `disturbed`, so
  that every other step may use the invariant and must keep it. Mutual exclusion
  (`LockIsHeld`) is proved first, disturbed or not, and is what lets a step of one
  session leave the invariant of the others alone.
  The refinement maps the abstract pair to the trees found at the lock until
  `committed` is set, and to the trees in place afterwards.
* `KeepInv`. Once disturbed, a tree found at the lock may end up inside
  another one, but it stays somewhere: for each command of an uncommitted session
  the invariant names the place that keeps it, in place or below the lock. The
  step that matters is `rm -rf`, which is not allowed to meet that place; it needs
  to know that nobody else leaves a tree below a lock he does not hold.
* `SnapInv`. What a snapshotter has read of the first tree is still there when it
  reads the second: restorers are kept out by the lock, and a launcher's
  `mkdir -p` does not touch a directory that exists.
* `StoreInv`. The name of a generation appears in a pointer file only after its
  bytes are whole and flushed (`CipherInv`), also when saves overlap (`NamedInv`);
  while none do, `current.next` belongs to the one save at work and the other two
  files name reported saves (`AloneInv`). `ReaderInv` says that what a restoration
  has verified cannot become false before it uploads.
* `PhyInv`. `hist[k]` is the whole register file before step k. While no undo has
  failed (`restored`), the saved value of each applied step is what `hist` says,
  and undoing the last applied step gives `hist` of it, whether or not two steps
  wrote one register (`Undoable`). A failed undo clears `restored` and sets
  `-EIO`, which nothing clears again.
* `ProbeInv`. Each layer is a set of program counters that contains the set of the
  layer inside it. Objects exist exactly while `pc` is in the set of their
  layer (`ObjectInv`), whatever failed. Registers differ from the baseline only
  inside their layer as long as `ret` is `ok` (`PhyInv` to `ConfigInv`); a failed
  restoration sets `ret`, which nothing resets. `SuccessIsClean` is the case where
  `pc` is in none of the sets. For the loops the invariant says which domains are
  behind the counter.
* `FenceInv`. Memory is freed only by a thread that holds the device lock and
  has seen the completion; the loader completes on both its exits before it
  asks for the lock; the caller takes hardware down only when nothing is bound.
* `SessionInv`. The session's steps are steps of the fence or leave its variables
  alone (`SessionKeepsFence`), which carries `FenceInv` over. On top of it
  `MsiInv` relates bitmap, parent and owners, also inside an allocation;
  `StageInv` says what exists at each stage of the caller; `HolderInv` who may
  hold a vector there, and `MasterInv` whether the radio may master the bus. The
  step that matters is the caller's removal of the host bridge: by `FenceInv` no
  driver is bound and no callback runs, by `HolderInv` then nobody has a vector.
* `RestoreInv`. Whatever differs from the baseline is in the table of saved
  controls or among the registers that the restoration names, so that a
  restoration with no error leaves nothing. With `SessionInv`, which says that no
  vector is left either, it gives `ConfigRestored`.
* `AllControls`. Which registers of the two functions the scan saves depends on the
  options and on the capabilities found. With all of them there are at most 26,
  and the table holds a subset of those.
* `WifiInv`. Two locks carry it: `HoldInv` says what only the holder of the session
  lock does, `SupInv` and `NetInv` what only the owner of the network lock does,
  and that its children are gone before it unlocks or else the lock stays.
  `ListenInv` and `PublishInv` follow the one listener that has no pid file yet,
  and say at each command of the hook what the published address still means: a
  run that fails promises nothing, and the next one that succeeds either finds a
  live listener on its address or binds a new one.
  The types need `NetInv`, because cleanup copies a backup back that must be there.
* `InstallInv`. The owner's `pc` and flags say where the root it found is
  (`RootInv`), which wrappers are replaced and where their copies are (`WrapInv`);
  `SafeInv` is what remains of this when the owner stops anywhere, and `FreeInv`
  says that without a hit nobody leaves a `root.previous` to the next. The refinement
  maps to what was found until the commit and to what is in place after it.
* `UploadInv`. What PongoOS received is a prefix of the file read, as long as the
  count of bytes sent; the count of bytes announced is the validated length.

Some invariants are theorems and are not run: the type invariants of
`RamStateRestore`, `PhyRollback`, `PciSession` and `PongoUpload`, `LockIsHeld`,
`PhyReady`, `UploadInv` and `FenceInv`. The inductive invariants were checked with TLC
before they were proved.

Only model-checked: liveness under fairness (`LockGivenBack` of both transactions,
`SignalEndsHold`, `SessionEnds`, `RunnerLossEnds`), which is beyond the prover; and
the violations, which are behaviours of small instances. Every invariant, action
property and refinement that a passing run checks is also a theorem.

Two of the proofs corrected the model before they went through. `ProbeInv` was
not inductive as long as the cleanup of the domains counted up; the code counts
down. `PublishInv` failed for the listener that an earlier session left over, in
a scenario of two sessions after each other that was outside the bounds of the
run; the property now says what holds with such a listener too.

## Findings

1. `ramrestore_signal`. `ram-state/README.md:57-58` promises rollback on
   catchable termination. `mv` and the flag assignment after it are two
   commands (`A1625RamState.psm1:229`, `:230`); a HUP, INT or TERM that arrives
   during the `mv` is handled between them. The rollback then takes the new tree
   for the old one's place and moves the old tree inside it. Nothing is lost
   (`NothingLost` holds), but the tree is not as it was.
2. `ramstore_interrupted`. `ram-state/README.md:61` says that an interrupted save
   leaves the previous current generation intact, and `:9` that
   `current.previous` is never selected automatically. `File.Replace`
   (`A1625CodexState.psm1:172`) first renames `current` to `current.previous` and
   then `current.next` to `current`. A save cut in between leaves no `current`,
   and a restoration, which reads only that, fails; the last reported generation
   can be had only through `current.previous`, by hand.
3. `radio_perst`. The message and the README say that PERST is left low when the
   power rollback fails. If the observer has already failed to reassert PERST,
   it is high.
4. `wifi_stop`. `wifi/session-workflow.md:78-79` tells the reader to verify that
   lock and pid files disappear and children exit, `:85-86` says that the runner's
   end triggers network cleanup, and `acceptance-2026-09-09.md:69` that all three
   children were gone after a stop. Three behaviours break it. The one TLC shows:
   the supervisor is in its cleanup, the holder's cleanup sends TERM to it as
   well (`hold-wifi-session.sh:10-12`), and as the trap has been reset by then
   (`network-session.sh:18`) the TERM kills it there, with `network.pid` and the
   lock in place. A TERM between `&` and the pid file (`network-session.sh:50-54`,
   `:66-69`) leaves a child that cleanup does not signal and waits for. A hook
   that is still running starts a dropbear (`wifi-dhcp.sh:41`) after cleanup has
   signalled the listener, and nobody stops it.

Not a finding, as no document speaks of it: two saves at once share
`current.next`, and one that is interrupted after truncating it can have the
other install the torn file as `current`. `PointerNamesWhole` is therefore
stated for `~overlapped`. Two Connects that overlap may also replace a live
`wpa.conf`, as the one looks for a supervisor before the other has started it.
The comment at `Connect-A1625Wifi.ps1:206` speaks of a supervisor that is alive
already, so `LiveConfKept` is stated for Connects one after the other (`serial`).

## Not modelled, and why

* Archive inspection, DPAPI, SHA-256 and the SSH transport: pure functions and
  process plumbing. They appear as predicates (`DigestMatches`,
  `FingerprintMatches`) or as a step that succeeds or fails.
* The other kernel patches (all but 0003): changes of constants, masks and log
  lines in code that is not in this repository.
* Boot orchestration: one sequential script of checks, each of which throws
  before the next stage; what it starts is modelled above.
* The Wi-Fi profile module, Enter and Test: a parser, a formatter and readers.
* Codex runtime, RAM SSH and the root file system: straight-line set-up of one
  boot.
* Read-only probes, builds, pinned sources, inspection tools: no state that
  outlives a run, nothing concurrent.
* Delays and time limits, except as steps that may fail.

## Plan

Modelled in this order because a loss of user data is worse than a failed
boot, and a wrong order of hardware steps worse than a refused one:

1. done: `RamStateRestore` with `AtomicReplace`, then `RamStateStore`.
2. done: `PhyRollback`, `RadioProbe`, `FirmwareFence`.
3. done: `PongoUpload`.
4. done: `WifiSession`.
5. done: `DevInstall` with `AtomicInstall`, a second implementation of an atomic
   replacement.
6. done: `MsiVectors`, `PciConfig`, and `PciSession`, which composes them with the
   fence.
7. `BootRestore`: the stages from DFU to a restored environment, with the device
   going away between two of them.
8. done: the safety properties of every module, for every instance.
