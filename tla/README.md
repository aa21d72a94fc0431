# linux-stack: a verification development

This directory holds TLA+ models of the drivers in `src/`, the TLC
configurations that check them on small instances, and TLAPS proofs of what
should hold for every instance. The repository is a collection: two
generations of a PCI(e) driver for the WCH CH365/CH367/CH368 bridge chips
with their user library and demos, GPIO, LED and SDIO drivers, and some thirty
one-topic kernel modules (`linux_tips`). The CH36x driver of
`src/pcie/ch36x_linux-main` ("driver B") is the part with the most logic and is
modelled down to single port accesses; the older one of `src/pcie/CH36X_LINUX`
("driver A") with its library and console demo call by call, its handler and
its poll step by step; the small modules as plans, one per source file, carried
out by one model of a module's life.

## 1. Inventory

| Component | Source | State it keeps | Operations | What makes it correct |
|---|---|---|---|---|
| Driver B, interrupts | `pcie/ch36x_linux-main/drv/ch36x.c` 564-699, 872-920 | `intmode`, `io_mutex`, fasync list; chip: INTCR, status latch | ENABLE_INT, DISABLE_INT, fasync, release, interrupt handler | record and chip agree; no signal without a cause; no edge lost; no interrupt storm; off after the last close |
| Driver B, life | same, 658-676, 1006-1162 | class, device numbers, `g_dev_count`, `g_private_head`, one `ch36x_dev` per device | init, exit, probe, remove, open, lookup by minor | nothing leaks on any failure; nothing is used after it is freed; one device per minor |
| Driver B, registers | same, 269-464, 713-870 | chip registers | 18 read/write commands, 2 block commands | an access is atomic and moves exactly what was asked |
| Driver B, SPI | same, 466-562, 854-864 | `spimode`; chip: SPICR, GPOR | SET_STREAM, STREAM_SPI | a transfer is one frame, in one mode, and puts the pins back |
| Library B | `pcie/ch36x_linux-main/lib/ch36x_lib.c` | none | one function per command | argument structs mean to the driver what they mean to the library |
| Demo B | `pcie/ch36x_linux-main/demo/ch36x_demo.c` | chosen mode, flags | menu | handler installed before interrupts arrive |
| Driver A, interrupts | `pcie/CH36X_LINUX/drv/ch36x.c` 783-936, 1027-1100, 1386-1429 | enable bit of INTCR, registered handlers, `poll_flag`, wait queue | open, ENABLE_INT, DISABLE_INT, release, poll, the three handlers | no handler leaked or freed twice; a posted event reaches a poller |
| Driver A, life | same, 1430-1526, 1606-1862 | class, number range, `g_dev_count`, `g_private_head`, what each device holds | init, probe, registration, exit | what a failed probe or exit leaves; the class is there while it is used |
| Driver A, registers | same, 277-781, 992-1385 | chip registers | one function per width, block functions, the ioctls | success means that what was asked for was done |
| Library A | `pcie/CH36X_LINUX/lib/ch36x_lib.c` | `child_pid` | one function per command, CH36xSetIntRoutine with its forked child | as the driver; no child left behind |
| Console demo A | `pcie/CH36X_LINUX/demo/ch36x_demo_CMD.c` | `dev_fd`, base addresses, `retval` of each loop | four menus, ten loops | what it says is what happened, to the device and register the user chose |
| GTK demo, interrupt demo A | `pcie/CH36X_LINUX/demo/ch36x_demo_GUI.c`, `ch36x_demo.c` | as the console demo | windows over the same calls | as the console demo |
| GPIO drivers | `gpio_wakeup/*` | `led_toggle`, `old_jiffie`, irq, pins | init, exit, read, write, handler | nothing left behind; one toggle per accepted edge, over wrapping jiffies |
| SDIO driver | `sdio-char/driver/sdio.c` | claimed host, cdev, class | init, probe, remove, exit | host released; remove returns |
| LED drivers | `driver-mode/*` | one global register mapping | init, exit, probe, remove, open, write, release | a file writes through a mapping that is there |
| Deferred work | `linux_tips/{timer,delayed_work,workqueue_*,tasklet_*,kthread*,soft_irq}` | timers, works, tasklets, threads | init, callback, exit | nothing runs after exit; exit returns |
| Other tips | `linux_tips/{proc,ioctl,sysfs,read_file,firmware,kprobes,char_dev}` | what init registered, a few globals | init, exit, read, write | nothing left behind; end of file per reader |
| Hello modules | `testmodules`, `helloworld`, `linux_tips/{cpu_num,export_fv}` | a chrdev number at most | init, exit | nothing left behind |
| Build, debugger, device-tree files | `makefile`, `debug`, `device_tree_example` | none | none | none |

How the parts of driver B meet: the library calls the driver through ioctl;
every ioctl looks its device up on an unlocked global list by minor number,
then runs under that device's `io_mutex`. `release` and the interrupt handler
do not take the mutex; the handler shares INTCR, the status register and
`intmode` with the ioctls, and reaches user space by `kill_fasync` (SIGIO).
The PCI core calls probe and remove, one at a time per device, beside all of
that; open files hold a reference to the module, not to the device.

In driver A an ioctl holds one mutex for all devices from end to end, so what
interleaves is whole calls, the handler's steps and poll's steps; open, release
and the handler take no lock. Its library turns the interrupt routine into a
forked child that inherits the open file, so that release may come long after
the parent's close. The small modules meet only the kernel: the module loader,
the file layer, timers, queues, threads and interrupt lines.

What is hard about it all: interleavings of port accesses of two threads and the
handler; read-modify-write registers; the ladder of undo labels; the lifetime
of a `ch36x_dev`; a failure in the middle of a transfer; the binary interface
between library and driver; sequences of legal calls on driver A that leak; and,
in the small modules, what init started against a failing init or an exit that
does not wait. `PROJECT.json` lists each such place under
`hazards`, with the properties aimed at it.

## 2. Modules

`SignalGate` is the abstract promise of the interrupt path: a round of signals
needs a grant, a grant is only made while interrupts are authorised, one grant
pays for one round. One round may come late (after DISABLE_INT), a second
may not.

`Ch36xInterrupt` is one device under driver B. Variables are the driver's
fields by name (`intmode`, `mutex` for `io_mutex`, `async` for `fasync`), the
chip (`intctr`, `inta`, `pin`), and for each thread its place (`pc`) and its
locals (`ctrlval`, the ioctl's argument). One action is one port access, one
lock operation or one assignment, because those are the points at which
another context can come between: `TriggerRead`, `TriggerWrite`, `EnableRead`,
`EnableWrite`, `EnableAck`, `SetMode` are `ch36x_enable_interrupts`, the
`Disable*` actions and `ClearMode` are `ch36x_disable_interrupts` (entered
under the mutex by DISABLE_INT, without it by `Release`), `Isr*` are
`ch36x_isr`. The chip is external and its behaviour is inferred from the
driver: an edge-triggered interrupt comes from the latch INTA, a
level-triggered one from the pin. A status register is read only to be written
back without INTA in enable and disable, so that is one step. `owed` and
`absorbed` are history variables.

`Ch36xDriver` is the module and its devices. `mod` walks through `ch36x_init`
and `ch36x_exit`; `dpc[d]` through `ch36x_pci_probe` and its labels, and
through `ch36x_pci_remove`; `held[d]` is what the device has acquired. The
list is modelled by its `next` pointers with the real insertion and removal,
and file operations walk it one pointer at a time, with the next one looked up
beforehand as `list_for_each_safe` does (`cur`, `ahead`). `kfree` turns every
pointer to the entry into `Freed`; what the struct still stood for then is lost
to the driver and goes to `left`. Nothing keeps the probes and removals of two
devices apart, as nothing does in the code: they read and count `g_dev_count`, and
change the list, without a lock. `miscounted`, `tangled` and `overtaken` are
history variables for what can come of that, `removed` says whose struct a
removal, rather than a failed probe, has freed. `Stray` is the return of an
operation that has read freed memory.

`RegisterFile` (over `RegisterOps`) is the abstract promise of register
access: each successful access takes effect at one instant, whole. `Ch36xRegs`
is the library's argument structs, the driver's reading of them, the access
under `io_mutex`, block transfers byte by byte, and the interrupt handler's
unlocked write-back of the status register, which is therefore `Volatile` in
the abstract specification. `settled` is a history variable: the registers
without the block that is just being written. The refinement maps the abstract
store to it. Where the caller's memory faults, `copy_from_user` fills the rest of the
destination, here the registers, with zeros (`FillRest`); so a failed write of
`RegisterFile` stores a first part of its bytes and zeros for the rest.

`Ch36xSpi` is SET_STREAM and STREAM_SPI, with clients that write GPOR
themselves through WRITE_IO_BYTE, and a device that can be pulled and then
reads as all ones. `frame` is a history variable: what the peripheral saw since
its select line last fell.

`LegacyInterrupt` is driver A's interrupt path and the part of its library that
forks. `on` is the enable bit, `actions` the handlers that `request_irq` has
registered; `ch36x_fops_open` clears the bit, `LockEnable` and `RequestIrq` are
the two steps of ENABLE_INT, `ch36x_fops_release` frees a handler if the bit is
set, after the last holder of a file is gone (`holders` counts the forked
children in). `IsrFlag`, `IsrWake`, `IsrAck` are the handler, `PollWait`,
`PollTest`, `PollWoken` the poller, without a lock between them. `clean` is a
history variable: so far one user, one enable, one routine at a time.

`LegacyProbe` is its life: `Steps` is what probe acquires in order, `GivenBack`
what the label of a failed step undoes (through the addresses in the structure,
which `stored` says are not there yet when `ioremap` fails), then
`ch36x_register_chrdev` with the class and the number range that all devices
share, and `ch36x_exit`, which does for all devices what the empty remove
function does not: its loop, `CloseClass`, and last `pci_unregister_driver`
(`EndExit`), until when a device can still be probed beside it. `class` distinguishes
the pointer from the object: null, good, an error, or gone. `late` is a history
variable: a device was listed after exit had begun.

`LegacyRegs` is every library call that reaches the driver, through the ioctls,
to the register functions. Memory and registers hold names for the bytes they
had at first, so that a property can say which byte went where; the caller's
memory ends in cells he may not access. A refused config access reads what was on
the stack; `get_user` on a fault yields 0 and the write is made.

`LegacyDemo` is the console demo: menus, the device opened again at each turn of
the operation menu, and the ten loops as records that differ in where the result
is kept and whether it is looked at; the hex conversions are modelled by what
they compute.

`ModuleLife` carries out a plan: the steps of a module's init, each with the list
of labels its failure jumps to, and the releases of its exit. `held`, `pending`
and `busy` are what the kernel has registered for it, what is queued, armed or
raised, and what is executing. Releases wait or do not wait for a callback as
`free_irq`, `tasklet_kill`, `kthread_stop`, `destroy_workqueue`, `del_timer` and
`cancel_delayed_work` do. A call on a pointer that was never set ends in `oops`.
`ModulePlans` has the twenty-six plans, each read off one source file, and the
sets that name the exceptions. Keeping plans as data lets the theorems speak of
every module whose plan meets a condition that TLC evaluates.

`GpioButton` is the handler of `gpio_intr.c` and `gpio_wakeup.c`, jiffies counting
modulo `Wrap`, and the file that sets the same pin. `TipFiles` is the LED
drivers' global mapping and the proc file's one `len`, with several users.

`MC*` modules give TLC the values a configuration file cannot write. `MCModules`
and `MCLegacy` check several modules that share no state in one run: each
behaviour picks one part and leaves the others as they start, so the states add
up instead of multiplying. The modules that end in `_proofs` hold the theorems.

Definitions marked "Mutant" are plausible mistakes in the code, one per
property: each run must fail when one of them replaces the real definition.

## 3. Runs

| Run | Question | Bounds, and why they are enough |
|---|---|---|
| `interrupt` | Do driver and chip agree, are signals gated, is every edge served, is what the chip asserts claimed, does every call return? | 2 threads: any pair of calls meets; 1 file (see below); both register layouts (CH365; CH367, which CH368 shares); three of the four modes, LOW and HIGH for level, FALLING for an edge, which sets both trigger bits; the line is shared and the latch sets even while disabled, the less kind choices |
| `driver` | Does any failure leak, can anything be used after free, are minors unique, does an open file find its device, do insmod, rmmod and every file operation end? | 2 devices, probed and removed side by side in every order (list of 0 to 2 entries, each position of removal); 1 file, whose walk meets the removal of the other device; 1 plug-in per load, so that a device comes back after an unplug while the other is in use; count modulo 3, so that it comes round |
| `regs` | Are accesses atomic? | 2 callers, 2 spaces of 2 bytes, blocks up to 2, 4-byte longs |
| `spi` | Is a transfer one undisturbed frame? | 2 threads, up to 2 bytes each way, two modes that differ in both bits |
| `legacy` | Does a sole user of driver A leak anything, is a posted event seen, what do probe and exit leave behind, does success mean done, does the demo tell the truth? | 2 processes, 2 children, 2 files, 2 handlers: a second of each is what the code does not reckon with; 3 devices, so that one can fail between two good ones; 2 calls, every function, at every offset up to one past the range, on buffers that fit and that do not; 2 nodes, texts of up to two signs and four longer ones |
| `modules` | Does any of 26 modules leave something behind, keep a callback, a thread or an open file without its code, free what is not its own; does its exit return? Is debouncing exact, do presses flip the pin, do LED and proc files serve one user at a time? | every plan, every failing step; each callback at most once queued and once running, which is what the kernel allows; jiffies of 8 values from 5 on, watched for 14 ticks, so that they wrap twice around a window of 3; 2 users, 3 opens |
| `interrupt_switch`, `interrupt_lost_edge`, `interrupt_ch365_off`, `regs_config`, `regs_read`, `spi_gone` | statements of the library's documentation that the code does not keep | see `findings` |

What the passing runs assume of the clients, each a named constant:

- `Switching = FALSE`: a client issues DISABLE_INT before it asks for another
  mode, and all agree on one mode, as the demo does. With TRUE the trigger bits
  of two modes mix (`interrupt_switch`).
- `Files = {f1}`: one open file per device at a time. With two, release of one
  file runs without the mutex beside the other's ENABLE_INT, and the chip can be
  left enabled. The theorems that need it
  state it (`OneFile`).
- `Modes` does not hold "NONE": with mode 0 ENABLE_INT sets the enable bit and
  leaves `intmode` INT_NONE.
- `Surprise = FALSE`: nobody pulls a device that has open files (`InUse`), and nobody
  opens one that is on its way out. Any other device may be pulled at any time,
  open files and running calls on its neighbours or not. With TRUE `SafeUse` is false:
  `ch36x_pci_remove` waits for nobody.

What `driver`, `regs`, `legacy` and `modules` exempt, each by a named set or a
history variable, because the code does fall short there and no document
promises otherwise:

- `overtaken`, `tangled` (`SafeUse`, `OpenFindsDevice`, `CallsReturn`): an idle device is
  unplugged, and the walk of a file on another one stands on its entry or is about
  to go there, which is a use after free; or `list_add_tail` and `list_del` of two devices
  cross, after which `prev` pointers may be wrong. Both are reachable in the run.
- `miscounted` (`UniqueMinors`): a probe reads `g_dev_count` between another's read and
  its increment, or the count comes round: two devices get one minor. Reachable too.
- `removed` (`NothingLeaks`): a removal has no `pci_disable_device`, so it leaves the
  device enabled, and nothing else; a failed probe leaves nothing.
- `Volatile` (`AtomicRegisters`): the status register, which the handler writes back
  whole as it read it, undoing a client's write in between.
- `clean` (`SoleUserFreesIrq`): with a second open, a second enable or a failed
  fork, driver A leaks a handler, frees one that is not there or loses a child.
- `RegistrationFailed`, `late`, `KnownLeft` (`ExitReleasesListed`): a failed registration
  destroys the class under other devices; a device that is listed after exit has begun
  stays, or uses a class that is gone; a device may stay enabled, and one whose
  memory could not be mapped keeps its ports mapped. The range of device numbers stays
  once a device has been listed: it is allocated as one range of CH36x_DEV_NUM (1465), and
  exit unregisters one number per device (1834), which matches no range, though the
  comment above it (1833) says that it releases the number. Assumed rather than exempt:
  no two probes of driver A overlap (they would share a static variable as well),
  and a device is probed once.
- `Unreliable` (`SuccessMeansDone`): config accesses past offset 255 or
  misaligned, io blocks that touch memory the caller may not access.
- `Repeats`, `Silent` (`DemoTellsTruth`): loops that say an old result again or
  do not look at it.
- `Leaky`, `Unsynced`, `Careless`, `EarlyNode`, `Blocking` (`ModuleLife`): the
  modules, by name and with the reason in `ModulePlans`, of which one of the
  properties is not claimed. Every other module keeps every property.

`regs` leaves out config space because its writes do not arrive
(`regs_config`). A little-endian machine is assumed there.

Fairness. `interrupt`, `regs`, `spi`: a thread that can take a step of its call
does (it is running kernel code); a mutex that becomes free again and again is
granted to each waiter in the end (strong fairness: the kernel's mutex hands
over to a waiter that has been bypassed); the CPU takes an interrupt that stays
asserted. `driver`: init, exit, probe, removal and a file operation that have
begun go on. `legacy`: the handler runs when it is due (a raised interrupt is
taken), and a poller that can go on does. `modules`: the task in init or exit
goes on, and a queued callback is run and ends; the outside world, which raises
interrupts, opens files and types rmmod, is under no obligation. `timer` and
`delayed_work` arm themselves for ever, so fairness of their callbacks does not
end them; exit returns all the same. Nothing forces a client to call, the pin to move or a device to
come or go.

## 4. Proofs

Every invariant and every action property of the passing runs is also a theorem:
the run shows it on a small instance, the theorem for every value of the
constants that the named assumptions allow. Each proof follows the same
pattern: an inductive invariant, one lemma per conjunct or kind of step, and a
theorem that combines them.

`Ch36xInterrupt_proofs`, for every set of threads, chip, mode and line:

- `TypeCorrect`: `Spec => []TypeOK`, directly inductive.
- `ImplementsGate`: `Spec => GatedSignals`, with any number of files, with
  clients that follow no rule at all. The step simulation rests on `ClaimNeedsMode`:
  the handler passes from `decide` to `post` only when `intmode` is set (or the
  chip is a CH365). All else stutters or changes one abstract variable.
- `OneFileInvariant`: under `OneFile`, `Spec => []OneFileInv`. Agreement of
  `intmode` and INTCR is only claimed at rest, so it is not inductive: the
  invariant adds who holds the mutex in which step (`MutexGuards`), that release
  runs alone when there is one file (`ReleaseIsAlone`, which stands in for the
  lock release does not take), and what INTCR holds at each step of enable and
  disable (`Progress`).
- `OneFileModeMatches`, `OneFileClosedDisabled`: the invariants
  `ModeMatchesChip` and `ClosedMeansDisabled` from it.
- `OneFileAssertedIsClaimed`, with `Switching = FALSE` on top: agreement of
  `intmode` and the enable bit does not say that the trigger is the one of the
  mode, so the invariant adds that clients name one mode at a time (`OneMode`) and
  that INTCR's trigger bits are those of that mode or none (`ExactTrigger`).
- `NoLatchedEdgeDropped`: `EdgeStaysLatched` for any number of files and with
  switches of mode. It is inductive with `PostedOwesNothing`: between its signal
  and its acknowledgement the handler owes nothing for what it read.

`Ch36xDriver_proofs`, for any number of devices, files and plug-ins:

- `DriverInvariant`: `Spec => []DriverInv`. `Resources` says of every resource at
  exactly which steps of probe, unwind and remove a device has it; `Orphans` that
  a freed struct stood for nothing, or after a removal for the enabled device only;
  `List` that, until list operations cross, the `next` pointers lead from listed devices
  to listed devices or the head, never two to the same (`Chain`), which is what makes
  `list_del` safe; `Stages` ties the module's class, numbers and registration to where
  init or exit is; `Bus` keeps a device plugged while it is bound step by step. It
  holds for devices probed and removed side by side, and with surprise removal.
- `DriverTypeCorrect`, `DriverHandlerHasDevice`, `DriverNothingLeaks`,
  `DriverFrameworkOutlives` follow from it. That nothing is left is not built in:
  `kfree` moves what is still held to `left`, and `Orphans` is preserved because
  `Resources` says that at the step before only that much is.
- `DriverSafeUse` assumes `Surprise = FALSE`: no device in use leaves (`Calm`). `OnTrack`
  follows the walk: both its pointers are on the list unless it was overtaken, in
  which case they still point at worst to what was unlinked and not freed or to
  `Freed`; and what it finds is a device that stays (`Staying`).
- `DriverOpenFindsDevice`, under the same assumption: `Found` adds that a device
  of the file's minor stays from the moment open returns.
- `DriverUniqueMinors` needs no assumption. `MinorsInv`: as long as nothing was
  miscounted, the numbers counted are below `g_dev_count` and distinct, and at most one
  device has a number that is not counted yet, which is `g_dev_count`.
- `DriverListEnds`: that no set of listed devices leads only into itself is
  inductive on top of `List`, at `list_add_tail` because the new entry leads to the
  head, at `list_del` because a set closed without the entry was closed with it.

`Ch36xRegs_proofs`, for any threads, spaces, extents, lengths, `Long`:

- `RegsInvariant`: `Spec => []RegsInv`: the mutex excludes, each call is as far as
  its step says, and `regs` is `settled` with the first `done` bytes of the block
  that is being written put into it (`Settled`).
- `ImplementsRegisterFile`: under `NoConfig` (no config space, where writes do not
  arrive), `Spec => AtomicRegisters`. An access is its own linearization point; a
  block's is its end, which works because the handler, the one writer without
  the mutex, keeps out of memory space. `PutNothing`, `PutNext`, `PutElsewhere` and,
  for a block that faults, `PutCut` and `PutWhole` are the facts about partial blocks
  it rests on: a prefix of the data with zeros put after it is the cut data put
  whole.

`Ch36xSpi_proofs`, for any threads, modes and lengths, with the device
disappearing at any time:

- `SpiInvariant`: `Spec => []SpiInv`: the mutex excludes, and while the device
  answers, `Transfer` says what SPICR, GPOR and the frame are at each step of
  the one transfer under way. Types are part of it: that the frame is no longer
  than asked for needs `Transfer`.
- `SpiTypeCorrect`, `SpiFrameIntact`, `SpiModeSteady`, `SpiPinsRestored` follow.

`ModuleLife_proofs`, for every set of modules and plans; each theorem rests on
`PlanAssumption` (types) and one condition on the plans, which TLC evaluates for
the twenty-six of `ModulePlans` in the run `modules`:

- `LifeTypeCorrect`.
- `LifeNothingLeftBehind`, from `CoverAssumption`: at each step that can fail, what
  init has acquired is named by the labels it jumps to, and at the end of init by
  exit. The invariant `HeldCovered` carries that through the phases: what is held
  is within what init got, then within what the ladder or exit still lists.
- `LifeCallbackHasModule`, from `SyncAssumption`: the ladders and exit wait for all
  that was started. `RunningCovered` says it of what runs, is queued or can be
  raised; `ReleaseStops` is the fact that a release which waits leaves nothing of
  its callback, and `OrderlyTail` that work queued by exit is waited for later on.
- `LifeOpenFileHasModule`, from `NodeAssumption`: no step fails after the device
  file shows, and exit takes the proc file, which holds no module reference.
- `LifeReleasesOwn`, from `CareAssumption`: the lists of releases free no pin and
  call nothing through the module's handle (`Harmless`), and init calls through it
  only after steps that ensure it (`Ensured`). `CareCovered` carries both along.

`Tips_proofs`:

- `ButtonDebounceExact`, for any width of jiffies, start value and window below a
  wrap, rests on `UnsignedDifference`, that subtraction modulo w of two readings
  less than a wrap apart is the time between them, and on the stamp being what
  jiffies was (`StampInv`); `ButtonPressFlips` on `PinInv`.
- `FilesLedAlone` (the one user of an unshared LED file has the one mapping,
  `LedInv`) and `FilesReaderAlone` (`ProcInv`), for any users and opens.
- `TipsTypeCorrect`: the type invariant of `MCModules`, whose behaviours move one
  part and leave the others alone, from the three type theorems.

`LegacyDriver_proofs`, for any processes, children, files, handlers and devices:

- `LegacySoleUserFreesIrq`. The claim is about closed files; the invariant
  `SoleUser` adds that meanwhile the enable bit says whether the handler is
  registered, except between the two steps of ENABLE_INT, which the ioctl lock
  singles out (`Requesting`), and `FilesHeld` that whoever is in a call holds an
  open file, so that release, which takes no lock, comes when nobody is between
  those steps.
- `LegacyNoSleeperMissed`: `NoSleeperMissed` is inductive given the types, since poll
  queues before it tests the flag and the handler sets the flag before it wakes.
- `LegacyExitReleases`, for any finite set of devices: `Progress` says which device is in
  probe and that the list holds those that got through and is empty after exit's
  loop, `Classy` what class and numbers are at each step of the device that creates
  them and of all later ones until exit destroys the class, `SharedClass` that
  afterwards only a probe still under way can have made one, and `Holdings` that the
  device in probe holds exactly what lies behind its step and every other unlisted
  one only what is known to be left. All but the first are claimed until a
  registration fails or a device is listed late; that this cannot un-happen is
  `FailureStays`.

`LegacyLibrary_proofs`:

- `LegacySuccessMeansDone`, for any sizes of windows and memory: no invariant is
  needed, as each call is one step; the proof says of the read, write and block
  functions what they move (`ReadMoves`, `WriteMoves`, `ReadBlockMoves`,
  `WriteBlockMoves`) and then goes through the library's calls (`NextAsks`).
- `LegacyDemoTellsTruth`, for any nodes and texts, data up to a 32-bit unsigned int
  (`DemoAssumption`), any place of the windows. `RoundInv` is the truth of the
  last round, `OpenInv` that the device whose bases the demo adds to an offset is
  the one chosen last. The register the user meant is `Denotes` of his text, a
  sum of digits times powers of 16; the demo's loops are recursive functions.
  That they agree is proved by induction over the text's length and over the
  value (`ChrToHexDenotes`, `HexToChrDenotes`): `SetInduction` derives induction
  over the naturals, stated with a set in place of the library's operator
  parameter, from the least element of a non-empty set, and `FiniteRecursion` that
  a function defined by recursion on an interval exists and is unique.
- `LegacyTypeCorrect`: the type invariant of `MCLegacy`, from those of its parts.

Only model-checked: liveness (`EdgeIsServed`, the `CallsReturn`, `LoadSettles`,
`ExitReturns`, `PostedIsSeen`), which needs fairness and ENABLED and is outside the
prover's reach. Of three of them the safety half is proved: `EdgeStaysLatched` for
`EdgeIsServed`, `NoSleeperMissed` for `PostedIsSeen`, `ListEnds` for `CallsReturn` of the
driver. These three are theorems only; the runs check the liveness properties. The runs that
expect a violation show a counterexample, which needs no proof.

Assumptions the theorems rest on, all named: those of the modules, which TLC
evaluates in the runs (`PointerAssumption`, `PlanAssumption`, `CoverAssumption`,
`SyncAssumption`, `NodeAssumption`, `CareAssumption`, `DemoAssumption` and the like),
and the hypotheses `OneFile`, `Switching = FALSE`, `Surprise = FALSE`,
`NoConfig`, each of which a passing run satisfies.

## 5. Not modelled, and the plan

Not modelled, and why:

- the demo of driver B and the GTK and interrupt demos of driver A: menus and
  windows over calls that are modelled, of the same kind as the console demo; the
  copy of library A beside the demos is the same file again;
- of driver A, the trigger bits of INTCR (the chip's trigger is modelled for
  driver B, whose handler depends on it), so that DISABLE_INT, which changes one of
  those bits and neither the enable bit nor the handlers, has no action; and
  removal of a single device, for which the driver does nothing;
- of driver B, the name of a device's node, which is a second reading of `g_dev_count`
  (1043), the end of the range of CH36X_MAX_NUM numbers, which nothing in the driver looks
  at, and, once list operations have crossed, more of the list than a lost entry;
- of driver B, the debug dump and the queries that only return constants;
- of the small modules, what their callbacks and files print, what the ioctl and
  sysfs examples read and write into single globals, and the SDIO test program;
- the unlocked read-modify-write of the LED port registers, which is one step;
- build, debugger and device-tree files, which do nothing at run time.

What is left, in this order:

1. Proofs: the abstract life of a device, so that `SafeUse` and `OpenFindsDevice` follow
   from a refinement; the safety half of `LoadSettles` and `ExitReturns` (what
   each step leaves to do shrinks).
2. `LegacyInterrupt` with the trigger bits of INTCR, and register calls that write
   INTCR beside the ioctls.
3. An abstract register file for driver A, to state `SuccessMeansDone` as a
   refinement shared with driver B.
