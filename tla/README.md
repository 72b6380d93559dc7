# GloDroid configuration: formal verification project

GloDroid turns AOSP into an image for single-board computers. Most of the repository is
configuration (makefiles, policies, overlays, patches to programs that live elsewhere);
this project models the part that is program logic of its own: the power, vibrator and
USB gadget HALs, the flattening thread its patches bring to `drm_hwcomposer`, the tools
that lay out the card, and the U-Boot script that boots it. The modules
are TLA+, TLC checks small instances of them, and TLAPS proves the most important safety
properties for every value of the constants.

Contents: [the system](#1-the-system) · [modules](#2-modules-and-the-code-they-model) ·
[runs](#3-what-the-runs-check-and-show) · [fairness](#4-fairness) ·
[findings](#5-findings) · [proofs](#6-what-is-proved) ·
[limits](#7-what-is-only-model-checked-and-what-is-not-modelled) · [plan](#8-plan)

## 1. The system

### Parts, state and operations

| Part | Source | State | Operations |
|---|---|---|---|
| Boost engine | `hals/power/GloDroidPower.h` | `boost_end_`, `boost_en_`, `exit_` under `mut_`; the worker's `boosted` and `wakeup_pt`; the `min_freq` files | `BoostFor`, `BoostEn`, constructor, destructor, `ThreadFn`, `BoostAll` |
| Power service | `hals/power/Power.cpp` | the set of enabled modes | `setMode`, `setBoost`, queries |
| Rumble device | `hals/vibrator/FFDevice.cpp` | `last_effect_id`, the driver's effect slots | `vibrate`, `off`, `create` |
| Vibrator service | `hals/vibrator/Vibrator.cpp` | the detached threads and what each has still to trigger | `off`, `on`, `perform`, `compose`, `composePwle`, queries |
| Vibrator manager | `hals/vibrator/VibratorManager.cpp` | none | answers only; `main.cpp` does not register it |
| USB gadget HAL | `hals/usb-gadget/UsbGadget.cpp` | current functions, applied flag; in configfs the linked functions, their ids and the controller they are bound to | `setCurrentUsbFunctions`, `reset`, queries, the monitor's callback |
| Partition tool | `platform/tools/parted.py` | GPT, MBR and data of an image file | `create_empty`, `add_partition`, `add_image`, `set_as_mbr_partition`, `dump` |
| Card layout | `platform/tools/gensdimg.sh` | the image file under construction | one fixed sequence of `parted.py` commands per platform and type |
| Boot script | `platform/uboot/bootscript.cpp` | on the card: partition table, message in `misc`, A/B data; in the environment: `slot_name`, `androidrecovery`, `bcb` | `bootcmd` and the functions it runs |
| Platform hooks | `platform/uboot/platform_*.h` | none | load addresses, device tree, partitions of one platform |
| Flattening controller | patches 0010, 0011, 0014 and 0016 of `drm_hwcomposer` | the request to flatten, the countdown and its switch under `mutex_`; one thread | `NewFrame`, `Disable`, `ShouldFlatten`, `StopThread`, `ThreadFn` |
| Other patches | `common/graphics`, `common/modem` | that of programs not in the repository | |
| Builds and flashing | `platform/*.mk`, `flash-all.sh`, `parted_test.sh`, the Amlogic post-processing | files | straight lists of commands |
| Declarations | fstab, init scripts, product configuration, overlays | none | |

### How they interact

`uboot.mk` builds the bootloader image with the boot script inside; `gensdimg.sh` calls
`parted.py` once per partition to lay out a card (`SD`) or an image that holds nothing but
the bootloader (`DEPLOY-*`); the card's table is what the boot script finds, with a
`userdata_placeholder` partition it renames and expands on the first boot; over `misc` the
script exchanges messages with Android and recovery, and over the A/B data behind it
counts attempts. `flash-all.sh` is the host on the other end of U-Boot's fastboot. Once
Android is up, its framework calls the HALs over binder; each HAL writes sysfs files or
an input device. The HALs do not call one another. The USB gadget HAL starts and joins the
monitor thread of libusbconfigfs, which calls back into it. The compositor tells the
flattening controller of every frame; the controller's thread asks SurfaceFlinger for a
refresh, which comes back as a frame to be flattened.

### What is hard about it

- **Threads.** The power engine has a worker thread that shares three fields with its
  callers under a lock, and waits on a condition variable *without* a predicate. The
  vibrator has one detached thread per composition or callback and *no* lock at all. The
  USB gadget has the monitor thread of an external library, which writes one field
  without the lock requests hold, and is joined under that lock. The flattening thread
  holds its mutex in the callback, and the compositor reads the request without it.
- **Time.** A boost has a deadline; a later request may be longer or shorter than the one
  in force, and the deadline may pass while the worker writes files.
- **State that outlives the process.** A frequency floor in sysfs survives the service
  that raised it; the message in `misc`, the A/B counters and the partition table survive
  any reset, and the boot script writes several of them, one after another, on a board
  whose power may go at any moment.
- **Limits and rounding.** Effect slots of the driver; durations cut to 16 bits; byte
  offsets rounded to sectors after they were checked; a card size that must hold all
  partitions.
- **Failures half way.** Writes to a DVFS node that are ignored, an upload refused after
  the previous effect was removed, a partition stored before its image is found too big,
  a fastboot that does not start.

### What makes each part correct

- *Boost engine*: the floor is up exactly while somebody wants it (the switch, or a
  deadline ahead), on all nodes alike; it ends by itself; a shorter request never cuts a
  longer one; destruction ends.
- *Power service*: LAUNCH and no other mode holds the floor.
- *Rumble device*: one effect at a time, no slot lost, silent after `off()`.
- *Vibrator service*: every request returns and every promised callback comes.
- *Partition tool*: partitions, tables and images never overlap; the hybrid MBR entry is a
  partition of the table.
- *Card layout*: the script succeeds for every platform and size, and when it says DONE
  everything is on the card.
- *Boot script*: failing slots run out of tries and end in fastboot; nothing unverified
  boots unasked; a request is served once and not lost; userdata is made ready.
- *USB gadget*: the host never sees half a gadget, nor new functions without having seen
  the old ones leave; "applied" is reported for the configured functions only; SUCCESS
  means that they are up; a request comes to its end though it joins the monitor.
- *Flattening controller*: no wake-up is lost; a screen composed of several planes is
  flattened when idle, or it is known why not; the thread ends, and calls no display that
  is gone.

`PROJECT.json` lists, under `hazards`, each place where one of these could go wrong
with the properties that watch it, or why none does. Where the code does go wrong and the
property excepts just that case, a note says so: the property then shows that nothing else
leads there.

## 2. Modules and the code they model

| Module | Models | Lines up as |
|---|---|---|
| `BoostPolicy` | what the boost engine promises: no thread, no lock, a *set* of deadlines | abstract specification |
| `GloDroidPower` | `GloDroidPower.h` | implements `BoostPolicy` (`PolicySpec`) |
| `PowerHal` | `Power.cpp` | extends `GloDroidPower` |
| `FFDevice` | `FFDevice.cpp` and the driver's slots | the resource of `Vibrator` |
| `Vibrator` | `Vibrator.cpp` | extends `FFDevice` |
| `PartedGpt` | `parted.py` | |
| `GenSdImg` | `gensdimg.sh` | extends `PartedGpt`, calls its commands, implements `PartedSpec` |
| `BootPolicy` | what a boot promises: attempts and their credits, requests, sessions | abstract specification |
| `BootScript` | `bootscript.cpp` | implements `BootPolicy` (`BootPolicySpec`) |
| `UsbGadget` | `UsbGadget.cpp` | the gadget in configfs and the monitor are external |
| `FlatteningController` | the controller and its callers in `drm_hwcomposer`'s patches | |
| `MC*` | constants for TLC | one per component checked |
| `*_proofs` | theorems | one per component proved about |

**`GloDroidPower`.** A caller's critical section is one action, because nothing in it
blocks. The worker is split where another thread may get in between: between the end of
an iteration and `wait_until` (`worker = "unlocked"`, the lock is free and nobody waits),
between the wake-up and the lock (`"woken"`), and at every write of `BoostAll`
(`"applying"`; the lock is held, so callers wait, but the clock runs, a write may fail,
and the process may die). `Notify` wakes the worker only in `wait_until`. The destructor
is three actions, the flag, the notification outside the lock, the join. `Restart` is the
process dying anywhere and starting again: the files stay as they are and the new object
takes them for the initial values. `asked`, `missed` and `tainted` are history variables.

**`PowerHal`.** `setMode` first changes the set of modes and then asks for the engine's
lock: two actions, between which the worker runs.

**`FFDevice`.** No lock: `vibrate()` and `off()` are split at every access to
`last_effect_id` and every kernel call, with a program counter and registers per thread.
That `off()` reads `last_effect_id` twice without synchronisation is a data race;
the value of the second read is left to choice. `EVIOCSFF` takes any free slot or
is refused, `EVIOCRMFF` fails on an id nobody owns, an effect of length 0 plays until it
is removed. `overlap` and `quiet` are history variables.

**`Vibrator`.** One binder thread (`main.cpp` sets the pool to none besides itself) and a
bounded number of detached ones. A call refused for its arguments changes nothing and is
left out; what is left of the argument check is the guard. Sleeps have no length: how
long any thread stays between two steps is open, which covers every length.

**`PartedGpt`.** Each action is one run of the tool, from parsing to the last write. Units
are smaller than sectors, so rounding is visible. The overlap check is the code's, with
the start of a partition's last sector taken for its end.

**`GenSdImg`.** Real sizes, in sectors of 512 bytes. `Script` is the list of commands of
the file, `RunCommand` performs the next one with `PartedGpt`'s action, `-e` is the
transition to `"failed"`. Bootloader image sizes are those `uboot.mk` gives them.

**`BootScript`.** One action per stretch of `bootcmd` between two writes to the card; a
power loss or reset may come between any two. Outcomes of U-Boot's commands (`ab_select`,
`bcb`, `fastboot`), the fastboot host and Android are external, modelled from what the
script needs of them. `starts` is a history variable, `losses` a bound. `BootPolicy` knows
neither steps nor environment: an *attempt* is what the script is about between `Count` and
the next reset, a slot's *credit* its tries, if there is a `misc` partition to hold them.

**`UsbGadget`.** One binder thread (`service.cpp` sets the pool to none besides itself), so
a request and a `reset()` never overlap and the lock is free when asked for. A
request is split where the monitor may get in between: the tear-down, the joining of the
monitor, the sleep, the set-up, the wait for the pull-up. `monitor` is the monitor thread,
with the time between a pull-up and its callback as states of their own (`"raised"`,
`"lowered"`). A set-up that fails leaves any part of its links behind; a tear-down that
fails leaves any part unlinked and the monitor running. Without a controller's name the
writes succeed and do nothing. The constructor leaves both fields uninitialised, which
is a choice of any value. `host` and `tainted` are history variables: what the host last
saw, and why the record may not describe the gadget (`"unset"`, `"unlink"`, `"late"`,
`"reset"`).

**`FlatteningController`.** A critical section is one action, except that the callback runs
inside one and takes time (`thread = "triggering"`). A frame is validated, committed and
reported, or skips the validation; what the controller is told depends on how many layers
it has and whether the GPU has them all, the GPU's buffer counting as one. `left` counts
the ticks to `sleep_until_`, `alarm` those to the end of the wait the thread is in, which
keeps the deadline it was begun with. Both waits may end spuriously. `wasted` is a history
variable.

## 3. What the runs check and show

Every passing run's properties also have a mutant each (`PROJECT.json`): a plausible bug
in a modelled definition that makes TLC find the property violated.

| Run | Bounds | States | Question |
|---|---|---|---|
| `power` | 2 nodes, one of them flaky; clock to 4, default time-out 2; time-outs −1, 0, 1, 3; 1 restart | 860,363 | Does the floor follow requests through every interleaving, and does the engine implement `BoostPolicy`? |
| `power_lost` | the same, no restart | violation | Is an unwanted boost cancelled? No. |
| `power_hal` | 1 node, clock to 3, 2 modes, 2 boosts, 1 restart | 48,834 | Does LAUNCH hold the floor? Do timed boosts end, and are requests that are heard applied? |
| `vibrator` | binder and 1 detached thread, 2 slots, compositions of 1 and 3 primitives | 125,926 | Without overlapping calls: no slot lost, one voice, silence after `off()`? With them: do all calls return and all callbacks come, the slots run out too? |
| `vibrator_leak` | binder and 2 detached threads, 2 slots | violation | Is every effect removed before it is forgotten? No. |
| `parted` | 15 sectors of 2 units, or half a sector more, tables of 2, up to 3 partitions, GPT in front or in the middle, a start at the end of the disk | 187,383 | Do partitions, tables and images keep clear of one another? Does a partition end behind its start? |
| `sdimg` | 4 platforms and a mistyped one, 3 types, 7 sizes of `super.img`, every image or none too big | 4,410 | Does the card suffice, does DONE mean complete, and do partitions keep to erase blocks? |
| `sdimg_rockchip` | the same | violation | Is every platform's image made? No. |
| `boot` | 2 slots of 2 tries, 2 power losses | 131,359 | Are attempts paid for, requests kept, served first and, for recovery, honoured, and failing boards led to fastboot? Does the script implement `BootPolicy`? |
| `boot_fallback` | 2 slots of 2 tries, no power loss | violation | Does the fallback reach fastbootd? No. |
| `usb` | NONE, 3 supported requests and an unsupported one, with and without callback, 1 death of the service | 27,208 | Is the gadget whole, is a swap sensed, are reports and answers true, do requests end? |
| `flatcon` | a timeout of 3 ticks, frames of one and several layers | 2,376 | Is any wake-up lost, does an idle screen settle, does the thread end and spare a dead display? |

Why the bounds are enough:

- *power*: two nodes are the least for "one raised, another dropped", with one flaky so
  that a failed write has a sibling. A clock of 4 lets a request of 3 be followed by a
  shorter, an equal and a default one, and each deadline to pass before, during and
  after `BoostAll`. One restart reaches every state a second one would start from: floors
  low, raised or mixed. The property of the floors is per node and proved for any number.
- *power_hal*: a mode that boosts and one that does not, a boost with a time and one
  without; the engine's own variety is in `power`.
- *vibrator*: races are between two threads: the binder and a detached one. Two slots are
  the least with which one can be lost and another still be played, and two lost ones
  leave none. The composition of CLICK, NOOP and CLICK vibrates, silences by the
  replacement and vibrates again; one is too long. The `on()` timeouts, 65,536 and
  65,636 ms, wrap to 0 and 100. A second detached thread is there in `vibrator_leak`; the
  proofs need no bound.
- *parted*: starts and sizes inside, at and across sector boundaries, requests that
  clash with each table, enclose a partition or are enclosed by one; a third partition is
  needed for one that lies between two. `GptOffsets` covers the normal layout and
  Amlogic's, with partitions in front of the GPT. A start at the end of the disk has a
  negative default size. No argument is negative: the parser's
  type would let one through, no caller in the repository passes it.
- *sdimg*: nothing is scaled down. `SuperSizes` has the values around which the whole
  MiB and GiB change. At least 8 sectors are assumed of `super.img`; a real one
  holds its metadata. With one sector the next partition would start in it. Three of the sizes
are whole erase blocks, as `EraseBlocksApart` asks.
- *usb*: a request that is pulled up at once, one that waits for a daemon, one of both
  kinds, one of none and one refused; every ordered pair of them occurs, with each
  step of the second failing. One death of the service leaves every gadget a second one
  could.
- *flatcon*: with three ticks a countdown may be renewed while a wait begun under the old
  one runs, disabled and started again within it, and expire before or after that.
- *boot*: two slots and two tries are the least for "one slot used up, the other not"
  and for "not the last try"; U-Boot gives 7. Two power losses reach a second one
  during the recovery from the first. The proofs need no bound.

`CHECK_DEADLOCK` is off for the engine (a destroyed object with the clock at its bound
does nothing more), for `gensdimg.sh` (it ends) and for the flattening controller (a
destroyed display with its thread at its end); elsewhere a deadlock is an error.

## 4. Fairness

- *Power*: weak fairness of the worker's steps, of the clock, and of the destructor's
  steps after the first: the kernel schedules a runnable thread, and a destructor once
  entered runs on. Callers, restarts and spurious wake-ups owe nothing.
- *Vibrator*: weak fairness per thread: runnable threads are scheduled and sleeps end.
  No call ever has to come.
- *USB gadget*: weak fairness of the binder thread inside a request (its sleeps and waits
  have an end) and of a callback the monitor has begun. Strong fairness of the joining: the
  order to stop stands until the monitor comes back from an event and looks at it, and it
  may be in the middle of one again and again until then. No client has to call, no daemon
  to write or die.
- *Flattening controller*: weak fairness of the thread (scheduled, its callback returns,
  its waits end at their deadline), of the clock, and of a frame once begun. No frame has
  to come, no display to go, no wake-up to be spurious.
- *Boot*: weak fairness of the script, which U-Boot runs on, and of `Crash`: an Android
  that does not come up ends in a reset (watchdog, `init`'s reboot on a failed service, or
  the user). The host, the user and the power owe nothing.

Liveness is checked without symmetry.

## 5. Findings

Each is a run that ends in a violation; `PROJECT.json` has the lines.

1. **Lost wake-up** (`power_lost`). `BoostEn(false)` between two iterations of `ThreadFn`
   notifies nobody; the worker then sleeps without an alarm, and the floor stays at
   `max_freq` until the next request. A boost may be missed the same way, and a destructor
   may wait for ever. A predicate for `wait_until` would repair it. `ParkedInStep`
   shows that lost notifications are the only way the two get out of step, `AlarmArmed` that
   no other than that of `BoostEn(false)` leaves a boost without an alarm.
2. **Lost effect** (`vibrator_leak`). A binder call that overlaps a composition's
   `vibrate()` leaves an effect in its slot that no variable names. `NoLeakWithoutOverlap`
   shows that overlap is the only cause; a lock would repair it.
3. **No rockchip image** (`sdimg_rockchip`). The bootloader image is 16 MiB − 32 KiB, its
   partition 2 MiB − 32 KiB; the script ends at its first image.
4. **Fallback without a slot** (`boot_fallback`). When the tries are used up and fastboot
   does not start, the script asks for fastbootd but has no slot to load it from, and
   resets for ever. `FallbackWithSlot` shows that it works when a slot was selected.

Met while modelling and described with the definitions: `parted.py` allows a partition to
begin in the last sector of another (`OverlapOnlyAtLastSector`), stores one that ends before
it begins when asked for a start behind the disk without a size (`BackwardsOnlyBehindDisk`), takes the last partition
of the table for a name it does not find (`SetAsMbrPartition`), and has no limit of 128
entries; `gpt write` in `enter_fastboot` names no device (`FastbootFails`);
`composePwle()` never drives the device (`ComposePwle`); NOOP is `vibrate(0)`, and a
rumble of length 0 plays until removed, as does a duration that is a multiple of 65,536
(`ReplayLength`); on Amlogic boards partitions share erase blocks of an eMMC, since the GPT
at 2 MiB shifts all that follows it by 34 sectors (`EraseBlocksApart`); until the first request the USB gadget reports two uninitialised fields,
and a late callback of the old monitor may report the functions just requested as applied
(`tainted` in `ReportIsTrue`); a successful `setCurrentUsbFunctions` returns the error -1
(`Answer` has the status given to the callback); a request to flatten may be used up by a
frame that is not flattened (`wasted` in `MixedIsAccountedFor`); a service restarted while boosted
never drops the floor (`tainted` in `FloorReleased`); a power loss between the two table
writes leaves userdata unexpanded (`UserdataReady`); with no tries left a request for the bootloader
opens fastboot twice, by the failing `ab_select` with the message still in `misc`, and, when the
host continues, by the message (`OpenSession` in `BootPolicy`).

## 6. What is proved

For every value of the constants allowed by the named assumptions (`PowerAssumption`,
`HalAssumption`, `FFAssumption`, `VibratorAssumption`, `BootAssumption`, `UsbAssumption`,
`FlatAssumption`, `PartedAssumption`, `GenSdImgAssumption`), by TLAPS:

| Theorem | Says | Rests on |
|---|---|---|
| `TypeCorrect`, `HalTypeCorrect`, `FFTypeCorrect`, `VibratorTypeCorrect`, `BootTypeCorrect`, `UsbTypeCorrect`, `FlatTypeCorrect` | type invariants | inductive as they stand, for a service with those of its engine or device; `BootTypeOK` with `BootInv` |
| `FloorSafe` | `FloorFollowsDecision` | `FloorInv` |
| `FloorReleasedHolds` | `FloorReleased` | `FloorSafe`, `UntaintedInv` |
| `ParkedInStepHolds`, `AlarmArmedHolds` | `ParkedInStep`, `AlarmArmed` | `ParkInv` |
| `ImplementsPolicy` | `Spec => PolicySpec` | `AskedInv`, step simulation |
| `ServiceDrivesEngine` | `HalSpec => Spec` | every service step is an engine step or none |
| `LaunchHoldsFloorHolds` | `LaunchHoldsFloor` | `SwitchInv`, `ParkInv` |
| `NoLeak`, `OneVoice`, `OffSilencesHolds` | the device's three properties | `PoolInv` |
| `ServiceDrivesDevice` | `VibratorSpec => FFSpec` | every service step is a device step or none |
| `ServiceKeepsPool` | no leak, one voice and silence after `off()` for the service | the two above |
| `StartsArePaidHolds`, `UnverifiedOnlyOnRequestHolds`, `UserdataReadyHolds`, `RequestStandsHolds`, `RequestGoesFirstHolds` | the boot script's safety | `BootInv` |
| `ScriptKeepsPolicy` | `BootSpec => BootPolicySpec` | `BootInv`, step simulation |
| `GadgetIsWhole`, `ReportHolds`, `SwapHolds`, `SuccessHolds` | the gadget HAL's safety | `UsbInv` |
| `CallbackIsSafe`, `NoWakeUpLost`, `MixedFramesHold` | the flattening controller's safety | `FlatInv` |
| `TablesStayClear`, `OverlapStaysSmall`, `HybridStaysPartition`, `ForwardOnTheDisk` | `ClearOfTables`, `OverlapOnlyAtLastSector`, `HybridIsPartition`, `BackwardsOnlyBehindDisk` | `PartedInv` |
| `ImagesStayIntact` | `ImagesIntact` | `PartedInv`, `ImagesInv` |
| `PartedTypeCorrect` | the tool's type invariant, at most `NumEntries` partitions included | `PartedInv` |
| `ScriptIsParted` | `SdSpec => PartedSpec` | every command of the script is one of `parted.py` |
| `SdTypeCorrect`, `CardAlwaysSuffices`, `DoneIsComplete` | `SdTypeOK`, `CardSuffices`, `DoneMeansComplete`, for every size of `super.img` | `SdInv`, `PartedInv` |
| `PartitionsKeepToTheirBlocks` | `EraseBlocksApart`, for every size of `super.img` | `SdInv`, `EdgesAreBlocks` |
| `RockchipNeverDone` | the script never ends with DONE on rockchip | `SdInv` |

The arguments, in short:

- **`FloorInv`** adds that `pending` is empty outside `BoostAll`. Without it a node could
  be exempt from `FloorFollowsDecision` for ever. **`UntaintedInv`**: as long as no
  object came up on raised floors, the remembered initial values are the kernel's.
- **`ParkInv`** states `ParkedInStep` from the end of a pass on rather than only asleep,
  which is what makes it inductive: a request in between sets `missed`, a request
  while asleep wakes. It also carries that only a boost has an alarm, never later than
  `boost_end`, and, whatever went unheard besides, that a boost has none only under the switch
  or after a `BoostEn(false)` that went unheard: `missed` keeps which notifications did.
- **`AskedInv`**: the one deadline the code keeps is the latest asked for. So
  "`boost_end` lies ahead" is "some deadline asked for lies ahead", and each pass of the
  worker is a `Raise` or `Drop` the policy allows. This is the whole content of "a
  shorter request never cuts a longer one".
- **`PoolInv`**: without overlap at most one thread is inside, and its program
  counter tells what the pool holds. The properties are trivial at the ends of a call;
  the invariant says why they hold through it.
- **`BootInv`** follows values through the script. `SelectedInv`: a selected slot keeps a
  try until `Count` takes it. `PaidInv`: between `Count` and `Start` the attempt is one
  below what the tries allow. `RequestInv`: what was read from `misc` is still there when
  acted upon. `CopyInv`: the copy of the message the script decides on is the one in `misc`
  wherever it decides, and a normal boot with a slot goes on only while that is empty, though
  fastboot and its fallback may come in between. `KernelInv`, `TableInv`: where the kernel
  came from; which partitions exist. `RequestStands` speaks of steps but needs `CopyInv` and
  `KernelInv`: Android may leave any message when it reboots, yet never runs over a request.
- **`ScriptKeepsPolicy`** maps each step to one of `BootPolicy` or to a stutter. Most of the
  script is invisible; what needs the invariant are the steps that pay, start or open: that
  `Count` and `Start` find the message empty (`CopyInv`) or a request for recovery
  (`RequestInv`), and that fastboot never returns into an attempt not paid for (`SelectedInv`).
- **`UsbInv`** follows a configuration from its tear-down to its last pull-up.
  `Configured`: whoever may pull up, the monitor and `reset()` included, finds a whole
  gadget, not only who does. `TornDown`: from the joining to the set-up nothing is linked
  and nobody is left to pull up. `HostView`: what the host saw last is what may come back
  without a disconnect. `MonitorView` and `RecordView`: whose functions the monitor
  watches, and for which the field says "applied". None of them is inductive without the
  others.
- **`FlatInv`** adds to the three properties that a frame is accounted for from its report
  on through the next one's validation, that what is committed is what is shown, and that
  nothing but the destructor clears the callback.
- **`PartedInv`** is types, `BackwardsOnlyBehindDisk`, `ClearOfTables`,
  `OverlapOnlyAtLastSector` and `HybridIsPartition`. Its core is `NewEntryPlaced`: from a check on bytes that takes the
  start of a last sector for its end, and rounding afterwards, to what is true of sectors.
  `LastPartitionEnd` is a function over the table; that it is a number for every table is
  proved by its least counterexample (`LeastNatural`), not by an induction theorem, and
  likewise that the search by name finds the first entry. **`ImagesInv`** rests on
  `ImageInside`, the comparison of bytes in `Fits` against whole sectors, and
  `WriteSparesOthers`.
- **`SdInv`** describes the card between two commands: the partitions made so far are the
  first *n* of the script's list in its order, none touching the next, and the last ends at
  `EdgeAfter(n)`: the bootloader's edge, a whole number of blocks of 512 KiB, and
  `super.img` once it is there; every image made so far is whole, and the MBR is as the
  step requires. `CardSuffices` alone says nothing of how full the card is, so no step
  preserves it by itself. Two facts of arithmetic carry the room: `CardSizeIs`, what
  rounding to MiB and GiB leaves beside `super.img`, and `Edges`, that the last edge lies
  before the backup table whatever the remainder. That a new partition gets the default
  start behind all others is `LastPartitionEndIs`, for every table. `EraseBlocksApart` needs that
  each partition begins at such an edge (`AtEdges`), and that all edges but Amlogic's are whole
  blocks (`EdgesAreBlocks`).
- **`ScriptIsParted`** makes the script one of `parted.py`'s clients, so that
  `TablesStayClear`, `OverlapStaysSmall` and the rest are facts about each card.
  `GenSdImgAssumption` asks of the tool's constants that they offer the arguments the
  script uses, which narrows nothing of the script.
- The two simulation theorems of the HALs let every result about engine and device hold of
  the services on top of them.

Each invariant was checked with TLC before it was proved.

## 7. What is only model-checked, and what is not modelled

Liveness (`TimedBoostEnds`, `HeardRequestApplied`, `CallbacksComplete`, `CallsReturn`,
`FailuresEndInFastboot`, `FallbackWithSlot`,
`RequestReachesRecovery`, `RequestEnds`, `IdleSettles`, `ThreadEnds`) is
out of the prover's reach. Every invariant and action property of the
runs is proved. The type invariants are proved and not run as well.

Not modelled, and why:

- *Inside the modelled parts*: the search of sysfs and `/dev/input` (its result is a
  constant or a choice), queries that change no state, logging, lengths of sleeps in
  the vibrator, arithmetic overflow of `timeoutMs * 1000` and of `composePwle`'s total
  (undefined or wrapped lengths of a sleep, which has no length here), CRCs and the backup
  table, a crash between two writes of one `parted.py` command, bootargs, device tree and
  load addresses, buttons of single devices, slot switching by an update; of a composed
  frame all but the number of its layers and who has them; `mUsbSpeed`, which
  `getUsbSpeed` stores and reports in one call.
- *Bounds of the models*, none of them in the code: `Horizon`, `MaxRestarts`, the number of
  detached threads, `NumEntries`, `MaxLosses`, `MaxRestarts` of the gadget HAL.
- *External, modelled from how the code uses it*: the kernel's rumble slots, U-Boot's
  `ab_select`, `bcb` and `fastboot`, the fastboot host, Android and recovery, configfs and
  the monitor thread of libusbconfigfs, the clocks.
- *Whole parts*: see `PROJECT.json` `components`. The vibrator manager keeps no state; the
  makefiles, `flash-all.sh` and the Amlogic post-processing are straight lists of commands;
  fstab, init scripts, product configuration and overlays are declarations; the minigbm,
  mesa, modem and most `drm_hwcomposer` patches change programs that are not here.

## 8. Plan

Done, in this order: boost engine with its abstract specification and proofs; power
service; rumble device and vibrator service with proofs; partition tool and card
layout; boot script with proofs, then with its abstract specification; USB gadget HAL with proofs; flattening controller with
proofs; proofs of the partition tool; proofs of the card layout.

What could follow:

1. A 129th partition (`parted.py:114`) as an action that writes behind the table, with the
   128 of the header as the limit the script's 17 keep far from.
2. Composition of `PartedGpt` with the boot script's table edits, if the seam between
   `gensdimg.sh`'s names and the script's `part` commands proves to be worth a run.
3. The slot bookkeeping of the mesa patch for slow GPUs (dequeue ahead of time), as far as
   the patch alone tells.
