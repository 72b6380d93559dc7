----------------------------- MODULE BootScript -----------------------------
(***************************************************************************)
(* bootscript.cpp, the U-Boot script that boots the board.  What it keeps   *)
(* is on the card: the partition table, the message of the misc partition   *)
(* (the BCB command) and the A/B data behind it; what it only sets in the   *)
(* environment is gone with the next reset.  Power may fail between any two *)
(* of its writes.  U-Boot's commands, Android and the fastboot host are     *)
(* external and modelled from what the script asks of them.                 *)
(***************************************************************************)
EXTENDS Integers

CONSTANTS Slots, NoSlot,
          MaxTries,     \* tries a fresh slot has: 7 in U-Boot's ab_select
          MaxLosses     \* bound: times the power fails

ASSUME BootAssumption ==
  /\ NoSlot \notin Slots
  /\ MaxTries \in Nat \ {0}
  /\ MaxLosses \in Nat

VARIABLES
  fastboot_works, \* whether U-Boot's fastboot starts on this board
  userdata,   \* "none", "placeholder", "renamed" or "expanded"
  has_misc,   \* whether the table has Android's partitions; a deploy image's has not
  command,    \* command of the message in misc
  tries,      \* tries_remaining of the slots
  successful, \* successful_boot of the slots
  image,      \* what is in the boot partitions of the slots
  pc,         \* where the script is, "kernel" once it has started one
  caller,     \* where enter_fastboot returns to
  slot_name, androidrecovery, \* environment
  bcb,        \* the command of the message loaded by bcb
  losses,     \* times the power failed
  starts      \* history: normal starts of a slot since its tries were set

ab == <<tries, successful>>
board == <<fastboot_works, has_misc, image>>
card == <<board, userdata, command, ab>>
env == <<slot_name, androidrecovery, bcb>>
bootVars == <<card, pc, caller, env, losses, starts>>

Commands == {"none", "bootonce-bootloader", "boot-fastboot", "boot-recovery"}

\* No bootable image; one that AVB rejects; one whose Android never comes up,
\* though its recovery does; a sound one.
Images == {"none", "unsigned", "crashes", "good"}

BootTypeOK ==
  /\ fastboot_works \in BOOLEAN
  /\ userdata \in {"none", "placeholder", "renamed", "expanded"}
  /\ has_misc \in BOOLEAN
  /\ command \in Commands
  /\ tries \in [Slots -> 0 .. MaxTries]
  /\ successful \in [Slots -> BOOLEAN]
  /\ image \in [Slots -> Images]
  /\ pc \in {"rename", "expand", "ab_select", "bcb", "test", "count", "start",
             "fastboot", "kernel"}
  /\ caller \in {"bcb", "test", "start"}
  /\ slot_name \in Slots \union {NoSlot}
  /\ androidrecovery \in BOOLEAN
  /\ bcb \in Commands
  /\ losses \in 0 .. MaxLosses
  /\ starts \in [Slots -> Nat]

\* What a reset leaves of the environment.
Reset ==
  /\ pc' = "rename"
  /\ caller' = "bcb"
  /\ slot_name' = NoSlot
  /\ androidrecovery' = FALSE
  /\ bcb' = "none"

\* A card just written: sdcard.img with its placeholder and some image in one
\* slot, or a deploy image, which holds the bootloader alone.
BootInit ==
  /\ \/ /\ userdata = "placeholder" /\ has_misc = TRUE
        /\ \E s \in Slots, i \in Images :
             image = [t \in Slots |-> IF t = s THEN i ELSE "none"]
     \/ /\ userdata = "none" /\ has_misc = FALSE
        /\ image = [s \in Slots |-> "none"]
  /\ fastboot_works \in BOOLEAN
  /\ command = "none"
  /\ tries = [s \in Slots |-> MaxTries]
  /\ successful = [s \in Slots |-> FALSE]
  /\ pc = "rename"
  /\ caller = "bcb"
  /\ slot_name = NoSlot
  /\ androidrecovery = FALSE
  /\ bcb = "none"
  /\ losses = 0
  /\ starts = [s \in Slots |-> 0]

-----------------------------------------------------------------------------
\* Mutant: the renamed partition is not expanded.
Rename_Only ==
  /\ pc = "rename"
  /\ userdata' = IF userdata = "placeholder" THEN "renamed" ELSE userdata
  /\ pc' = "ab_select"
  /\ UNCHANGED <<board, command, ab, caller, env, losses, starts>>

\* rename_and_expand_userdata_placeholder: two writes of the table.  Only the
\* first depends on the placeholder's name.
Rename ==
  /\ pc = "rename"
  /\ \/ /\ userdata = "placeholder"
        /\ userdata' = "renamed"
        /\ pc' = "expand"
     \/ /\ userdata # "placeholder"
        /\ userdata' = userdata
        /\ pc' = "ab_select"
  /\ UNCHANGED <<board, command, ab, caller, env, losses, starts>>

Expand ==
  /\ pc = "expand"
  /\ userdata' = "expanded"
  /\ pc' = "ab_select"
  /\ UNCHANGED <<board, command, ab, caller, env, losses, starts>>

\* ab_select takes a slot with tries left, by an order of its own; without the
\* misc partition it fails.
Bootable == {s \in Slots : has_misc /\ tries[s] > 0}

EnterFastboot(returns) ==
  /\ pc' = "fastboot"
  /\ caller' = returns

\* The first ab_select of bootcmd_bcb, with --no-dec.
AbSelect ==
  /\ pc = "ab_select"
  /\ \/ /\ slot_name' \in Bootable
        /\ pc' = "bcb"
        /\ caller' = caller
     \/ /\ Bootable = {}
        /\ EnterFastboot("bcb")
        /\ slot_name' = slot_name
  /\ UNCHANGED <<card, androidrecovery, bcb, losses, starts>>

\* Mutant: whatever the message asks for is cleared.
HandleBcb_ClearsAll ==
  /\ pc = "bcb"
  /\ command' = IF has_misc THEN "none" ELSE command
  /\ bcb' = IF has_misc THEN command ELSE "none"
  /\ IF has_misc /\ command = "bootonce-bootloader" THEN EnterFastboot("test")
                                                     ELSE pc' = "test" /\ caller' = caller
  /\ UNCHANGED <<board, userdata, ab, slot_name, androidrecovery, losses, starts>>

\* "adb reboot bootloader": the message is cleared and stored before fastboot.
HandleBcb ==
  /\ pc = "bcb"
  /\ \/ /\ has_misc /\ command = "bootonce-bootloader"
        /\ command' = "none"
        /\ bcb' = "none"
        /\ EnterFastboot("test")
     \/ /\ ~(has_misc /\ command = "bootonce-bootloader")
        /\ bcb' = IF has_misc THEN command ELSE "none"
        /\ pc' = "test"
        /\ UNCHANGED <<command, caller>>
  /\ UNCHANGED <<board, userdata, ab, slot_name, androidrecovery, losses, starts>>

TestRecovery ==
  /\ pc = "test"
  /\ androidrecovery' = (bcb \in {"boot-fastboot", "boot-recovery"})
  /\ pc' = "count"
  /\ UNCHANGED <<card, caller, slot_name, bcb, losses, starts>>

\* ab_select takes the try it counts from a slot that never came up.
Spend(s) == IF successful[s] THEN tries ELSE [tries EXCEPT ![s] = @ - 1]

\* Mutant: the second ab_select does not count either.
Count_NoDec ==
  /\ pc = "count"
  /\ \/ /\ ~androidrecovery /\ slot_name' \in Bootable
        /\ pc' = "start" /\ caller' = caller
     \/ /\ ~androidrecovery /\ Bootable = {}
        /\ EnterFastboot("start")
        /\ slot_name' = slot_name
     \/ /\ androidrecovery
        /\ pc' = "start" /\ UNCHANGED <<caller, slot_name>>
  /\ UNCHANGED <<card, androidrecovery, bcb, losses, starts>>

\* Mutant: the second ab_select counts a boot of recovery as well.
Count_Always ==
  /\ pc = "count"
  /\ \/ /\ slot_name' \in Bootable
        /\ tries' = Spend(slot_name')
        /\ pc' = "start"
        /\ caller' = caller
     \/ /\ Bootable = {}
        /\ EnterFastboot("start")
        /\ UNCHANGED <<slot_name, tries>>
  /\ UNCHANGED <<board, userdata, command, successful, androidrecovery, bcb, losses, starts>>

\* The second ab_select, for a normal boot, counts the attempt.
Count ==
  /\ pc = "count"
  /\ \/ /\ ~androidrecovery
        /\ slot_name' \in Bootable
        /\ tries' = Spend(slot_name')
        /\ pc' = "start"
        /\ caller' = caller
     \/ /\ ~androidrecovery
        /\ Bootable = {}
        /\ EnterFastboot("start")
        /\ UNCHANGED <<slot_name, tries>>
     \/ /\ androidrecovery
        /\ pc' = "start"
        /\ UNCHANGED <<caller, slot_name, tries>>
  /\ UNCHANGED <<board, userdata, command, successful, androidrecovery, bcb, losses, starts>>

\* Mutant: recovery is not the only boot that goes without AVB.
Starts_Unverified == slot_name # NoSlot /\ image[slot_name] # "none"

\* Partitions carry a slot's suffix: without a slot there is nothing to load.
\* Recovery starts without AVB.
Starts ==
  /\ slot_name # NoSlot
  /\ image[slot_name] # "none"
  /\ androidrecovery \/ image[slot_name] # "unsigned"

\* The rest of bootcmd_block and bootcmd_start; a reset follows whatever fails.
Start ==
  /\ pc = "start"
  /\ \/ /\ Starts
        /\ pc' = "kernel"
        /\ starts' = IF androidrecovery \/ successful[slot_name]
                     THEN starts ELSE [starts EXCEPT ![slot_name] = @ + 1]
        /\ UNCHANGED <<caller, env>>
     \/ /\ ~Starts
        /\ Reset
        /\ starts' = starts
  /\ UNCHANGED <<card, losses>>

\* Mutant: the failure goes unnoticed.
FastbootFails_Quiet ==
  /\ pc = "fastboot"
  /\ ~fastboot_works
  /\ pc' = caller
  /\ UNCHANGED <<card, caller, env, losses, starts>>

\* Mutant: the message is stored but the one in memory stays what it was.
FastbootFails_Stale ==
  /\ pc = "fastboot"
  /\ ~fastboot_works
  /\ command' = IF has_misc THEN "boot-fastboot" ELSE command
  /\ pc' = caller
  /\ UNCHANGED <<board, userdata, ab, caller, env, losses, starts>>

\* enter_fastboot when fastboot does not start: with a misc partition the message
\* asks for fastbootd; without one the table would have to be written first, but
\* "gpt write" is given no device, and fails.
FastbootFails ==
  /\ pc = "fastboot"
  /\ ~fastboot_works
  /\ IF has_misc THEN command' = "boot-fastboot" /\ bcb' = "boot-fastboot"
                 ELSE UNCHANGED <<command, bcb>>
  /\ pc' = caller
  /\ UNCHANGED <<board, userdata, ab, caller, slot_name, androidrecovery, losses, starts>>

\* "fastboot continue" returns to the script.
HostContinue ==
  /\ pc = "fastboot" /\ fastboot_works
  /\ pc' = caller
  /\ UNCHANGED <<card, caller, env, losses, starts>>

\* "fastboot oem format" writes the script's partitions, userdata to the end.
HostFormat ==
  /\ pc = "fastboot" /\ fastboot_works
  /\ has_misc' = TRUE
  /\ userdata' = "expanded"
  /\ UNCHANGED <<fastboot_works, image, command, ab, pc, caller, env, losses, starts>>

HostFlash ==
  /\ pc = "fastboot" /\ fastboot_works
  /\ has_misc
  /\ \E s \in Slots, i \in Images \ {"none"} : image' = [image EXCEPT ![s] = i]
  /\ UNCHANGED <<fastboot_works, has_misc, userdata, command, ab, pc, caller, env, losses, starts>>

\* ab_select sets up A/B data it finds erased.
HostEraseMisc ==
  /\ pc = "fastboot" /\ fastboot_works
  /\ has_misc
  /\ command' = "none"
  /\ tries' = [s \in Slots |-> MaxTries]
  /\ successful' = [s \in Slots |-> FALSE]
  /\ starts' = [s \in Slots |-> 0]
  /\ UNCHANGED <<board, userdata, pc, caller, env, losses>>

\* "fastboot reboot", "reboot-fastboot" and the like, by way of the message.
HostReboot ==
  /\ pc = "fastboot" /\ fastboot_works
  /\ IF has_misc THEN command' \in Commands ELSE command' = command
  /\ Reset
  /\ UNCHANGED <<board, userdata, ab, losses, starts>>

\* Android comes up and its boot control marks the slot.
BootCompletes ==
  /\ pc = "kernel" /\ ~androidrecovery
  /\ image[slot_name] = "good"
  /\ successful' = [successful EXCEPT ![slot_name] = TRUE]
  /\ UNCHANGED <<board, userdata, command, tries, pc, caller, env, losses, starts>>

\* "adb reboot", with or without a target, from Android or from recovery, which
\* may leave its own message there or remove it.
Reboot ==
  /\ pc = "kernel"
  /\ androidrecovery \/ image[slot_name] = "good"
  /\ command' \in Commands
  /\ Reset
  /\ UNCHANGED <<board, userdata, ab, losses, starts>>

\* An Android that does not come up resets the board.
Crash ==
  /\ pc = "kernel" /\ ~androidrecovery
  /\ image[slot_name] = "crashes"
  /\ Reset
  /\ UNCHANGED <<card, losses, starts>>

PowerLoss ==
  /\ losses < MaxLosses
  /\ losses' = losses + 1
  /\ Reset
  /\ UNCHANGED <<card, starts>>

Script ==
  Rename \/ Expand \/ AbSelect \/ HandleBcb \/ TestRecovery \/ Count \/ Start \/ FastbootFails

Host == HostContinue \/ HostFormat \/ HostFlash \/ HostEraseMisc \/ HostReboot

BootNext == Script \/ Host \/ BootCompletes \/ Reboot \/ Crash \/ PowerLoss

BootSpec == BootInit /\ [][BootNext]_bootVars

\* U-Boot runs the script to its end, and an Android that fails ends in a reset.
BootFairSpec == BootSpec /\ WF_bootVars(Script) /\ WF_bootVars(Crash)

-----------------------------------------------------------------------------
\* Every normal start of a slot that never came up was paid for with one of its
\* tries: over resets, power losses, fastboot sessions and detours through
\* recovery, such a slot starts at most MaxTries times.
StartsArePaid ==
  \A s \in Slots : ~successful[s] => starts[s] + tries[s] <= MaxTries

\* Only recovery starts an image that AVB rejects, and only as long as a request
\* for it stands in misc: a normal boot is what any other reset leads to.
UnverifiedOnlyOnRequest ==
  pc = "kernel" =>
    IF androidrecovery THEN command \in {"boot-fastboot", "boot-recovery"}
                       ELSE image[slot_name] \in {"crashes", "good"}

\* No normal boot overtakes a request: Android is not started while a message
\* stands in misc, though the script decides on the copy it loaded earlier, and
\* fastboot and its fallback may come between the loading and the start.
RequestGoesFirst ==
  pc = "kernel" /\ ~androidrecovery => command = "none"

\* Android never runs with userdata still called by its placeholder, and only a
\* power loss between the two writes leaves it in the placeholder's size.
UserdataReady ==
  /\ pc = "kernel" => userdata \notin {"none", "placeholder"}
  /\ userdata = "renamed" => pc = "expand" \/ losses > 0

Recoveries == {"boot-fastboot", "boot-recovery"}

\* A request for recovery or fastbootd is lost by no step of the script, no reset
\* and no loss of power: only recovery itself and the fastboot host take it out of
\* misc.  A fastboot that does not start may turn it into one for fastbootd.
RequestStands ==
  [][(command \in Recoveries /\ command' # command)
       => (\/ pc = "kernel" /\ androidrecovery
           \/ pc = "fastboot" /\ (fastboot_works \/ command' = "boot-fastboot"))]_bootVars

\* And it is honoured: as long as ab_select has slots to choose from, and something
\* to boot in each of them, recovery comes up.  Power may fail on the way, once the
\* message is read or the slot selected too: that costs no tries, and the next boot
\* finds the same message and the same slots.
RequestReachesRecovery ==
  (/\ command \in Recoveries
   /\ Bootable # {} /\ \A s \in Bootable : image[s] # "none")
    ~> (pc = "kernel" /\ androidrecovery)

\* What the board shows of the policy's state.  Without a misc partition no slot
\* has any tries.
Credit == [s \in Slots |-> IF has_misc THEN tries[s] ELSE 0]

Request == CASE command = "none" -> "none"
             [] command = "bootonce-bootloader" -> "bootloader"
             [] OTHER -> "recovery"

Attempt == IF pc \in {"start", "kernel"} /\ ~androidrecovery THEN slot_name ELSE NoSlot

Running == CASE pc = "fastboot" -> "session"
             [] pc = "kernel" -> IF androidrecovery THEN "recovery" ELSE "android"
             [] OTHER -> "nothing"

Policy == INSTANCE BootPolicy
            WITH credit <- Credit, proven <- successful, request <- Request,
                 attempt <- Attempt, running <- Running

\* The script keeps the policy: an attempt is paid for once, by Count, and only for
\* Android; a request comes before any attempt; fastboot is entered on request or
\* when no tries are left, and nothing but its host gives tries back.
BootPolicySpec == Policy!Spec

\* "After 14 failed boot attempt fallback to fastboot": with no slot that ever
\* came up, no sound image and no request, the board ends in fastboot.
FailuresEndInFastboot ==
  (command = "none" /\ \A s \in Slots : ~successful[s] /\ image[s] # "good")
    ~> (pc = "fastboot")

\* When fastboot was asked for and does not start, the board ends in fastbootd,
\* from the slot selected before, unless the power fails on the way.
FallbackWithSlot ==
  (/\ pc = "fastboot" /\ ~fastboot_works
   /\ slot_name # NoSlot /\ image[slot_name] # "none" /\ losses = MaxLosses)
    ~> (pc = "kernel" /\ androidrecovery)

\* "If for some reason uboot-fastboot fail for this board, fallback to fastbootd":
\* with a slot whose recovery would start, the board gets there.
FallbackReachesFastbootd ==
  (/\ pc = "fastboot" /\ ~fastboot_works /\ has_misc
   /\ \E s \in Slots : image[s] \in {"crashes", "good"})
    ~> (pc = "kernel" /\ androidrecovery)
=============================================================================
