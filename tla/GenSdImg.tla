------------------------------ MODULE GenSdImg ------------------------------
(***************************************************************************)
(* gensdimg.sh: the sequence of parted.py commands that lays out a board's  *)
(* SD card or deploy image.  The shell runs with -e, so the first command   *)
(* that fails ends the script.  Sizes are in sectors of 512 bytes.          *)
(***************************************************************************)
EXTENDS PartedGpt

CONSTANTS Platforms, Types, SuperSizes  \* choices of -P, -T and size of super.img

K == 2
M == 1024 * K
G == 1024 * M

VARIABLES platform, type,
          super_size,  \* of super.img
          oversized,   \* the image too big for its partition, or NoName
          step,        \* commands run so far
          status       \* "running", "done" or "failed"

args == <<platform, type, super_size, oversized>>
sdVars == <<partedVars, args, step, status>>

GptOffsetOf(p) == IF p = "amlogic" THEN 2 * M ELSE 1

KnownPlatforms == {"amlogic", "rockchip", "sunxi", "broadcom"}

\* An unknown platform passes the check for an empty one and leaves the
\* bootloader's start and size unset.
BlStart(p) == CASE p = "amlogic"  -> 1
                [] p = "rockchip" -> 32 * K
                [] p \in {"sunxi", "broadcom"} -> 128 * K
                [] OTHER          -> NoName

\* Mutant: the size does not allow for the start.
BlSize_Whole(p) == CASE p = "broadcom" -> 128 * M
                     [] p \in KnownPlatforms \ {"broadcom"} -> 2 * M
                     [] OTHER          -> NoName

BlSize(p) == CASE p = "broadcom" -> 128 * M - BlStart(p)
               [] p \in KnownPlatforms \ {"broadcom"} -> 2 * M - BlStart(p)
               [] OTHER          -> NoName

\* Mutant: no room is added for the partitions besides super.
SdSize_SuperOnly == (((super_size \div M) + 1024 - 1) \div 1024) * G

\* super.img in whole MiB, 512 MiB for the rest, rounded up to a GiB.
SdSize == (((super_size \div M) + 512 + 1024 - 1) \div 1024) * G

\* The sizes uboot.mk gives bootloader-sd.img and bootloader-emmc.img: the
\* partition's, 16 MiB less 32 KiB on rockchip (amlogic's is not padded).
BootloaderSize(p) == IF p = "rockchip" THEN 16 * M - 32 * K ELSE BlSize(p)

ImageNames == {"bootloader", "uboot-env", "boot_a", "init_boot_a", "vendor_boot_a",
               "vbmeta_a", "vbmeta_system_a"}

PartitionNames == ImageNames \union
  {"misc", "frp", "boot_b", "init_boot_b", "vendor_boot_b", "vbmeta_b", "vbmeta_system_b",
   "super", "metadata", "userdata_placeholder"}

PartitionSizes == {BlSize(p) : p \in KnownPlatforms}
                    \union {512 * K, 8 * M, 16 * M, 32 * M, 64 * M}

\* The units of this module and what the script passes to parted.py.  A super.img
\* of one sector would let metadata start in its only sector (see
\* OverlapOnlyAtLastSector); a real one holds its own metadata, 4 KiB at least.
ASSUME GenSdImgAssumption ==
  /\ Sector = 1 /\ TableSectors = 33 /\ NumEntries >= 17 /\ no_mbr = FALSE
  /\ {Unset, NoName} \intersect Int = {} /\ Unset # NoName
  /\ PartitionNames \subseteq Names
  /\ {1, 2 * M} \subseteq GptOffsets
  /\ {BlStart(p) : p \in KnownPlatforms} \subseteq Starts
  /\ PartitionSizes \subseteq Sizes
  /\ SuperSizes \union PartitionSizes \union {size + 1 : size \in PartitionSizes}
       \union {BootloaderSize(p) : p \in KnownPlatforms} \subseteq ImageSizes
  /\ 256 * M \in DiskSizes
  /\ \A size \in SuperSizes :
       /\ size \in Nat /\ size >= 8
       /\ \A n \in 1 .. (size \div G) + 2 : n * G \in DiskSizes

ImageSizeOf(name, size) ==
  CASE name = "super"      -> super_size
    [] name = oversized    -> size + 1
    [] name = "bootloader" /\ name # oversized -> BootloaderSize(platform)
    [] OTHER               -> size

Image(name, start, size) == [cmd |-> "add_image", name |-> name, start |-> start, size |-> size]
Empty(name, size) == [cmd |-> "add_partition", name |-> name, start |-> Unset, size |-> size]

BootCommands ==
  <<Image("bootloader", BlStart(platform), BlSize(platform)),
    Image("uboot-env", Unset, 512 * K)>>
  \o IF platform = "broadcom" THEN <<[cmd |-> "set_as_mbr_partition", name |-> "bootloader"]>>
                              ELSE <<>>

AndroidCommands ==
  <<Empty("misc", 512 * K), Empty("frp", 512 * K),
    Image("boot_a", Unset, 64 * M), Empty("boot_b", 64 * M),
    Image("init_boot_a", Unset, 8 * M), Empty("init_boot_b", 8 * M),
    Image("vendor_boot_a", Unset, 32 * M), Empty("vendor_boot_b", 32 * M),
    Image("vbmeta_a", Unset, 512 * K), Empty("vbmeta_b", 512 * K),
    Image("vbmeta_system_a", Unset, 512 * K), Empty("vbmeta_system_b", 512 * K),
    Image("super", Unset, Unset), Empty("metadata", 16 * M),
    Empty("userdata_placeholder", Unset)>>

Script == BootCommands \o (IF type = "SD" THEN AndroidCommands ELSE <<>>)

SdTypeOK ==
  /\ PartedTypeOK
  /\ platform \in Platforms /\ type \in Types /\ super_size \in SuperSizes
  /\ oversized \in ImageNames \union {NoName}
  /\ step \in 0 .. Len(Script) + 1
  /\ status \in {"running", "done", "failed"}

SdInit ==
  /\ PartedInit
  /\ platform \in Platforms
  /\ type \in Types
  /\ super_size \in SuperSizes
  /\ oversized \in ImageNames \union {NoName}
  /\ step = 0
  /\ status = "running"

-----------------------------------------------------------------------------
\* The old image file is removed first, so the new one is created in any case.
Create ==
  /\ step = 0
  /\ CreateEmpty(IF type = "SD" THEN SdSize ELSE 256 * M, GptOffsetOf(platform))
  /\ step' = 1
  /\ UNCHANGED <<args, status>>

Command == Script[step]

\* parted.py parses the arguments, an empty --start= or --size= fails, and checks
\* the place of a new partition.
Accepted(c, size) ==
  /\ NoName \notin {c.start, c.size}
  /\ CanPlace(StartOf(c.start), SizeOf(StartOf(c.start), size))

\* The size parted.py gives a new partition: an image's own one by default.
CommandSize(c) ==
  IF c.cmd = "add_image" /\ c.size = Unset THEN ImageSizeOf(c.name, c.size) ELSE c.size

\* Mutant: the shell runs without -e.
StatusAfterImage_Ignored(name) == "running"

\* add_image fails when the image is too big for its partition.
StatusAfterImage(name) == IF name \in written' THEN "running" ELSE "failed"

RunCommand ==
  /\ status = "running"
  /\ step \in DOMAIN Script
  /\ \/ /\ Command.cmd = "add_image"
        /\ Accepted(Command, CommandSize(Command))
        /\ AddImage(Command.name, ImageSizeOf(Command.name, Command.size),
                    Command.start, Command.size)
        /\ status' = StatusAfterImage(Command.name)
     \/ /\ Command.cmd = "add_partition"
        /\ Accepted(Command, CommandSize(Command))
        /\ AddPartition(Command.name, Command.start, Command.size)
        /\ status' = status
     \/ /\ Command.cmd = "set_as_mbr_partition"
        /\ SetAsMbrPartition(Command.name)
        /\ status' = status
  /\ step' = step + 1
  /\ UNCHANGED args

Refused ==
  /\ status = "running"
  /\ step \in DOMAIN Script
  /\ Command.cmd # "set_as_mbr_partition"
  /\ ~Accepted(Command, CommandSize(Command))
  /\ status' = "failed"
  /\ UNCHANGED <<partedVars, args, step>>

Finish ==
  /\ status = "running"
  /\ step = Len(Script) + 1
  /\ status' = "done"
  /\ UNCHANGED <<partedVars, args, step>>

SdNext == Create \/ RunCommand \/ Refused \/ Finish

SdSpec == SdInit /\ [][SdNext]_sdVars

-----------------------------------------------------------------------------
\* The images a known platform's build makes fit their partitions.
ImagesFit ==
  /\ platform \in KnownPlatforms
  /\ oversized = NoName
  /\ BootloaderSize(platform) <= BlSize(platform)

\* Whatever the platform and the size of super.img, the size chosen for the card
\* suffices: with every image no bigger than its partition no command fails.
CardSuffices == ImagesFit => status # "failed"

\* "DONE" means done: an image too big for its partition stops the script, and
\* otherwise all partitions of the script lie on the card in its order, one
\* behind the other, every image intact, userdata_placeholder up to the backup
\* table, and on broadcom the bootloader in the MBR.
DoneMeansComplete ==
  status = "done" =>
    /\ platform \in KnownPlatforms
    /\ oversized \notin {Script[i].name : i \in DOMAIN Script}
    /\ {Script[i].name : i \in DOMAIN Script} = {entries[i].name : i \in DOMAIN entries}
    /\ \A i, j \in DOMAIN entries : i < j => entries[i].end < entries[j].start
    /\ Disjoint
    /\ written = {image.name : image \in images}
    /\ type = "SD" => Last(entries).end = disk_size - TableSectors - 1
    /\ mbr.name = IF platform = "broadcom" THEN "bootloader" ELSE NoName

\* The card is for eMMC too, and an eMMC erases blocks of 512 KiB.
EraseBlock == 512 * K

\* "EMMC cards have 512k erase block size. Align partitions accordingly to avoid
\* issues with erasing" (bootscript.cpp): no two partitions of an image share an
\* erase block, at no point of the script.  On amlogic they do, because the GPT at
\* 2 MiB shifts all that follows by its 34 sectors, and so do super and metadata
\* if super.img is not of whole blocks.
EraseBlocksApart ==
  status # "failed" /\ platform # "amlogic" /\ super_size % EraseBlock = 0 =>
    \A i, j \in DOMAIN entries :
      i < j => entries[i].end \div EraseBlock < entries[j].start \div EraseBlock

\* "<platform>: amlogic, rockchip, sunxi, broadcom", says the script's header: it
\* makes a card for each of them.  On rockchip it ends with the first image.
EveryPlatformServed ==
  oversized = NoName /\ platform \in KnownPlatforms => status # "failed"
=============================================================================
