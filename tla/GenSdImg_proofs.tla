--------------------------- MODULE GenSdImg_proofs ---------------------------
(***************************************************************************)
(* gensdimg.sh for every size of super.img: the card it asks for suffices,  *)
(* and a finished image is complete.                                        *)
(***************************************************************************)
EXTENDS GenSdImg, PartedGpt_proofs

\* The partitions of a card in the order of the script.
PartNames ==
  <<"bootloader", "uboot-env", "misc", "frp", "boot_a", "boot_b", "init_boot_a", "init_boot_b",
    "vendor_boot_a", "vendor_boot_b", "vbmeta_a", "vbmeta_b", "vbmeta_system_a",
    "vbmeta_system_b", "super", "metadata", "userdata_placeholder">>

PartCount == IF type = "SD" THEN 17 ELSE 2
Shift == IF platform = "broadcom" THEN 1 ELSE 0
CardSize == IF type = "SD" THEN SdSize ELSE 256 * M

\* The sizes the script gives to the partitions behind the bootloader's.
AndroidSizes == {512 * K, 8 * M, 16 * M, 32 * M, 64 * M}

\* Where the next partition goes after n of them: in blocks of 512 KiB behind the
\* bootloader, or behind amlogic's GPT, and behind super.img.
Blocks == <<0, 1, 2, 3, 131, 259, 275, 291, 355, 419, 420, 421, 422, 423, 423, 455>>
BootloaderEdge == IF platform = "amlogic" THEN 2 * M + 34 ELSE BlStart(platform) + BlSize(platform)
Block == 512 * K
EdgeAfter(n) == BootloaderEdge + Blocks[n] * Block + (IF n >= 15 THEN super_size ELSE 0)
FrontierAfter(n) == IF n = 17 THEN CardSize - 33 ELSE EdgeAfter(n)

-----------------------------------------------------------------------------
\* The arguments of the script do not change.
ArgsInv ==
  /\ platform \in Platforms /\ type \in Types /\ super_size \in SuperSizes
  /\ oversized \in ImageNames \union {NoName}
  /\ status \in {"running", "done", "failed"}

\* The partitions made so far lie in the script's order one behind the other.
InOrder ==
  /\ \A i \in DOMAIN entries : /\ entries[i].name = PartNames[i]
                               /\ entries[i].start <= entries[i].end
                               /\ entries[i].end < LastPartitionEnd
  /\ \A i, j \in DOMAIN entries : i < j => entries[i].end < entries[j].start

\* Each begins where the one before it ended.
AtEdges == \A i \in DOMAIN entries : i > 1 => entries[i].start = EdgeAfter(i - 1)

\* Every image written is still whole, and none was too big.
ImagesThere ==
  /\ \A image \in images : image.end < LastPartitionEnd
  /\ written = {image.name : image \in images}
  /\ \A name \in written : \E i \in DOMAIN entries : entries[i].name = name
  /\ \A i \in DOMAIN entries : entries[i].name # oversized

\* The bootloader is in the MBR once the command for it was run.
HybridOnBroadcom ==
  /\ mbr.name \in {NoName, "bootloader"}
  /\ mbr.name # NoName => platform = "broadcom" /\ Len(entries) >= 2
  /\ platform = "broadcom" /\ Len(entries) >= 3 => mbr.name # NoName
  /\ step = Len(entries) + 1 + (IF mbr.name = NoName THEN 0 ELSE 1)

LaidOut ==
  /\ Len(entries) <= PartCount
  /\ entries # <<>> =>
       /\ platform \in KnownPlatforms \ {"rockchip"}
       /\ LastPartitionEnd = FrontierAfter(Len(entries))
  /\ Len(entries) = 17 => entries[17].end + 1 = LastPartitionEnd
  /\ InOrder
  /\ AtEdges
  /\ ImagesThere
  /\ HybridOnBroadcom

SdInv ==
  /\ ArgsInv
  /\ step \in Nat
  /\ step = 0 => /\ disk_size = 0 /\ entries = <<>> /\ images = {} /\ written = {}
                 /\ mbr.name = NoName /\ status = "running"
  /\ step > 0 => disk_size = CardSize /\ gpt_offset = GptOffsetOf(platform)
  /\ status = "failed" => ~ImagesFit /\ step <= Len(Script) + 1
  /\ status # "failed" /\ step > 0 => LaidOut
  /\ status = "done" => step = Len(Script) + 1

-----------------------------------------------------------------------------
\* No name comes twice.
LEMMA NamesDiffer ==
  ASSUME NEW k \in 1 .. 17, NEW i \in 1 .. k - 1
  PROVE  PartNames[i] # PartNames[k]
<1>1. \A a, b \in 1 .. 17 : PartNames[a] = PartNames[b] => a = b
  BY SMTT(60) DEF PartNames
<1>2. i \in 1 .. 17 /\ i # k
  OBVIOUS
<1>3. QED
  BY <1>1, <1>2

\* The commands behind the bootloader's, one by one: each makes the next of the
\* partitions, and takes the blocks up to the one after it.
LEMMA AndroidTable ==
  ASSUME NEW n \in 2 .. 16
  PROVE  LET c == AndroidCommands[n - 1] IN
         /\ c.name = PartNames[n + 1]
         /\ c.start = Unset
         /\ c.cmd \in {"add_image", "add_partition"}
         /\ c.cmd = "add_image" => \/ n = 14
                                   \/ c.name \in ImageNames \ {"bootloader"} /\ c.size # Unset
         /\ c.cmd = "add_partition" => c.name \notin ImageNames /\ n # 14
         /\ n = 14 => c.name = "super"
         /\ n \in {14, 16} => c.size = Unset
         /\ n \notin {14, 16} => /\ c.size \in AndroidSizes
                                 /\ c.size = (Blocks[n + 1] - Blocks[n]) * Block
<1> USE DEF AndroidCommands, AndroidSizes, PartNames, Block, Blocks, Image, Empty, ImageNames, K, M
<1>1. n \in {2, 3, 4, 5, 6, 7, 8, 9, 10, 11, 12, 13, 14, 15, 16}
  OBVIOUS
<1>2. Unset \notin Int
  BY GenSdImgAssumption
<1>3. QED
  BY <1>1, <1>2, SMTT(60)

\* The blocks of a partition lie behind those of the ones before it, and all of
\* them in the first 455.
LEMMA BlocksGrow ==
  \A n \in 1 .. 16 : /\ Blocks[n] \in Nat /\ Blocks[n] <= 455
                     /\ n < 14 => Blocks[n + 1] >= Blocks[n] + 1 /\ Blocks[n + 1] <= 423
BY SMTT(60) DEF Blocks

\* The script, command by command.
LEMMA ScriptShape ==
  /\ DOMAIN Script = 1 .. PartCount + Shift
  /\ Len(Script) = PartCount + Shift
  /\ Script[1] = Image("bootloader", BlStart(platform), BlSize(platform))
  /\ Script[2] = Image("uboot-env", Unset, 512 * K)
  /\ Shift = 1 => Script[3] = [cmd |-> "set_as_mbr_partition", name |-> "bootloader"]
  /\ type = "SD" => \A n \in 2 .. 16 : Script[n + 1 + Shift] = AndroidCommands[n - 1]
<1> DEFINE first == <<Image("bootloader", BlStart(platform), BlSize(platform)),
                      Image("uboot-env", Unset, 512 * K)>>
           mbrs == IF platform = "broadcom"
                   THEN <<[cmd |-> "set_as_mbr_partition", name |-> "bootloader"]>> ELSE <<>>
           androids == IF type = "SD" THEN AndroidCommands ELSE <<>>
           S == {first[i] : i \in 1 .. 2} \union {mbrs[1]} \union {AndroidCommands[i] : i \in 1 .. 15}
<1>1. Script = (first \o mbrs) \o androids
  BY DEF Script, BootCommands
<1>2. Len(first) = 2 /\ Len(mbrs) = Shift /\ Len(androids) = PartCount - 2
  BY DEF Shift, PartCount, AndroidCommands
<1>3. first \in Seq(S)
  <2>1. first[1] \in S /\ first[2] \in S
    OBVIOUS
  <2>2. QED
    BY <2>1
<1>4. mbrs \in Seq(S)
  OBVIOUS
<1>5. androids \in Seq(S)
  <2>1. \A i \in 1 .. 15 : AndroidCommands[i] \in S
    OBVIOUS
  <2>2. AndroidCommands \in Seq(S)
    BY <2>1 DEF AndroidCommands
  <2>3. QED
    BY <2>2
<1> HIDE DEF first, mbrs, androids, S
<1>6. (first \o mbrs) \in Seq(S) /\ Len(first \o mbrs) = 2 + Shift
  <2>1. (first \o mbrs) \in Seq(S)
    BY <1>3, <1>4
  <2>2. Len(first \o mbrs) = Len(first) + Len(mbrs)
    BY <1>3, <1>4
  <2>3. QED
    BY <1>2, <2>1, <2>2
<1>7. Script \in Seq(S) /\ Len(Script) = PartCount + Shift
  BY <1>1, <1>2, <1>5, <1>6 DEF Shift, PartCount
<1>8. \A i \in 1 .. 2 + Shift : Script[i] = (first \o mbrs)[i]
  BY <1>1, <1>5, <1>6
<1>9. Script[1] = first[1] /\ Script[2] = first[2] /\ (Shift = 1 => Script[3] = mbrs[1])
  <2>1. Shift \in 0 .. 1
    BY DEF Shift
  <2>2. /\ \A i \in 1 .. Len(first) : (first \o mbrs)[i] = first[i]
        /\ \A i \in 1 .. Len(mbrs) : (first \o mbrs)[Len(first) + i] = mbrs[i]
    BY <1>3, <1>4
  <2>3. /\ 1 \in 1 .. Len(first) /\ 2 \in 1 .. Len(first)
        /\ 1 \in 1 .. 2 + Shift /\ 2 \in 1 .. 2 + Shift
        /\ Shift = 1 => 1 \in 1 .. Len(mbrs) /\ Len(first) + 1 = 3 /\ 3 \in 1 .. 2 + Shift
    BY <1>2, <2>1
  <2>4. QED
    BY <1>8, <2>2, <2>3
<1>10. type = "SD" => \A n \in 2 .. 16 : Script[n + 1 + Shift] = AndroidCommands[n - 1]
  <2>1. \A n \in 1 .. PartCount - 2 : Script[2 + Shift + n] = androids[n]
    BY <1>1, <1>2, <1>5, <1>6 DEF Shift, PartCount
  <2>2. ASSUME type = "SD", NEW n \in 2 .. 16
        PROVE  Script[n + 1 + Shift] = AndroidCommands[n - 1]
    <3>1. n - 1 \in 1 .. PartCount - 2 /\ 2 + Shift + (n - 1) = n + 1 + Shift
      BY <2>2 DEF PartCount, Shift
    <3>2. QED
      BY <2>1, <2>2, <3>1 DEF androids
  <2>3. QED
    BY <2>2
<1>11. QED
  BY <1>7, <1>9, <1>10 DEF first, mbrs, Shift

\* Which command comes where.
LEMMA CommandsAre ==
  ASSUME NEW i \in DOMAIN Script
  PROVE  \/ i \in {1, 2}
         \/ i = 3 /\ platform = "broadcom"
         \/ type = "SD" /\ \E n \in 2 .. 16 : i = n + 1 + Shift
<1>1. i \in 1 .. PartCount + Shift
  BY ScriptShape
<1>2. CASE i <= 2 + Shift
  BY <1>1, <1>2 DEF Shift
<1>3. CASE i > 2 + Shift
  <2>1. type = "SD" /\ PartCount = 17
    BY <1>1, <1>3 DEF PartCount, Shift
  <2>2. i - 1 - Shift \in 2 .. 16 /\ i = (i - 1 - Shift) + 1 + Shift
    BY <1>1, <1>3, <2>1 DEF Shift
  <2>3. QED
    BY <2>1, <2>2
<1>4. QED
  BY <1>1, <1>2, <1>3 DEF Shift

-----------------------------------------------------------------------------
\* What the script passes to parted.py is what parted.py takes, apart from the
\* empty start and size of a bootloader it knows nothing of.
LEMMA ArgumentsTaken ==
  ASSUME ArgsInv, NEW i \in DOMAIN Script
  PROVE  LET c == Script[i] IN
         /\ c.name \in Names
         /\ c.cmd # "set_as_mbr_partition" =>
              /\ c.start \in Starts \union {Unset, NoName}
              /\ c.size \in Sizes \union {Unset, NoName}
         /\ c.cmd = "add_image" /\ c.start # NoName =>
              ImageSizeOf(c.name, c.size) \in ImageSizes
<1> DEFINE c == Script[i]
<1>0. Unset # NoName /\ Unset \notin Int /\ NoName \notin Int
  BY GenSdImgAssumption
<1>1. CASE i = 1
  <2>1. c = Image("bootloader", BlStart(platform), BlSize(platform))
    BY <1>1, ScriptShape
  <2>2. /\ c.cmd = "add_image" /\ c.name = "bootloader"
        /\ c.start = BlStart(platform) /\ c.size = BlSize(platform)
    BY <2>1 DEF Image
  <2>3. c.name \in Names
    BY <2>2, GenSdImgAssumption DEF PartitionNames, ImageNames
  <2>4. CASE platform \in KnownPlatforms
    <3>1. c.start \in Starts /\ c.size \in PartitionSizes
      BY <2>2, <2>4, GenSdImgAssumption DEF PartitionSizes
    <3>2. c.size \in Sizes
      BY <3>1, GenSdImgAssumption
    <3>3. ImageSizeOf(c.name, c.size) \in {c.size + 1, BootloaderSize(platform)}
      BY <2>2 DEF ImageSizeOf
    <3>4. ImageSizeOf(c.name, c.size) \in ImageSizes
      BY <2>4, <3>1, <3>3, GenSdImgAssumption
    <3>5. QED
      BY <2>3, <3>1, <3>2, <3>4
  <2>5. CASE platform \notin KnownPlatforms
    BY <2>2, <2>3, <2>5 DEF BlStart, BlSize, KnownPlatforms
  <2>6. QED
    BY <2>4, <2>5
<1>2. CASE i = 2
  <2>1. c = Image("uboot-env", Unset, 512 * K)
    BY <1>2, ScriptShape
  <2>2. c.cmd = "add_image" /\ c.name = "uboot-env" /\ c.start = Unset /\ c.size = 512 * K
    BY <2>1 DEF Image
  <2>3. c.name \in Names
    BY <2>2, GenSdImgAssumption DEF PartitionNames, ImageNames
  <2>4. c.size \in PartitionSizes
    BY <2>2 DEF PartitionSizes
  <2>5. c.size \in Sizes /\ {c.size, c.size + 1} \subseteq ImageSizes
    BY <2>4, GenSdImgAssumption
  <2>6. ImageSizeOf(c.name, c.size) \in {c.size, c.size + 1}
    BY <2>2 DEF ImageSizeOf
  <2>7. QED
    BY <2>2, <2>3, <2>5, <2>6
<1>3. CASE i = 3 /\ platform = "broadcom"
  <2>1. c = [cmd |-> "set_as_mbr_partition", name |-> "bootloader"]
    BY <1>3, ScriptShape DEF Shift
  <2>2. c.cmd = "set_as_mbr_partition" /\ c.name = "bootloader"
    BY <2>1
  <2>3. QED
    BY <2>2, GenSdImgAssumption DEF PartitionNames, ImageNames
<1>4. ASSUME type = "SD", NEW n \in 2 .. 16, i = n + 1 + Shift
      PROVE  /\ c.name \in Names
             /\ c.start = Unset /\ c.size \in Sizes \union {Unset}
             /\ c.cmd = "add_image" => ImageSizeOf(c.name, c.size) \in ImageSizes
  <2> DEFINE a == AndroidCommands[n - 1]
  <2>1. c = a
    BY <1>4, ScriptShape
  <2> HIDE DEF a, c
  <2>2. /\ a.name = PartNames[n + 1] /\ a.start = Unset
        /\ a.cmd = "add_image" => \/ n = 14
                                  \/ a.name \in ImageNames \ {"bootloader"} /\ a.size # Unset
        /\ n = 14 => a.name = "super"
        /\ n \in {14, 16} => a.size = Unset
        /\ n \notin {14, 16} => a.size \in AndroidSizes
    BY AndroidTable DEF a
  <2>3. a.name \in PartitionNames
    <3>1. \A k \in 3 .. 17 : PartNames[k] \in PartitionNames
      BY SMTT(60) DEF PartNames, PartitionNames, ImageNames
    <3>2. QED
      BY <2>2, <3>1
  <2>4. a.size # Unset => a.size \in PartitionSizes
    BY <2>2 DEF PartitionSizes, AndroidSizes
  <2>5. a.cmd = "add_image" => ImageSizeOf(a.name, a.size) \in ImageSizes
    <3>1. super_size \in ImageSizes
      BY GenSdImgAssumption DEF ArgsInv
    <3>2. CASE n = 14
      <4>1. "super" \in Names
        BY GenSdImgAssumption DEF PartitionNames
      <4>2. oversized # "super"
        BY <4>1, PartedAssumption DEF ArgsInv, ImageNames
      <4>3. QED
        BY <2>2, <3>1, <3>2, <4>2 DEF ImageSizeOf
    <3>3. CASE a.name \in ImageNames \ {"bootloader"} /\ a.size # Unset
      <4>1. ImageSizeOf(a.name, a.size) \in {a.size, a.size + 1}
        BY <3>3 DEF ImageSizeOf, ImageNames
      <4>2. QED
        BY <2>4, <3>3, <4>1, GenSdImgAssumption
    <3>4. QED
      BY <2>2, <3>2, <3>3
  <2>6. QED
    BY <2>1, <2>2, <2>3, <2>4, <2>5, GenSdImgAssumption
<1>5. CASE type = "SD" /\ \E n \in 2 .. 16 : i = n + 1 + Shift
  BY <1>4, <1>5
<1>6. QED
  BY <1>1, <1>2, <1>3, <1>5, CommandsAre

-----------------------------------------------------------------------------
\* The size chosen for a card is a whole number of GiB, with 512 MiB and more
\* besides super.img in whole MiB.
LEMMA CardSizeIs ==
  ASSUME super_size \in SuperSizes
  PROVE  /\ SdSize \in DiskSizes
         /\ SdSize \in Nat
         /\ SdSize + M > super_size + 512 * M
<1> DEFINE m == super_size \div M
           n == (m + 512 + 1024 - 1) \div 1024
           g == super_size \div G
<1>1. super_size \in Nat
  BY GenSdImgAssumption
<1>2. M = 2048 /\ G = 2097152
  BY DEF M, K, G
<1>3. m \in Nat /\ 2048 * m <= super_size /\ super_size < 2048 * m + 2048
  BY <1>1, <1>2, SMTT(30)
<1>4. g \in Nat /\ 2097152 * g <= super_size /\ super_size < 2097152 * g + 2097152
  BY <1>1, <1>2, SMTT(30)
<1> HIDE DEF m, g
<1>5. n \in Nat /\ 1024 * n <= m + 1535 /\ m + 1535 < 1024 * n + 1024
  BY <1>3, SMTT(30)
<1> HIDE DEF n
<1>6. n \in 1 .. g + 2
  <2>1. n >= 1
    BY <1>3, <1>5
  <2>2. m <= 1024 * g + 1023
    BY <1>1, <1>3, <1>4
  <2>3. 1024 * n <= 1024 * g + 2558
    BY <1>3, <1>4, <1>5, <2>2
  <2>4. n <= g + 2
    BY <1>4, <1>5, <2>3
  <2>5. QED
    BY <1>4, <1>5, <2>1, <2>4
<1>7. SdSize = n * G
  BY DEF SdSize, n, m
<1>8. n * G \in DiskSizes
  BY <1>6, GenSdImgAssumption DEF g
<1>9. n * G = 2097152 * n
  BY <1>2, <1>5
<1>10. SdSize + M > super_size + 512 * M
  <2>1. 1024 * n >= m + 512
    BY <1>3, <1>5
  <2>2. SdSize = 2097152 * n /\ 512 * M = 1048576
    BY <1>2, <1>7, <1>9
  <2>3. 2097152 * n >= 2048 * m + 1048576
    BY <1>3, <1>5, <2>1
  <2>4. QED
    BY <1>1, <1>2, <1>3, <1>5, <2>2, <2>3
<1>11. QED
  BY <1>5, <1>7, <1>8, <1>9, <1>10

\* Every step of the script is a command of parted.py, or none.
LEMMA ScriptStep ==
  ASSUME ArgsInv, [SdNext]_sdVars
  PROVE  ArgsInv' /\ [PartedNext]_partedVars
<1>1. CASE Create
  <2>1. PICK size \in {SdSize, 256 * M} : CreateEmpty(size, GptOffsetOf(platform))
    BY <1>1 DEF Create
  <2>2. size \in DiskSizes
    BY CardSizeIs, GenSdImgAssumption DEF ArgsInv
  <2>3. GptOffsetOf(platform) \in GptOffsets
    BY GenSdImgAssumption DEF GptOffsetOf
  <2>4. PartedNext
    BY <2>1, <2>2, <2>3 DEF PartedNext
  <2>5. QED
    BY <1>1, <2>4 DEF Create, ArgsInv, args
<1>2. CASE RunCommand
  <2>1. step \in DOMAIN Script /\ UNCHANGED args
    BY <1>2 DEF RunCommand
  <2>2. CASE /\ Command.cmd = "add_image"
             /\ Accepted(Command, CommandSize(Command))
             /\ AddImage(Command.name, ImageSizeOf(Command.name, Command.size),
                         Command.start, Command.size)
             /\ status' = StatusAfterImage(Command.name)
    <3>1. Command.start # NoName
      BY <2>2 DEF Accepted
    <3>2. /\ Command.name \in Names /\ Command.start \in Starts \union {Unset}
          /\ ImageSizeOf(Command.name, Command.size) \in ImageSizes
      BY <2>1, <2>2, <3>1, ArgumentsTaken DEF Command
    <3>3. Command.size \in Sizes \union {Unset, NoName}
      BY <2>1, <2>2, ArgumentsTaken DEF Command
    <3>4. CommandSize(Command) \in {Command.size, ImageSizeOf(Command.name, Command.size)}
      BY DEF CommandSize
    <3>5. Command.size # NoName
      BY <2>2, GenSdImgAssumption DEF Accepted, CommandSize
    <3>6. PartedNext
      BY <2>2, <3>2, <3>3, <3>5 DEF PartedNext
    <3>7. status' \in {"running", "failed"}
      BY <2>2 DEF StatusAfterImage
    <3>8. QED
      BY <2>1, <3>6, <3>7 DEF ArgsInv, args
  <2>3. CASE /\ Command.cmd = "add_partition"
             /\ Accepted(Command, CommandSize(Command))
             /\ AddPartition(Command.name, Command.start, Command.size)
             /\ status' = status
    <3>1. Command.start # NoName /\ Command.size # NoName
      BY <2>3 DEF Accepted, CommandSize
    <3>2. /\ Command.name \in Names /\ Command.start \in Starts \union {Unset}
          /\ Command.size \in Sizes \union {Unset}
      BY <2>1, <2>3, <3>1, ArgumentsTaken DEF Command
    <3>3. PartedNext
      BY <2>3, <3>2 DEF PartedNext
    <3>4. QED
      BY <2>1, <2>3, <3>3 DEF ArgsInv, args
  <2>4. CASE /\ Command.cmd = "set_as_mbr_partition"
             /\ SetAsMbrPartition(Command.name)
             /\ status' = status
    <3>1. Command.name \in Names
      BY <2>1, ArgumentsTaken DEF Command
    <3>2. PartedNext
      BY <2>4, <3>1 DEF PartedNext
    <3>3. QED
      BY <2>1, <2>4, <3>2 DEF ArgsInv, args
  <2>5. QED
    BY <1>2, <2>2, <2>3, <2>4 DEF RunCommand
<1>3. CASE Refused
  BY <1>3 DEF Refused, ArgsInv, args
<1>4. CASE Finish
  BY <1>4 DEF Finish, ArgsInv, args
<1>5. CASE UNCHANGED sdVars
  BY <1>5 DEF sdVars, args, ArgsInv
<1>6. QED
  BY <1>1, <1>2, <1>3, <1>4, <1>5 DEF SdNext

\* The script is a sequence of commands of parted.py, each with arguments that
\* parted.py is specified for: what is proved of parted.py holds of the images
\* the script makes.
THEOREM ScriptIsParted == SdSpec => PartedSpec
<1>1. SdInit => PartedInit /\ ArgsInv
  BY DEF SdInit, ArgsInv
<1>2. ArgsInv /\ [SdNext]_sdVars => ArgsInv' /\ [PartedNext]_partedVars
  BY ScriptStep
<1>3. QED
  BY <1>1, <1>2, PTL DEF SdSpec, PartedSpec

-----------------------------------------------------------------------------
\* Where the bootloader lies and ends, in sectors.
LEMMA BootloaderIs ==
  /\ K = 2 /\ M = 2048 /\ 512 * K = 1024 /\ Block = 1024
  /\ platform = "amlogic" => /\ BlStart(platform) = 1 /\ BlSize(platform) = 4095
                             /\ BootloaderEdge = 4130 /\ GptOffsetOf(platform) = 4096
  /\ platform = "sunxi" => /\ BlStart(platform) = 256 /\ BlSize(platform) = 3840
                           /\ BootloaderEdge = 4096 /\ GptOffsetOf(platform) = 1
  /\ platform = "broadcom" => /\ BlStart(platform) = 256 /\ BlSize(platform) = 261888
                              /\ BootloaderEdge = 262144 /\ GptOffsetOf(platform) = 1
<1>1. /\ K = 2 /\ M = 2048 /\ 512 * K = 1024 /\ Block = 1024
      /\ 128 * K = 256 /\ 128 * M = 262144 /\ 2 * M = 4096
  BY DEF K, M, Block
<1>2. platform = "amlogic" => BlStart(platform) = 1 /\ BlSize(platform) = 4095
  BY <1>1 DEF BlStart, BlSize, KnownPlatforms
<1>3. platform = "sunxi" => BlStart(platform) = 256 /\ BlSize(platform) = 3840
  BY <1>1 DEF BlStart, BlSize, KnownPlatforms
<1>4. platform = "broadcom" => BlStart(platform) = 256 /\ BlSize(platform) = 261888
  BY <1>1 DEF BlStart, BlSize, KnownPlatforms
<1>5. QED
  BY <1>1, <1>2, <1>3, <1>4 DEF BootloaderEdge, GptOffsetOf

\* The card has room behind every edge, for the backup table and 4 KiB more, and
\* super.img's edges are its own size apart.
LEMMA Edges ==
  ASSUME ArgsInv, platform \in KnownPlatforms \ {"rockchip"}
  PROVE  /\ CardSize \in Nat /\ super_size \in Nat /\ super_size >= 8
         /\ \A n \in 1 .. 16 : /\ EdgeAfter(n) \in Nat
                               /\ EdgeAfter(n) >= GptOffsetOf(platform) + 33
                               /\ type = "SD" => EdgeAfter(n) + 8 <= CardSize - 33
         /\ EdgeAfter(1) = BootloaderEdge
         /\ EdgeAfter(2) = BootloaderEdge + Block
         /\ EdgeAfter(2) <= CardSize - 33
         /\ EdgeAfter(15) = EdgeAfter(14) + super_size
         /\ \A n \in 2 .. 15 :
              n # 14 => EdgeAfter(n + 1) = EdgeAfter(n) + (Blocks[n + 1] - Blocks[n]) * Block
<1>0. platform \in {"amlogic", "sunxi", "broadcom"}
  BY DEF KnownPlatforms
<1>1. /\ Block = 1024 /\ M = 2048
      /\ BootloaderEdge \in Nat /\ BootloaderEdge <= 262144 /\ GptOffsetOf(platform) \in Nat
      /\ BootloaderEdge >= GptOffsetOf(platform) + 33
  BY <1>0, BootloaderIs
<1>2. /\ super_size \in Nat /\ super_size >= 8
      /\ SdSize \in Nat /\ SdSize >= super_size + 1046529
  BY <1>1, CardSizeIs, GenSdImgAssumption DEF ArgsInv
<1>3. /\ CardSize \in Nat /\ CardSize >= 524288
      /\ type = "SD" => CardSize >= super_size + 1046529
  BY <1>1, <1>2 DEF CardSize
<1>4. \A n \in 1 .. 16 : Blocks[n] \in Nat /\ Blocks[n] <= 455
  BY BlocksGrow
<1>5. Blocks[1] = 0 /\ Blocks[2] = 1 /\ Blocks[14] = 423 /\ Blocks[15] = 423
  BY DEF Blocks
<1>6. ASSUME NEW n \in 1 .. 16
      PROVE  /\ EdgeAfter(n) \in Nat /\ EdgeAfter(n) >= BootloaderEdge
             /\ EdgeAfter(n) <= 728064 + super_size
  <2>1. Blocks[n] \in Nat /\ Blocks[n] <= 455
    BY <1>4
  <2>2. Blocks[n] * 1024 \in Nat /\ Blocks[n] * 1024 <= 465920
    BY <2>1
  <2>3. QED
    BY <1>1, <1>2, <2>2 DEF EdgeAfter
<1>7. ASSUME NEW n \in 2 .. 15, n # 14
      PROVE  EdgeAfter(n + 1) = EdgeAfter(n) + (Blocks[n + 1] - Blocks[n]) * Block
  <2>1. Blocks[n] \in Int /\ Blocks[n + 1] \in Int
    <3>1. n \in 1 .. 16 /\ n + 1 \in 1 .. 16
      OBVIOUS
    <3>2. QED
      BY <1>4, <3>1
  <2>2. Blocks[n + 1] * 1024 = Blocks[n] * 1024 + (Blocks[n + 1] - Blocks[n]) * 1024
    BY <2>1
  <2>3. n + 1 >= 15 <=> n >= 15
    BY <1>7
  <2>4. QED
    BY <1>1, <1>2, <2>1, <2>2, <2>3 DEF EdgeAfter
<1>8. EdgeAfter(1) = BootloaderEdge /\ EdgeAfter(2) = BootloaderEdge + Block
  BY <1>1, <1>5 DEF EdgeAfter
<1>9. EdgeAfter(15) = EdgeAfter(14) + super_size
  BY <1>1, <1>2, <1>5 DEF EdgeAfter
<1>10. EdgeAfter(2) <= CardSize - 33
  BY <1>1, <1>3, <1>8
<1>11. ASSUME NEW n \in 1 .. 16
       PROVE  /\ EdgeAfter(n) >= GptOffsetOf(platform) + 33
              /\ type = "SD" => EdgeAfter(n) + 8 <= CardSize - 33
  BY <1>1, <1>2, <1>3, <1>6
<1>12. QED
  BY <1>2, <1>3, <1>6, <1>7, <1>8, <1>9, <1>10, <1>11

-----------------------------------------------------------------------------
\* A unit is a sector here: no rounding.
LEMMA UnitEntry ==
  ASSUME NEW name, NEW first \in Int, NEW length \in Int
  PROVE  NewEntry(name, first, length) =
           [name |-> name, start |-> first, end |-> first + length - 1]
<1>1. ASSUME NEW a \in Int PROVE DivRoundUp(a, Sector) = a
  <2>1. DivRoundUp(a, Sector) * 1 >= a /\ DivRoundUp(a, Sector) * 1 < a + 1
    BY RoundUp, GenSdImgAssumption
  <2>2. DivRoundUp(a, Sector) \in Int
    BY RoundUp
  <2>3. QED
    BY <2>1, <2>2
<1>2. first + length \in Int
  OBVIOUS
<1>3. QED
  BY <1>1, <1>2 DEF NewEntry

\* A partition of two sectors or more behind the others, clear of the tables, is
\* accepted and takes just the sectors asked for.
LEMMA BehindOthers ==
  ASSUME NEW name, NEW first \in Nat, NEW length \in Nat,
         gpt_offset \in Nat, disk_size \in Nat, entries \in Seq(Entry),
         \A i \in DOMAIN entries : entries[i].start <= entries[i].end /\ entries[i].end <= first,
         length >= 2, first >= 1, first + length <= disk_size - 33,
         first >= gpt_offset + 33 \/ first + length <= gpt_offset
  PROVE  /\ CanPlace(first, length)
         /\ NewEntry(name, first, length) =
              [name |-> name, start |-> first, end |-> first + length - 1]
<1>0. Sector = 1 /\ TableSectors = 33 /\ no_mbr = FALSE
  BY GenSdImgAssumption
<1>2. NewEntry(name, first, length) = [name |-> name, start |-> first, end |-> first + length - 1]
  BY UnitEntry
<1>3. ASSUME NEW a \in Int, NEW b \in Int, a <= b, first >= b \/ first + length <= a
      PROVE  ~Clashes(first, length, <<a, b>>)
  BY <1>3 DEF Clashes
<1>4. ASSUME NEW seg \in PartitionSegments PROVE ~Clashes(first, length, seg)
  <2>1. PICK i \in DOMAIN entries : seg = <<entries[i].start * 1, entries[i].end * 1>>
    BY <1>0 DEF PartitionSegments
  <2>2. entries[i].start \in Int /\ entries[i].end \in Int
    <3>1. entries[i] \in Entry
      OBVIOUS
    <3>2. QED
      BY <3>1 DEF Entry
  <2>3. seg = <<entries[i].start, entries[i].end>>
    BY <2>1, <2>2
  <2>4. QED
    BY <1>3, <2>2, <2>3
<1>5. ASSUME NEW seg \in TableSegments PROVE ~Clashes(first, length, seg)
  <2>1. seg \in {<<gpt_offset, gpt_offset + 33>>, <<disk_size - 33, disk_size>>, <<0, 1>>}
    <3>1. TableSectors * Sector = 33
      BY <1>0
    <3>2. QED
      BY <1>0, <3>1 DEF TableSegments
  <2>2. CASE seg = <<gpt_offset, gpt_offset + 33>>
    BY <1>3, <2>2
  <2>3. CASE seg = <<disk_size - 33, disk_size>>
    BY <1>3, <2>3
  <2>4. CASE seg = <<0, 1>>
    BY <1>3, <2>4
  <2>5. QED
    BY <2>1, <2>2, <2>3, <2>4
<1>6. first >= 0 /\ first + length <= disk_size
  OBVIOUS
<1>7. CanPlace(first, length)
  BY <1>4, <1>5, <1>6 DEF CanPlace
<1>8. QED
  BY <1>2, <1>7

\* Which of the commands is next: as many partitions are made, and the
\* bootloader is in broadcom's MBR before anything follows the second.
LEMMA CommandIndex ==
  ASSUME SdInv, status = "running", step \in DOMAIN Script, entries \in Seq(Entry)
  PROVE  /\ LaidOut /\ step \in Nat /\ Len(entries) \in Nat
         /\ disk_size = CardSize /\ gpt_offset = GptOffsetOf(platform)
         /\ \/ step = 1 /\ Len(entries) = 0
            \/ step = 2 /\ Len(entries) = 1
            \/ step = 3 /\ Len(entries) = 2 /\ platform = "broadcom" /\ mbr.name = NoName
            \/ /\ type = "SD" /\ Len(entries) \in 2 .. 16 /\ step = Len(entries) + 1 + Shift
               /\ platform = "broadcom" => mbr.name # NoName
<1> DEFINE n == Len(entries)
<1>1. step \in Nat /\ n \in Nat /\ step > 0
  BY ScriptShape DEF PartCount, Shift
<1>2. LaidOut /\ disk_size = CardSize /\ gpt_offset = GptOffsetOf(platform)
  BY <1>1 DEF SdInv
<1>3. /\ step = n + 1 + (IF mbr.name = NoName THEN 0 ELSE 1)
      /\ mbr.name # NoName => platform = "broadcom" /\ n >= 2
      /\ platform = "broadcom" /\ n >= 3 => mbr.name # NoName
  BY <1>2 DEF LaidOut, HybridOnBroadcom
<1> HIDE DEF n
<1>4. CASE step = 1
  BY <1>1, <1>2, <1>3, <1>4 DEF n
<1>5. CASE step = 2
  <2>1. n = 1
    BY <1>1, <1>3, <1>5
  <2>2. QED
    BY <1>1, <1>2, <1>5, <2>1 DEF n
<1>6. CASE step = 3 /\ platform = "broadcom"
  <2>1. n = 2 \/ n = 1
    BY <1>1, <1>3, <1>6
  <2>2. n = 2 /\ mbr.name = NoName
    BY <1>1, <1>3, <1>6, <2>1
  <2>3. QED
    BY <1>1, <1>2, <1>6, <2>2 DEF n
<1>7. ASSUME type = "SD", NEW k \in 2 .. 16, step = k + 1 + Shift
      PROVE  n = k /\ (platform = "broadcom" => mbr.name # NoName)
  BY <1>1, <1>3, <1>7 DEF Shift
<1>8. CASE type = "SD" /\ \E k \in 2 .. 16 : step = k + 1 + Shift
  <2>1. PICK k \in 2 .. 16 : step = k + 1 + Shift
    BY <1>8
  <2>2. n = k /\ (platform = "broadcom" => mbr.name # NoName)
    BY <1>7, <1>8, <2>1
  <2>3. QED
    BY <1>1, <1>2, <1>8, <2>1, <2>2 DEF n
<1>9. QED
  BY <1>4, <1>5, <1>6, <1>8, CommandsAre

\* Shorthands for the command that is next: the partition it makes.
NextIndex == Len(entries) + 1
NextStart == StartOf(Command.start)
NextLength == SizeOf(NextStart, CommandSize(Command))

\* A command for a partition is the one for the next in the order of the script.
LEMMA NextCommand ==
  ASSUME SdInv, status = "running", step \in DOMAIN Script, entries \in Seq(Entry),
         Command.cmd # "set_as_mbr_partition"
  PROVE  /\ NextIndex \in 1 .. 17 /\ NextIndex <= PartCount
         /\ Command.name = PartNames[NextIndex]
         /\ Command.cmd \in {"add_image", "add_partition"}
         /\ Command.cmd = "add_image" => \/ Command.name \in ImageNames /\ Command.size # Unset
                                         \/ Command.name = "super" /\ Command.size = Unset
         /\ Command.cmd = "add_partition" => Command.name \in PartitionNames \ ImageNames
         /\ NextIndex = 1 => /\ Command.start = BlStart(platform)
                             /\ Command.size = BlSize(platform)
         /\ NextIndex > 1 => Command.start = Unset /\ Command.name # "bootloader"
         /\ NextIndex = 2 => Command.size = 512 * K
         /\ NextIndex = 15 => Command.cmd = "add_image" /\ Command.name = "super"
         /\ NextIndex = 17 => Command.cmd = "add_partition" /\ Command.size = Unset
         /\ NextIndex \in 3 .. 16 \ {15} =>
              /\ Command.size \in AndroidSizes
              /\ Command.size = (Blocks[NextIndex] - Blocks[NextIndex - 1]) * Block
<1> DEFINE c == Command
           n == Len(entries)
<1>0. n \in Nat /\ NextIndex = n + 1 /\ Unset # NoName /\ Unset \notin Int
  BY GenSdImgAssumption DEF NextIndex
<1>1. CASE step = 1 /\ n = 0
  <2>1. c = Image("bootloader", BlStart(platform), BlSize(platform))
    BY <1>1, ScriptShape DEF Command
  <2>2. /\ c.cmd = "add_image" /\ c.name = "bootloader"
        /\ c.start = BlStart(platform) /\ c.size = BlSize(platform)
    BY <2>1 DEF Image
  <2>3. BlSize(platform) # Unset
    <3>1. \/ BlSize(platform) = 128 * M - BlStart(platform) /\ BlStart(platform) \in Int
          \/ BlSize(platform) = 2 * M - BlStart(platform) /\ BlStart(platform) \in Int
          \/ BlSize(platform) = NoName
      BY DEF BlSize, BlStart, KnownPlatforms, K, M
    <3>2. M \in Int
      BY DEF M, K
    <3>3. QED
      BY <1>0, <3>1, <3>2
  <2>4. PartNames[1] = "bootloader" /\ "bootloader" \in ImageNames /\ 1 <= PartCount
    BY DEF PartNames, ImageNames, PartCount
  <2>5. QED
    BY <1>0, <1>1, <2>2, <2>3, <2>4
<1>2. CASE step = 2 /\ n = 1
  <2>1. c = Image("uboot-env", Unset, 512 * K)
    BY <1>2, ScriptShape DEF Command
  <2>2. c.cmd = "add_image" /\ c.name = "uboot-env" /\ c.start = Unset /\ c.size = 512 * K
    BY <2>1 DEF Image
  <2>3. PartNames[2] = "uboot-env" /\ "uboot-env" \in ImageNames /\ 2 <= PartCount
    BY DEF PartNames, ImageNames, PartCount
  <2>4. 512 * K \in Int
    BY DEF K
  <2>5. QED
    BY <1>0, <1>2, <2>2, <2>3, <2>4
<1>3. CASE step = 3 /\ platform = "broadcom"
  <2>1. Command = [cmd |-> "set_as_mbr_partition", name |-> "bootloader"]
    BY <1>3, ScriptShape DEF Command, Shift
  <2>2. QED
    BY <2>1
<1>4. CASE type = "SD" /\ n \in 2 .. 16 /\ step = n + 1 + Shift
  <2> DEFINE a == AndroidCommands[n - 1]
  <2>1. c = a
    BY <1>4, ScriptShape DEF Command
  <2> HIDE DEF a, c, n
  <2>2. /\ a.name = PartNames[n + 1] /\ a.start = Unset
        /\ a.cmd \in {"add_image", "add_partition"}
        /\ a.cmd = "add_image" => \/ n = 14
                                  \/ a.name \in ImageNames \ {"bootloader"} /\ a.size # Unset
        /\ a.cmd = "add_partition" => a.name \notin ImageNames /\ n # 14
        /\ n = 14 => a.name = "super"
        /\ n \in {14, 16} => a.size = Unset
        /\ n \notin {14, 16} => /\ a.size \in AndroidSizes
                                /\ a.size = (Blocks[n + 1] - Blocks[n]) * Block
    BY <1>4, AndroidTable DEF a
  <2>3. PartNames[n + 1] \in PartitionNames \ {"bootloader"} /\ n + 1 \in 3 .. 17
    <3>1. \A k \in 3 .. 17 : PartNames[k] \in PartitionNames \ {"bootloader"}
      BY SMTT(60) DEF PartNames, PartitionNames, ImageNames
    <3>2. QED
      BY <1>4, <3>1
  <2>4. PartCount = 17
    BY <1>4 DEF PartCount
  <2>5. (n + 1) - 1 = n /\ n + 1 > 1 /\ n + 1 # 1 /\ n + 1 # 2
    BY <1>4
  <2>6. n + 1 = 15 <=> n = 14
    BY <1>4
  <2>7. n + 1 = 17 <=> n = 16
    BY <1>4
  <2>8. n + 1 \in 3 .. 16 \ {15} => n \notin {14, 16}
    BY <1>4
  <2> DEFINE k == n + 1
  <2>9. k = NextIndex /\ k - 1 = n /\ k \in 1 .. 17 /\ k <= PartCount
    BY <1>0, <2>3, <2>4, <2>5
  <2>10. /\ c.name = PartNames[k] /\ c.start = Unset /\ c.name \in PartitionNames \ {"bootloader"}
         /\ c.cmd \in {"add_image", "add_partition"}
    BY <2>1, <2>2, <2>3
  <2>11. k # 1 /\ k # 2
    BY <2>5
  <2>12. c.cmd = "add_image" => \/ c.name \in ImageNames /\ c.size # Unset
                                \/ c.name = "super" /\ c.size = Unset
    BY <2>1, <2>2
  <2>13. c.cmd = "add_partition" => c.name \in PartitionNames \ ImageNames
    BY <2>1, <2>2, <2>3
  <2>14. /\ k = 15 => c.cmd = "add_image" /\ c.name = "super"
         /\ k = 17 => c.size = Unset /\ c.cmd = "add_partition"
    BY <2>1, <2>2, <2>6, <2>7
  <2>15. k \in 3 .. 16 \ {15} => /\ c.size \in AndroidSizes
                                 /\ c.size = (Blocks[k] - Blocks[n]) * Block
    BY <2>1, <2>2, <2>8
  <2> HIDE DEF k
  <2>16. QED
    BY <2>9, <2>10, <2>11, <2>12, <2>13, <2>14, <2>15 DEF c
<1>5. QED
  BY <1>1, <1>2, <1>3, <1>4, CommandIndex

\* An image given no size is super.img, which is as long as it is.
LEMMA SuperSize ==
  ASSUME ArgsInv
  PROVE  oversized # "super" /\ ImageSizeOf("super", Unset) = super_size
<1>1. "super" \in Names
  BY GenSdImgAssumption DEF PartitionNames
<1>2. oversized # "super"
  BY <1>1, PartedAssumption DEF ArgsInv, ImageNames
<1>3. QED
  BY <1>2 DEF ImageSizeOf

\* Between two edges lies the partition that the next command makes; the last one
\* reaches up to the backup table.
LEMMA NextRoom ==
  ASSUME SdInv, status = "running", step \in DOMAIN Script, entries \in Seq(Entry),
         Command.cmd # "set_as_mbr_partition", platform \in KnownPlatforms \ {"rockchip"}
  PROVE  /\ NextStart \in Nat /\ NextLength \in Nat /\ NextStart >= 1 /\ NextLength >= 2
         /\ NextStart + NextLength <= disk_size - 33
         /\ NextStart >= gpt_offset + 33 \/ NextStart + NextLength <= gpt_offset
         /\ LastPartitionEnd \in Nat
         /\ NextIndex > 1 => NextStart = LastPartitionEnd
         /\ NextStart + NextLength <= FrontierAfter(NextIndex)
         /\ NextIndex = 17 => NextStart + NextLength = FrontierAfter(NextIndex)
         /\ FrontierAfter(NextIndex) =
              IF NextStart + NextLength - 1 > LastPartitionEnd THEN NextStart + NextLength
                                                               ELSE LastPartitionEnd
         /\ NoName \notin {Command.start, Command.size}
         /\ CommandSize(Command) = IF Command.cmd = "add_image" /\ Command.size = Unset
                                   THEN super_size ELSE Command.size
<1> DEFINE k == NextIndex
           c == Command
           lpe == LastPartitionEnd
<1>0. /\ k \in 1 .. 17 /\ k <= PartCount /\ ArgsInv /\ LaidOut
      /\ Len(entries) = k - 1
      /\ gpt_offset = GptOffsetOf(platform) /\ disk_size = CardSize
      /\ Unset # NoName /\ Unset \notin Int /\ NoName \notin Int
  <2>1. ArgsInv /\ Unset # NoName /\ Unset \notin Int /\ NoName \notin Int
    BY GenSdImgAssumption DEF SdInv
  <2>2. /\ LaidOut /\ Len(entries) \in Nat
        /\ gpt_offset = GptOffsetOf(platform) /\ disk_size = CardSize
    BY CommandIndex
  <2>3. k \in 1 .. 17 /\ k <= PartCount
    BY NextCommand
  <2>4. Len(entries) = k - 1
    BY <2>2 DEF NextIndex
  <2>5. QED
    BY <2>1, <2>2, <2>3, <2>4
<1>1. CardSize \in Nat /\ super_size \in Nat /\ super_size >= 8
  BY <1>0, Edges
<1>13. ASSUME NEW n \in 1 .. 16
       PROVE  /\ EdgeAfter(n) \in Nat
              /\ EdgeAfter(n) >= GptOffsetOf(platform) + 33
              /\ type = "SD" => EdgeAfter(n) + 8 <= CardSize - 33
  BY <1>0, Edges
<1>14. /\ EdgeAfter(1) = BootloaderEdge
       /\ EdgeAfter(2) = BootloaderEdge + Block
       /\ EdgeAfter(2) <= CardSize - 33
       /\ EdgeAfter(15) = EdgeAfter(14) + super_size
  BY <1>0, Edges
<1>15. ASSUME NEW n \in 2 .. 15, n # 14
       PROVE  EdgeAfter(n + 1) = EdgeAfter(n) + (Blocks[n + 1] - Blocks[n]) * Block
  BY <1>0, <1>15, Edges
<1>2. CommandSize(c) = IF c.cmd = "add_image" /\ c.size = Unset THEN super_size ELSE c.size
  BY <1>0, NextCommand, SuperSize DEF CommandSize, ImageNames
<1>3. k > 1 => /\ lpe = EdgeAfter(k - 1) /\ NextStart = lpe /\ k - 1 \in 1 .. 16
               /\ lpe \in Nat /\ lpe >= gpt_offset + 33
               /\ c.start = Unset
  <2>1. ASSUME k > 1 PROVE lpe = EdgeAfter(k - 1) /\ k - 1 \in 1 .. 16
    <3>1. entries # <<>> /\ k - 1 \in 1 .. 16
      BY <1>0, <2>1
    <3>2. lpe = FrontierAfter(k - 1)
      BY <1>0, <3>1 DEF LaidOut
    <3>3. k - 1 # 17
      BY <3>1
    <3>4. QED
      BY <3>1, <3>2, <3>3 DEF FrontierAfter
  <2>2. k > 1 => c.start = Unset
    BY NextCommand
  <2>3. k > 1 => NextStart = lpe
    BY <2>2 DEF NextStart, StartOf
  <2>4. ASSUME NEW n \in 1 .. 16, lpe = EdgeAfter(n) PROVE lpe \in Nat /\ lpe >= gpt_offset + 33
    BY <1>0, <1>13, <2>4
  <2>5. QED
    BY <2>1, <2>2, <2>3, <2>4
<1>4. ASSUME c.size \in Int
      PROVE  NextLength = c.size /\ CommandSize(c) = c.size
  BY <1>0, <1>2, <1>4 DEF NextLength, SizeOf
<1> HIDE DEF k, c, lpe
<1>5. CASE k = 1
  <2>1. lpe = gpt_offset + 34 /\ gpt_offset \in Nat
    <3>1. entries = <<>>
      BY <1>0, <1>5
    <3>2. gpt_offset \in Nat
      BY <1>0 DEF GptOffsetOf, M, K
    <3>3. (TableSectors + 1) * Sector = 34
      BY GenSdImgAssumption
    <3>4. QED
      BY <3>1, <3>2, <3>3, LastPartitionEndEmpty DEF lpe
  <2>2. c.start = BlStart(platform) /\ c.size = BlSize(platform)
    BY <1>5, NextCommand DEF c, k
  <2>3. FrontierAfter(k) = BootloaderEdge /\ BootloaderEdge <= CardSize - 33 /\ Block = 1024
        /\ BootloaderEdge + Block \in Nat
    <3>1. BootloaderEdge \in Nat /\ Block = 1024
      <4>1. platform \in {"amlogic", "sunxi", "broadcom"}
        BY DEF KnownPlatforms
      <4>2. QED
        BY <4>1, BootloaderIs
    <3>2. FrontierAfter(k) = BootloaderEdge
      BY <1>5, <1>14 DEF FrontierAfter
    <3>3. QED
      BY <1>1, <1>14, <3>1, <3>2
  <2>4. CASE platform = "amlogic"
    <3>1. /\ c.start = 1 /\ c.size = 4095 /\ gpt_offset = 4096 /\ lpe = 4130
          /\ BootloaderEdge = 4130
      BY <1>0, <2>1, <2>2, <2>4, BootloaderIs
    <3>2. NextStart = 1 /\ NextLength = 4095 /\ CommandSize(c) = c.size
      BY <1>0, <1>4, <3>1 DEF NextStart, StartOf, c
    <3>3. QED
      BY <1>0, <1>1, <1>2, <1>5, <2>3, <3>1, <3>2 DEF c, k, lpe
  <2>5. CASE platform \in {"sunxi", "broadcom"}
    <3>1. /\ c.start = 256 /\ c.size \in Nat /\ c.size >= 3840 /\ gpt_offset = 1 /\ lpe = 35
          /\ BootloaderEdge = 256 + c.size
      BY <1>0, <2>1, <2>2, <2>5, BootloaderIs
    <3>2. NextStart = 256 /\ NextLength = c.size /\ CommandSize(c) = c.size
      BY <1>0, <1>4, <3>1 DEF NextStart, StartOf, c
    <3>3. QED
      BY <1>0, <1>1, <1>2, <1>5, <2>3, <3>1, <3>2 DEF c, k, lpe
  <2>6. QED
    BY <2>4, <2>5 DEF KnownPlatforms
<1>6. ASSUME k > 1, NEW length \in Nat, length >= 2, NextLength = length,
             lpe + length = FrontierAfter(k), lpe + length <= CardSize - 33, c.size # NoName
      PROVE  /\ NextStart \in Nat /\ NextLength \in Nat /\ NextStart >= 1 /\ NextLength >= 2
             /\ NextStart + NextLength <= disk_size - 33
             /\ NextStart >= gpt_offset + 33 \/ NextStart + NextLength <= gpt_offset
             /\ lpe \in Nat
             /\ k > 1 => NextStart = lpe
             /\ NextStart + NextLength <= FrontierAfter(k)
             /\ k = 17 => NextStart + NextLength = FrontierAfter(k)
             /\ FrontierAfter(k) = IF NextStart + NextLength - 1 > lpe THEN NextStart + NextLength
                                                                       ELSE lpe
             /\ NoName \notin {c.start, c.size}
  <2>1. gpt_offset \in Nat
    BY <1>0 DEF GptOffsetOf, M, K
  <2>2. lpe \in Nat /\ lpe >= gpt_offset + 33 /\ NextStart = lpe /\ NextLength = length
    BY <1>3, <1>6
  <2>3. lpe + length - 1 > lpe
    BY <1>6, <2>2
  <2>4. NoName \notin {c.start, c.size}
    BY <1>0, <1>3, <1>6
  <2>5. QED
    BY <1>0, <1>6, <2>1, <2>2, <2>3, <2>4
<1>7. CASE k = 2
  <2>1. c.size = 512 * K
    BY <1>7, NextCommand DEF c, k
  <2>2. c.size = 1024
    BY <2>1, BootloaderIs
  <2>3. NextLength = 1024
    BY <1>4, <2>2
  <2>4. lpe + 1024 = FrontierAfter(k) /\ lpe + 1024 <= CardSize - 33
    <3>1. lpe = EdgeAfter(1) /\ FrontierAfter(k) = EdgeAfter(2)
      <4>1. k - 1 = 1 /\ k > 1 /\ k # 17
        BY <1>7
      <4>2. QED
        BY <1>3, <1>7, <4>1 DEF FrontierAfter
    <3>2. EdgeAfter(2) = EdgeAfter(1) + 1024
      BY <1>14, BootloaderIs
    <3>3. QED
      BY <1>14, <3>1, <3>2
  <2>5. QED
    BY <1>0, <1>2, <1>6, <1>7, <2>2, <2>3, <2>4 DEF c, k, lpe
<1>8. ASSUME k > 2 PROVE type = "SD"
  BY <1>0, <1>8 DEF PartCount
<1>9. CASE k \in 3 .. 16 \ {15}
  <2>1. /\ c.size \in AndroidSizes
        /\ c.size = (Blocks[k] - Blocks[k - 1]) * Block
    BY <1>9, NextCommand DEF c, k
  <2>2. c.size \in Nat /\ c.size >= 2
    BY <2>1, BootloaderIs DEF AndroidSizes
  <2>3. NextLength = c.size
    BY <1>4, <2>2
  <2>4. k - 1 \in 2 .. 15 /\ k - 1 # 14 /\ (k - 1) + 1 = k /\ k \in 1 .. 16 /\ k # 17
    BY <1>9
  <2>5. EdgeAfter(k) = lpe + c.size
    <3>2. EdgeAfter((k - 1) + 1)
            = EdgeAfter(k - 1) + (Blocks[(k - 1) + 1] - Blocks[k - 1]) * Block
      BY <1>15, <2>4
    <3>3. lpe = EdgeAfter(k - 1)
      BY <1>3, <1>9
    <3>4. QED
      BY <2>1, <2>4, <3>2, <3>3
  <2>6. EdgeAfter(k) <= CardSize - 33
    <3>2. EdgeAfter(k) + 8 <= CardSize - 33 /\ EdgeAfter(k) \in Nat
      <4>1. k \in 1 .. 16 /\ type = "SD"
        BY <1>8, <1>9, <2>4
      <4>2. QED
        BY <1>13, <4>1
    <3>3. QED
      BY <1>1, <3>2
  <2>7. QED
    BY <1>0, <1>2, <1>6, <1>9, <2>2, <2>3, <2>4, <2>5, <2>6 DEF c, k, lpe, FrontierAfter
<1>10. CASE k = 15
  <2>1. c.cmd = "add_image" /\ c.name = "super"
    BY <1>10, NextCommand DEF c, k
  <2>2. c.size = Unset
    BY <2>1, NextCommand DEF c, k, ImageNames
  <2>3. NextLength = super_size
    BY <1>0, <1>1, <1>2, <2>1, <2>2 DEF NextLength, SizeOf, c
  <2>4. lpe + super_size = FrontierAfter(k) /\ lpe + super_size <= CardSize - 33
    <3>1. lpe = EdgeAfter(14) /\ FrontierAfter(k) = EdgeAfter(15)
      <4>1. k - 1 = 14 /\ k > 1 /\ k # 17
        BY <1>10
      <4>2. QED
        BY <1>3, <1>10, <4>1 DEF FrontierAfter
    <3>2. EdgeAfter(15) \in Nat /\ EdgeAfter(15) + 8 <= CardSize - 33
      <4>1. 15 \in 1 .. 16 /\ type = "SD"
        BY <1>8, <1>10
      <4>2. QED
        BY <1>13, <4>1
    <3>3. QED
      BY <1>1, <1>14, <3>1, <3>2
  <2>5. QED
    BY <1>0, <1>1, <1>2, <1>6, <1>10, <2>2, <2>3, <2>4 DEF c, k, lpe
<1>11. CASE k = 17
  <2>1. c.cmd = "add_partition" /\ c.size = Unset
    BY <1>11, NextCommand DEF c, k
  <2>2. NextLength = disk_size - 33 - lpe
    <3>1. TableSectors * Sector = 33
      BY GenSdImgAssumption
    <3>2. QED
      BY <1>2, <1>3, <1>11, <2>1, <3>1 DEF NextLength, SizeOf, c
  <2>3. lpe \in Nat /\ lpe + 8 <= CardSize - 33
    <3>1. k > 1 /\ k - 1 \in 1 .. 16 /\ type = "SD"
      BY <1>8, <1>11
    <3>2. QED
      BY <1>3, <1>13, <3>1
  <2>4. NextLength \in Nat /\ NextLength >= 8 /\ lpe + NextLength = CardSize - 33
    BY <1>0, <1>1, <2>2, <2>3
  <2>5. QED
    BY <1>0, <1>1, <1>2, <1>6, <1>11, <2>1, <2>4 DEF c, k, lpe, FrontierAfter
<1>12. QED
  BY <1>0, <1>5, <1>7, <1>9, <1>10, <1>11

-----------------------------------------------------------------------------
\* The entry it makes.
NextMade == [name |-> Command.name, start |-> NextStart, end |-> NextStart + NextLength - 1]

\* parted.py accepts the next partition, and gives it just those sectors.
LEMMA NextAccepted ==
  ASSUME SdInv, status = "running", step \in DOMAIN Script, entries \in Seq(Entry),
         gpt_offset \in Nat, disk_size \in Nat,
         Command.cmd # "set_as_mbr_partition", platform \in KnownPlatforms \ {"rockchip"}
  PROVE  /\ Accepted(Command, CommandSize(Command))
         /\ CanPlace(NextStart, NextLength)
         /\ NewEntry(Command.name, NextStart, NextLength) = NextMade
         /\ \A i \in DOMAIN entries : entries[i].end < NextStart
<1>1. /\ NextStart \in Nat /\ NextLength \in Nat /\ NextStart >= 1 /\ NextLength >= 2
      /\ NextStart + NextLength <= disk_size - 33
      /\ NextStart >= gpt_offset + 33 \/ NextStart + NextLength <= gpt_offset
      /\ LastPartitionEnd \in Nat
      /\ NextIndex > 1 => NextStart = LastPartitionEnd
      /\ NoName \notin {Command.start, Command.size}
  BY NextRoom
<1>2. InOrder /\ Len(entries) \in Nat
  BY CommandIndex DEF LaidOut
<1>3. ASSUME NEW i \in DOMAIN entries
      PROVE  entries[i].start <= entries[i].end /\ entries[i].end < NextStart
  <2>1. NextIndex > 1
    BY <1>2 DEF NextIndex
  <2>2. QED
    BY <1>1, <1>2, <2>1 DEF InOrder
<1>4. ASSUME NEW i \in DOMAIN entries
      PROVE  entries[i].end <= NextStart
  <2>1. entries[i] \in Entry
    OBVIOUS
  <2>2. entries[i].end \in Int
    BY <2>1 DEF Entry
  <2>3. QED
    BY <1>1, <1>3, <2>2
<1>5. /\ CanPlace(NextStart, NextLength)
      /\ NewEntry(Command.name, NextStart, NextLength) = NextMade
  <2>1. \A i \in DOMAIN entries : entries[i].start <= entries[i].end /\ entries[i].end <= NextStart
    BY <1>3, <1>4
  <2>2. QED
    BY <1>1, <2>1, BehindOthers DEF NextMade
<1>6. Accepted(Command, CommandSize(Command))
  BY <1>1, <1>5 DEF Accepted, NextStart, NextLength
<1>7. QED
  BY <1>3, <1>5, <1>6

\* Made, it is the next of the partitions in their order.
LEMMA NextInOrder ==
  ASSUME SdInv, status = "running", step \in DOMAIN Script, entries \in Seq(Entry),
         gpt_offset \in Nat, disk_size \in Nat,
         Command.cmd # "set_as_mbr_partition", platform \in KnownPlatforms \ {"rockchip"},
         entries' = Append(entries, NextMade), gpt_offset' = gpt_offset
  PROVE  /\ NextMade \in Entry
         /\ Len(entries') = NextIndex
         /\ DOMAIN entries' = 1 .. NextIndex
         /\ entries'[NextIndex] = NextMade
         /\ \A i \in DOMAIN entries : i \in DOMAIN entries' /\ entries'[i] = entries[i]
         /\ LastPartitionEnd' = FrontierAfter(NextIndex)
         /\ LastPartitionEnd <= FrontierAfter(NextIndex)
         /\ InOrder'
<1> DEFINE k == NextIndex
           lpe == LastPartitionEnd
<1>1. /\ NextStart \in Nat /\ NextLength \in Nat /\ NextLength >= 2
      /\ lpe \in Nat
      /\ NextStart + NextLength <= FrontierAfter(k)
      /\ FrontierAfter(k) = IF NextStart + NextLength - 1 > lpe THEN NextStart + NextLength
                                                                ELSE lpe
  BY NextRoom
<1>2. k \in 1 .. 17 /\ Command.name = PartNames[k]
  BY NextCommand
<1>3. InOrder /\ Len(entries) \in Nat
  BY CommandIndex DEF LaidOut
<1>4. NextMade \in Entry
  <2>1. Command.name \in Names
    BY ArgumentsTaken DEF Command, SdInv
  <2>2. QED
    BY <1>1, <2>1 DEF NextMade, Entry
<1>5. /\ NextMade.name = Command.name /\ NextMade.start = NextStart
      /\ NextMade.end = NextStart + NextLength - 1
  BY DEF NextMade
<1> HIDE DEF NextMade
<1>6. /\ Len(entries') = k /\ DOMAIN entries' = 1 .. k /\ entries'[k] = NextMade
      /\ DOMAIN entries = 1 .. k - 1
      /\ \A i \in DOMAIN entries : i \in DOMAIN entries' /\ entries'[i] = entries[i]
  BY <1>3, <1>4 DEF NextIndex
<1>7. LastPartitionEnd' = FrontierAfter(k)
  <2>1. LastPartitionEnd' = IF NextMade.end * Sector > lpe THEN (NextMade.end + 1) * Sector ELSE lpe
    BY <1>4, LastPartitionEndGrows
  <2>2. /\ NextMade.end * Sector = NextStart + NextLength - 1
        /\ (NextMade.end + 1) * Sector = NextStart + NextLength
    BY <1>1, <1>5, GenSdImgAssumption
  <2>3. QED
    BY <1>1, <2>1, <2>2
<1>8. FrontierAfter(k) \in Nat /\ lpe <= FrontierAfter(k)
  BY <1>1
<1>9. ASSUME NEW i \in DOMAIN entries'
      PROVE  /\ entries'[i].name = PartNames[i]
             /\ entries'[i].start <= entries'[i].end
             /\ entries'[i].end < LastPartitionEnd'
  <2>1. CASE i = k
    BY <1>1, <1>2, <1>5, <1>6, <1>7, <1>8, <2>1
  <2>2. CASE i \in DOMAIN entries
    <3>1. /\ entries[i].name = PartNames[i] /\ entries[i].start <= entries[i].end
          /\ entries[i].end < lpe
      BY <1>3, <2>2 DEF InOrder
    <3>2. entries[i] \in Entry
      BY <2>2
    <3>3. entries[i].end \in Int
      BY <3>2 DEF Entry
    <3>4. entries[i].end < LastPartitionEnd'
      BY <1>1, <1>7, <1>8, <3>1, <3>3
    <3>5. QED
      BY <1>6, <2>2, <3>1, <3>4
  <2>3. QED
    BY <1>2, <1>6, <2>1, <2>2
<1>10. ASSUME NEW i \in DOMAIN entries', NEW j \in DOMAIN entries', i < j
       PROVE  entries'[i].end < entries'[j].start
  <2>1. i \in DOMAIN entries
    BY <1>2, <1>6, <1>10
  <2>2. CASE j = k
    BY <1>5, <1>6, <2>1, <2>2, NextAccepted
  <2>3. CASE j \in DOMAIN entries
    BY <1>3, <1>6, <1>10, <2>1, <2>3 DEF InOrder
  <2>4. QED
    BY <1>2, <1>6, <2>2, <2>3
<1>11. InOrder'
  BY <1>9, <1>10 DEF InOrder
<1>12. QED
  BY <1>4, <1>6, <1>7, <1>8, <1>11

\* No partition made before has the name of the next one.
LEMMA NextIsNew ==
  ASSUME SdInv, status = "running", step \in DOMAIN Script, entries \in Seq(Entry),
         Command.cmd # "set_as_mbr_partition"
  PROVE  /\ \A i \in DOMAIN entries : entries[i].name # Command.name
         /\ Command.name \notin written
         /\ FirstNamed(Command.name) = 0
<1>1. NextIndex \in 1 .. 17 /\ Command.name = PartNames[NextIndex]
  BY NextCommand
<1>2. InOrder /\ ImagesThere /\ DOMAIN entries = 1 .. NextIndex - 1
  BY CommandIndex DEF LaidOut, NextIndex
<1>3. ASSUME NEW i \in DOMAIN entries PROVE entries[i].name # Command.name
  <2>1. i \in 1 .. NextIndex - 1
    BY <1>2
  <2>2. entries[i].name = PartNames[i]
    BY <1>2 DEF InOrder
  <2>3. QED
    BY <1>1, <2>1, <2>2, NamesDiffer
<1>4. Command.name \notin written
  BY <1>2, <1>3 DEF ImagesThere
<1>5. FirstNamed(Command.name) = 0
  BY <1>3, FirstNamedMisses
<1>6. QED
  BY <1>3, <1>4, <1>5

\* An image written to the partition it is next to fit in, and the older ones are
\* out of its way.
LEMMA NextImage ==
  ASSUME SdInv, status = "running", step \in DOMAIN Script, entries \in Seq(Entry),
         gpt_offset \in Nat, disk_size \in Nat, images \subseteq Entry,
         Command.cmd # "set_as_mbr_partition", platform \in KnownPlatforms \ {"rockchip"},
         entries' = Append(entries, NextMade), gpt_offset' = gpt_offset, oversized' = oversized,
         NEW img_size \in ImageSizes, Command.name = oversized => img_size > NextLength,
         WriteImage(NextMade, img_size), Command.name \in written'
  PROVE  ImagesThere'
<1> DEFINE new == ImageOn(NextMade, img_size)
           lpe == LastPartitionEnd
<1>1. /\ NextMade \in Entry
      /\ DOMAIN entries' = 1 .. NextIndex
      /\ entries'[NextIndex] = NextMade
      /\ \A i \in DOMAIN entries : i \in DOMAIN entries' /\ entries'[i] = entries[i]
      /\ LastPartitionEnd' = FrontierAfter(NextIndex)
      /\ lpe <= FrontierAfter(NextIndex)
      /\ InOrder'
  BY NextInOrder
<1>2. /\ NextStart \in Nat /\ NextLength \in Nat /\ NextLength >= 2 /\ lpe \in Nat
      /\ NextIndex > 1 => NextStart = lpe
      /\ NextStart + NextLength <= FrontierAfter(NextIndex)
      /\ FrontierAfter(NextIndex) \in Nat
  BY NextRoom
<1>3. /\ NextMade.name = Command.name /\ NextMade.start = NextStart
      /\ NextMade.end = NextStart + NextLength - 1
  BY DEF NextMade
<1>4. NextIndex \in 1 .. 17 /\ DOMAIN entries = 1 .. NextIndex - 1 /\ ImagesThere
  BY NextCommand, CommandIndex DEF LaidOut, NextIndex
<1> HIDE DEF NextMade
<1>5. /\ Fits(img_size, NextMade)
      /\ images' = {i \in images : i.name # Command.name /\ ~Overlap(i, new)} \union {new}
      /\ written' = written \union {Command.name}
  BY <1>3, NextIsNew DEF WriteImage
<1>6. new \in Entry /\ new.name = Command.name /\ new.start = NextStart /\ new.end <= NextMade.end
  BY <1>1, <1>3, <1>5, ImageType, ImageInside
<1>7. new.end \in Int /\ NextMade.end \in Int
  BY <1>1, <1>6 DEF Entry
<1> HIDE DEF new, lpe
<1>8. ASSUME NEW i \in images
      PROVE  i.name # Command.name /\ ~Overlap(i, new) /\ i.end < FrontierAfter(NextIndex)
  <2>1. i.name \in written /\ i.end < lpe
    BY <1>4 DEF ImagesThere, lpe
  <2>2. i.name # Command.name
    BY <2>1, NextIsNew
  <2>3. PICK j \in DOMAIN entries : entries[j].name = i.name
    BY <1>4, <2>1 DEF ImagesThere
  <2>4. NextStart = lpe
    BY <1>2, <1>4, <2>3
  <2>5. i.end \in Int
    BY DEF Entry
  <2>6. ~Overlap(i, new)
    BY <1>2, <1>6, <2>1, <2>4, <2>5 DEF Overlap
  <2>7. QED
    BY <1>1, <1>2, <2>1, <2>2, <2>5, <2>6
<1>9. images' = images \union {new}
  BY <1>5, <1>8
<1>10. ASSUME NEW i \in images' PROVE i.end < LastPartitionEnd'
  <2>1. new.end < FrontierAfter(NextIndex)
    BY <1>2, <1>3, <1>6, <1>7
  <2>2. QED
    BY <1>1, <1>8, <1>9, <2>1
<1>11. written' = {i.name : i \in images'}
  BY <1>4, <1>5, <1>6, <1>9 DEF ImagesThere
<1>12. ASSUME NEW name \in written' PROVE \E i \in DOMAIN entries' : entries'[i].name = name
  <2>1. CASE name = Command.name
    <3>1. NextIndex \in DOMAIN entries'
      BY <1>1, <1>4
    <3>2. QED
      BY <1>1, <1>3, <2>1, <3>1
  <2>2. CASE name \in written
    BY <1>1, <1>4, <2>2 DEF ImagesThere
  <2>3. QED
    BY <1>5, <2>1, <2>2
<1>13. ASSUME NEW i \in DOMAIN entries' PROVE entries'[i].name # oversized
  <2>1. CASE i = NextIndex
    <3>1. (NextMade.end + 1 - NextMade.start) * Sector = NextLength
      BY <1>2, <1>3, GenSdImgAssumption
    <3>2. img_size \in Nat /\ img_size <= NextLength
      BY <1>5, <3>1, PartedAssumption DEF Fits
    <3>3. Command.name # oversized
      BY <1>2, <3>2
    <3>4. QED
      BY <1>1, <1>3, <2>1, <3>3
  <2>2. CASE i \in DOMAIN entries
    BY <1>1, <1>4, <2>2 DEF ImagesThere
  <2>3. QED
    BY <1>1, <1>4, <2>1, <2>2
<1>14. QED
  BY <1>10, <1>11, <1>12, <1>13 DEF ImagesThere

\* A partition made without an image leaves the images alone.
LEMMA NextWithoutImage ==
  ASSUME SdInv, status = "running", step \in DOMAIN Script, entries \in Seq(Entry),
         gpt_offset \in Nat, disk_size \in Nat, images \subseteq Entry,
         Command.cmd # "set_as_mbr_partition", platform \in KnownPlatforms \ {"rockchip"},
         entries' = Append(entries, NextMade), gpt_offset' = gpt_offset, oversized' = oversized,
         Command.name # oversized, UNCHANGED <<images, written>>
  PROVE  ImagesThere'
<1>1. /\ DOMAIN entries' = 1 .. NextIndex
      /\ entries'[NextIndex] = NextMade
      /\ \A i \in DOMAIN entries : i \in DOMAIN entries' /\ entries'[i] = entries[i]
      /\ LastPartitionEnd' = FrontierAfter(NextIndex)
      /\ LastPartitionEnd <= FrontierAfter(NextIndex)
  BY NextInOrder
<1>2. LastPartitionEnd \in Nat /\ FrontierAfter(NextIndex) \in Nat
  BY NextRoom
<1>3. NextMade.name = Command.name
  BY DEF NextMade
<1>4. DOMAIN entries = 1 .. NextIndex - 1 /\ ImagesThere /\ NextIndex \in 1 .. 17
  BY NextCommand, CommandIndex DEF LaidOut, NextIndex
<1>5. ASSUME NEW i \in images PROVE i.end < LastPartitionEnd'
  <2>1. i.end \in Int /\ i.end < LastPartitionEnd
    BY <1>4 DEF Entry, ImagesThere
  <2>2. QED
    BY <1>1, <1>2, <2>1
<1>6. ASSUME NEW i \in DOMAIN entries' PROVE entries'[i].name # oversized
  BY <1>1, <1>3, <1>4 DEF ImagesThere
<1>7. QED
  BY <1>1, <1>4, <1>5, <1>6 DEF ImagesThere

-----------------------------------------------------------------------------
\* The layout is fixed by the script's arguments.
LEMMA ArgsFixed ==
  ASSUME UNCHANGED args
  PROVE  /\ CardSize' = CardSize /\ PartCount' = PartCount /\ Script' = Script
         /\ GptOffsetOf(platform)' = GptOffsetOf(platform)
         /\ ImagesFit' = ImagesFit
         /\ \A n : EdgeAfter(n)' = EdgeAfter(n) /\ FrontierAfter(n)' = FrontierAfter(n)
         /\ platform' = platform /\ oversized' = oversized
<1>1. platform' = platform /\ type' = type /\ super_size' = super_size /\ oversized' = oversized
  BY DEF args
<1>2. CardSize' = CardSize /\ PartCount' = PartCount /\ GptOffsetOf(platform)' = GptOffsetOf(platform)
  BY <1>1 DEF CardSize, PartCount, GptOffsetOf, SdSize
<1>3. ImagesFit' = ImagesFit
  BY <1>1 DEF ImagesFit
<1>4. \A n : EdgeAfter(n)' = EdgeAfter(n) /\ FrontierAfter(n)' = FrontierAfter(n)
  BY <1>1, <1>2 DEF FrontierAfter, EdgeAfter, BootloaderEdge
<1>5. Script' = Script
  BY <1>1 DEF Script, BootCommands, AndroidCommands
<1>6. QED
  BY <1>1, <1>2, <1>3, <1>4, <1>5

\* A step that leaves table, images and MBR alone leaves the layout as it is.
LEMMA LayoutStays ==
  ASSUME UNCHANGED <<partedVars, args, step>>, LaidOut
  PROVE  LaidOut'
<1>1. /\ entries' = entries /\ gpt_offset' = gpt_offset /\ images' = images
      /\ written' = written /\ mbr' = mbr /\ step' = step
  BY DEF partedVars
<1>2. LastPartitionEnd' = LastPartitionEnd
  BY <1>1, LastPartitionEndIs
<1>3. InOrder' /\ AtEdges'
  <2>1. InOrder'
    BY <1>1, <1>2 DEF LaidOut, InOrder
  <2>2. AtEdges'
    BY <1>1, ArgsFixed DEF LaidOut, AtEdges
  <2>3. QED
    BY <2>1, <2>2
<1>4. ImagesThere'
  BY <1>1, <1>2, ArgsFixed DEF LaidOut, ImagesThere
<1>5. HybridOnBroadcom'
  BY <1>1, ArgsFixed DEF LaidOut, HybridOnBroadcom
<1>6. FrontierAfter(Len(entries))' = FrontierAfter(Len(entries))
  BY <1>1, ArgsFixed DEF FrontierAfter, EdgeAfter, BootloaderEdge, CardSize, SdSize, args
<1>7. QED
  BY <1>1, <1>2, <1>3, <1>4, <1>5, <1>6, ArgsFixed DEF LaidOut

\* With the next partition made and its image written, the layout is the one for
\* one partition more.
LEMMA NextLaidOut ==
  ASSUME SdInv, status = "running", step \in DOMAIN Script, entries \in Seq(Entry),
         gpt_offset \in Nat, disk_size \in Nat,
         Command.cmd # "set_as_mbr_partition", platform \in KnownPlatforms \ {"rockchip"},
         entries' = Append(entries, NextMade), UNCHANGED <<gpt_offset, mbr, args>>,
         step' = step + 1, ImagesThere'
  PROVE  LaidOut'
<1>1. /\ Len(entries') = NextIndex
      /\ entries'[NextIndex] = NextMade
      /\ LastPartitionEnd' = FrontierAfter(NextIndex)
      /\ InOrder'
  BY NextInOrder
<1>2. /\ NextIndex \in Nat /\ NextIndex >= 1 /\ NextIndex <= PartCount
      /\ NextIndex = Len(entries) + 1
  BY NextCommand DEF NextIndex
<1>3. /\ HybridOnBroadcom /\ step \in Nat
      /\ \/ step = 1 /\ Len(entries) = 0
         \/ step = 2 /\ Len(entries) = 1
         \/ step = 3 /\ Len(entries) = 2 /\ platform = "broadcom" /\ mbr.name = NoName
         \/ Len(entries) \in 2 .. 16 /\ (platform = "broadcom" => mbr.name # NoName)
  BY CommandIndex DEF LaidOut
<1>4. ~(step = 3 /\ platform = "broadcom")
  <2>1. step = 3 /\ platform = "broadcom" =>
          Command = [cmd |-> "set_as_mbr_partition", name |-> "bootloader"]
    BY ScriptShape DEF Command, Shift
  <2>2. QED
    BY <2>1
<1>5. HybridOnBroadcom'
  <2>1. mbr' = mbr /\ platform' = platform
    BY ArgsFixed
  <2>2. platform = "broadcom" /\ NextIndex >= 3 => mbr.name # NoName
    BY <1>2, <1>3, <1>4
  <2>3. mbr.name # NoName => platform = "broadcom" /\ NextIndex >= 2
    BY <1>2, <1>3 DEF HybridOnBroadcom
  <2>4. step' = NextIndex + 1 + (IF mbr.name = NoName THEN 0 ELSE 1)
    BY <1>2, <1>3 DEF HybridOnBroadcom
  <2>5. QED
    BY <1>1, <1>3, <2>1, <2>2, <2>3, <2>4 DEF HybridOnBroadcom
<1>6. NextIndex = 17 => entries'[17].end + 1 = LastPartitionEnd'
  <2>1. NextIndex = 17 => NextStart + NextLength = FrontierAfter(NextIndex)
    BY NextRoom
  <2>2. NextStart \in Nat /\ NextLength \in Nat
    BY NextRoom
  <2>3. NextMade.end = NextStart + NextLength - 1
    BY DEF NextMade
  <2>4. QED
    BY <1>1, <2>1, <2>2, <2>3
<1>7. LastPartitionEnd' = FrontierAfter(Len(entries))'
  <2>1. FrontierAfter(Len(entries))' = FrontierAfter(NextIndex)
    BY <1>1, ArgsFixed DEF FrontierAfter, EdgeAfter, BootloaderEdge, CardSize, SdSize, args
  <2>2. QED
    BY <1>1, <2>1
<1>8. AtEdges'
  <2>1. /\ DOMAIN entries' = 1 .. NextIndex /\ DOMAIN entries = 1 .. NextIndex - 1
        /\ \A i \in DOMAIN entries : entries'[i] = entries[i]
    BY <1>2, NextInOrder
  <2>2. ASSUME NEW i \in DOMAIN entries', i > 1
        PROVE  entries'[i].start = EdgeAfter(i - 1)
    <3>1. CASE i = NextIndex
      <4>1. NextStart = LastPartitionEnd
        BY <2>2, <3>1, NextRoom
      <4>2. entries # <<>> /\ Len(entries) = NextIndex - 1 /\ NextIndex - 1 # 17
        <5>1. Len(entries) \in Nat /\ Len(entries) = NextIndex - 1 /\ NextIndex <= 17
          BY <1>2, CommandIndex DEF PartCount
        <5>2. NextIndex > 1
          BY <2>2, <3>1
        <5>3. ASSUME NEW k \in Nat, NEW n \in Nat, n = k - 1, k <= 17, k > 1
              PROVE  n # 0 /\ k - 1 # 17
          BY <5>3
        <5>4. Len(entries) # 0 /\ NextIndex - 1 # 17
          BY <1>2, <5>1, <5>2, <5>3
        <5>5. entries # <<>>
          BY <5>4
        <5>6. QED
          BY <5>1, <5>4, <5>5
      <4>3. LastPartitionEnd = FrontierAfter(NextIndex - 1)
        BY <4>2, CommandIndex DEF LaidOut
      <4>4. LastPartitionEnd = EdgeAfter(NextIndex - 1)
        BY <4>2, <4>3 DEF FrontierAfter
      <4>5. QED
        BY <1>1, <3>1, <4>1, <4>4 DEF NextMade
    <3>2. CASE i \in DOMAIN entries
      <4>1. AtEdges
        BY CommandIndex DEF LaidOut
      <4>2. QED
        BY <2>1, <2>2, <3>2, <4>1 DEF AtEdges
    <3>3. QED
      BY <1>2, <2>1, <3>1, <3>2
  <2>3. QED
    BY <2>2, ArgsFixed DEF AtEdges
<1>9. QED
  BY <1>1, <1>2, <1>5, <1>6, <1>7, <1>8, ArgsFixed DEF LaidOut

-----------------------------------------------------------------------------
\* The layout of the card is only known for three of the platforms: an unknown one
\* ends the script at once, and on rockchip the bootloader's image is too big.
LEMMA OthersNeverFit ==
  ASSUME platform \notin KnownPlatforms \ {"rockchip"}
  PROVE  ~ImagesFit
<1>1. 16 * M - 32 * K > 2 * M - 32 * K
  BY DEF M, K
<1>2. platform = "rockchip" => BootloaderSize(platform) > BlSize(platform)
  <2>1. platform = "rockchip" => BootloaderSize(platform) = 16 * M - 32 * K
    BY DEF BootloaderSize
  <2>2. platform = "rockchip" => BlSize(platform) = 2 * M - 32 * K
    BY DEF BlSize, BlStart, KnownPlatforms
  <2>3. QED
    BY <1>1, <2>1, <2>2
<1>3. M \in Int /\ K \in Int
  BY DEF M, K
<1>4. platform = "rockchip" => BootloaderSize(platform) \in Int /\ BlSize(platform) \in Int
  <2>1. platform = "rockchip" => BootloaderSize(platform) = 16 * M - 32 * K
    BY DEF BootloaderSize
  <2>2. platform = "rockchip" => BlSize(platform) = 2 * M - 32 * K
    BY DEF BlSize, BlStart, KnownPlatforms
  <2>3. QED
    BY <1>3, <2>1, <2>2
<1>5. QED
  BY <1>2, <1>4 DEF ImagesFit

\* The size of the image that is next, and whether it fits the partition made for it.
LEMMA NextImageSize ==
  ASSUME SdInv, status = "running", step \in DOMAIN Script, entries \in Seq(Entry),
         Command.cmd = "add_image", platform \in KnownPlatforms \ {"rockchip"}
  PROVE  LET img_size == ImageSizeOf(Command.name, Command.size) IN
         /\ img_size \in ImageSizes /\ img_size \in Nat
         /\ NextLength = IF Command.size = Unset THEN img_size ELSE Command.size
         /\ Command.name = oversized => img_size > NextLength
         /\ ImagesFit => img_size <= NextLength
<1> DEFINE c == Command
           img_size == ImageSizeOf(c.name, c.size)
<1>0. Unset # NoName /\ Unset \notin Int /\ NoName \notin Int
  BY GenSdImgAssumption
<1>1. NoName \notin {c.start, c.size} /\ NextLength \in Nat
  BY NextRoom
<1>2. img_size \in ImageSizes /\ img_size \in Nat /\ c.size \in Sizes \union {Unset} /\ c.name \in Names
  <2>1. ArgsInv /\ c = Script[step]
    BY DEF SdInv, Command
  <2>2. /\ c.name \in Names /\ c.size \in Sizes \union {Unset, NoName}
        /\ img_size \in ImageSizes
    BY <1>1, <2>1, ArgumentsTaken
  <2>3. QED
    BY <1>1, <2>2, PartedAssumption
<1>3. \/ c.name \in ImageNames /\ c.size # Unset
      \/ c.name = "super" /\ c.size = Unset
  BY NextCommand
<1>4. CommandSize(c) = IF c.size = Unset THEN super_size ELSE c.size
  BY NextRoom
<1>5. super_size \in Nat /\ oversized # "super" /\ ImageSizeOf("super", Unset) = super_size
  BY SuperSize, GenSdImgAssumption DEF SdInv, ArgsInv
<1>6. CASE c.name = "super" /\ c.size = Unset
  <2>1. img_size = super_size /\ NextLength = super_size
    BY <1>0, <1>4, <1>5, <1>6 DEF NextLength, SizeOf
  <2>2. QED
    BY <1>2, <1>5, <1>6, <2>1
<1>7. CASE c.name \in ImageNames /\ c.size # Unset
  <2>1. NextLength = c.size /\ c.size \in Nat
    BY <1>1, <1>4, <1>7 DEF NextLength, SizeOf
  <2>2. c.name # "super"
    BY <1>7 DEF ImageNames
  <2>3. c.name = oversized => img_size = c.size + 1
    BY <2>2 DEF ImageSizeOf
  <2>4. c.name = "bootloader" /\ c.name # oversized =>
          img_size = BootloaderSize(platform) /\ c.size = BlSize(platform)
    <3>1. c.name = "bootloader" => c.size = BlSize(platform)
      BY NextCommand
    <3>2. c.name = "bootloader" /\ c.name # oversized => img_size = BootloaderSize(platform)
      BY <2>2 DEF ImageSizeOf
    <3>3. QED
      BY <3>1, <3>2
  <2>5. c.name # "bootloader" /\ c.name # oversized => img_size = c.size
    BY <2>2 DEF ImageSizeOf
  <2>6. ImagesFit => c.name # oversized /\ BootloaderSize(platform) <= BlSize(platform)
    BY <1>2, PartedAssumption DEF ImagesFit
  <2>7. ImagesFit => img_size <= NextLength
    BY <2>1, <2>4, <2>5, <2>6
  <2>8. QED
    BY <1>2, <1>7, <2>1, <2>3, <2>7
<1>8. QED
  BY <1>3, <1>6, <1>7

\* A command for an image keeps the invariant.
LEMMA ImageStep ==
  ASSUME SdInv, SdInv => ArgsInv', entries \in Seq(Entry), gpt_offset \in Nat, disk_size \in Nat,
         images \subseteq Entry, status = "running", step \in DOMAIN Script,
         Command.cmd = "add_image", Accepted(Command, CommandSize(Command)),
         AddImage(Command.name, ImageSizeOf(Command.name, Command.size),
                  Command.start, Command.size),
         status' = StatusAfterImage(Command.name), step' = step + 1, UNCHANGED args
  PROVE  SdInv'
<1> DEFINE c == Command
           img_size == ImageSizeOf(c.name, c.size)
           length == IF c.size = Unset THEN img_size ELSE c.size
           new == NewEntry(c.name, NextStart, length)
<1>1. /\ step \in Nat /\ step > 0 /\ step <= Len(Script) /\ Len(Script) \in Nat
      /\ disk_size = CardSize /\ gpt_offset = GptOffsetOf(platform)
  <2>1. step \in Nat /\ step > 0 /\ step <= Len(Script) /\ Len(Script) \in Nat
    BY ScriptShape DEF PartCount, Shift
  <2>2. QED
    BY <2>1 DEF SdInv
<1>2. /\ entries' = Append(entries, new) /\ WriteImage(new, img_size)
      /\ UNCHANGED <<disk_size, gpt_offset, mbr>>
  BY NextIsNew DEF AddImage, NextStart
<1>3. status' = IF c.name \in written' THEN "running" ELSE "failed"
  BY DEF StatusAfterImage
<1>4. ~Fits(img_size, new) => c.name \notin written'
  BY <1>2, NextIsNew DEF WriteImage
<1>5. new.name = c.name
  BY DEF NewEntry
<1>6. Fits(img_size, new) => c.name \in written'
  BY <1>2, <1>5 DEF WriteImage
<1>7. ASSUME Fits(img_size, new) => LaidOut',
             ~Fits(img_size, new) => ~ImagesFit
      PROVE  SdInv'
  <2>1. ArgsInv' /\ step' \in Nat /\ step' > 0 /\ step' # 0
    BY <1>1
  <2>2. disk_size' = CardSize' /\ gpt_offset' = GptOffsetOf(platform)'
    BY <1>1, <1>2, ArgsFixed
  <2>3. status' = "failed" => ~ImagesFit' /\ step' <= Len(Script') + 1
    BY <1>1, <1>3, <1>6, <1>7, ArgsFixed
  <2>4. status' # "failed" => LaidOut'
    BY <1>3, <1>4, <1>7
  <2>5. status' # "done"
    BY <1>3
  <2>6. QED
    BY <2>1, <2>2, <2>3, <2>4, <2>5 DEF SdInv
<1>8. CASE platform \in KnownPlatforms \ {"rockchip"}
  <2>1. /\ img_size \in ImageSizes /\ img_size \in Nat
        /\ NextLength = length
        /\ c.name = oversized => img_size > NextLength
        /\ ImagesFit => img_size <= NextLength
    BY <1>8, NextImageSize
  <2>2. new = NextMade
    BY <1>8, <2>1, NextAccepted
  <2>3. NextStart \in Nat /\ NextLength \in Nat
    BY <1>8, NextRoom
  <2>4. ASSUME Fits(img_size, new) PROVE LaidOut'
    <3>1. ImagesThere'
      BY <1>2, <1>6, <1>8, <2>1, <2>2, <2>4, ArgsFixed, NextImage
    <3>2. QED
      BY <1>2, <1>8, <2>2, <3>1, NextLaidOut
  <2>5. ASSUME ~Fits(img_size, new) PROVE ~ImagesFit
    <3>1. (NextMade.end + 1 - NextMade.start) * Sector = NextLength
      BY <2>3, GenSdImgAssumption DEF NextMade
    <3>2. ~(img_size <= NextLength)
      BY <2>2, <2>5, <3>1 DEF Fits
    <3>3. QED
      BY <2>1, <3>2
  <2>6. QED
    BY <1>7, <2>4, <2>5
<1>9. CASE platform \notin KnownPlatforms \ {"rockchip"}
  <2>1. NextIndex = 1 /\ c.name = "bootloader"
    <3>1. entries = <<>>
      BY <1>9, CommandIndex DEF LaidOut
    <3>2. QED
      BY <3>1, NextCommand DEF NextIndex, PartNames
  <2>2. c.start = BlStart(platform) /\ c.size = BlSize(platform) /\ c.start # NoName
    BY <2>1, NextCommand DEF Accepted
  <2>3. platform = "rockchip"
    BY <1>9, <2>2 DEF BlStart, KnownPlatforms
  <2>4. /\ c.start = 64 /\ c.size = 4032 /\ NextStart = 64 /\ length = 4032
        /\ BootloaderSize(platform) = 32704
    <3>1. /\ c.start = 32 * K /\ c.size = 2 * M - 32 * K
          /\ BootloaderSize(platform) = 16 * M - 32 * K
      BY <2>2, <2>3 DEF BlStart, BlSize, BootloaderSize, KnownPlatforms
    <3>2. /\ c.start = 64 /\ c.size = 4032 /\ BootloaderSize(platform) = 32704
      BY <3>1 DEF K, M
    <3>3. c.start # Unset /\ c.size # Unset
      BY <3>2, GenSdImgAssumption
    <3>4. QED
      BY <3>2, <3>3 DEF NextStart, StartOf
  <2>5. img_size \in {4033, 32704}
    BY <2>1, <2>4 DEF ImageSizeOf
  <2>6. new = [name |-> c.name, start |-> 64, end |-> 4095]
    BY <2>4, UnitEntry
  <2>7. ~Fits(img_size, new)
    <3>1. (new.end + 1 - new.start) * Sector = 4032
      BY <2>6, GenSdImgAssumption
    <3>2. QED
      BY <2>5, <3>1 DEF Fits
  <2>8. QED
    BY <1>7, <1>9, <2>7, OthersNeverFit
<1>10. QED
  BY <1>8, <1>9

\* A command for an empty partition keeps the invariant: it is none of the first.
LEMMA PartitionStep ==
  ASSUME SdInv, SdInv => ArgsInv', entries \in Seq(Entry), gpt_offset \in Nat, disk_size \in Nat,
         images \subseteq Entry, status = "running", step \in DOMAIN Script,
         Command.cmd = "add_partition", Accepted(Command, CommandSize(Command)),
         AddPartition(Command.name, Command.start, Command.size),
         status' = status, step' = step + 1, UNCHANGED args
  PROVE  SdInv'
<1>1. /\ Command.name = PartNames[NextIndex] /\ NextIndex \in 1 .. 17
      /\ Command.name \in PartitionNames \ ImageNames
  BY NextCommand
<1>2. platform \in KnownPlatforms \ {"rockchip"}
  <2>1. "bootloader" \in ImageNames /\ PartNames[1] = "bootloader"
    BY DEF ImageNames, PartNames
  <2>2. NextIndex # 1
    BY <1>1, <2>1
  <2>3. entries # <<>>
    BY <1>1, <2>2 DEF NextIndex
  <2>4. QED
    BY <2>3, CommandIndex DEF LaidOut
<1>3. CommandSize(Command) = Command.size
  BY DEF CommandSize
<1>4. /\ entries' = Append(entries, NewEntry(Command.name, NextStart, NextLength))
      /\ UNCHANGED <<disk_size, gpt_offset, mbr, images, written>>
  BY <1>3 DEF AddPartition, NextStart, NextLength
<1>5. entries' = Append(entries, NextMade)
  BY <1>2, <1>4, NextAccepted
<1>6. Command.name # oversized
  <2>1. Command.name # NoName
    BY <1>1, GenSdImgAssumption, PartedAssumption
  <2>2. QED
    BY <1>1, <2>1 DEF SdInv, ArgsInv
<1>7. ImagesThere'
  BY <1>2, <1>4, <1>5, <1>6, ArgsFixed, NextWithoutImage
<1>8. LaidOut'
  BY <1>2, <1>4, <1>5, <1>7, NextLaidOut
<1>9. /\ step \in Nat /\ step' # 0 /\ step' > 0
      /\ disk_size = CardSize /\ gpt_offset = GptOffsetOf(platform)
  BY CommandIndex
<1>10. disk_size' = CardSize' /\ gpt_offset' = GptOffsetOf(platform)'
  BY <1>4, <1>9, ArgsFixed
<1>11. QED
  BY <1>8, <1>9, <1>10 DEF SdInv

\* Broadcom's third command puts the bootloader in the MBR.
LEMMA MbrStep ==
  ASSUME SdInv, SdInv => ArgsInv', entries \in Seq(Entry), gpt_offset \in Nat,
         status = "running", step \in DOMAIN Script,
         Command.cmd = "set_as_mbr_partition", SetAsMbrPartition(Command.name),
         status' = status, step' = step + 1, UNCHANGED args
  PROVE  SdInv'
<1>1. /\ LaidOut /\ step \in Nat /\ disk_size = CardSize /\ gpt_offset = GptOffsetOf(platform)
  BY CommandIndex
<1>2. step = 3 /\ Len(entries) = 2 /\ platform = "broadcom" /\ mbr.name = NoName
  <2>1. ~(step = 1)
    <3>1. Script[1].cmd = "add_image"
      BY ScriptShape DEF Image
    <3>2. QED
      BY <3>1 DEF Command
  <2>2. ~(step = 2)
    <3>1. Script[2].cmd = "add_image"
      BY ScriptShape DEF Image
    <3>2. QED
      BY <3>1 DEF Command
  <2>3. ASSUME type = "SD", Len(entries) \in 2 .. 16, step = Len(entries) + 1 + Shift
        PROVE  FALSE
    <3>1. Command = AndroidCommands[Len(entries) - 1]
      BY <2>3, ScriptShape DEF Command
    <3>2. Command.cmd \in {"add_image", "add_partition"}
      BY <2>3, <3>1, AndroidTable
    <3>3. QED
      BY <3>2
  <2>4. QED
    BY <2>1, <2>2, <2>3, CommandIndex
<1>3. Command.name = "bootloader"
  <2>1. Command = [cmd |-> "set_as_mbr_partition", name |-> "bootloader"]
    BY <1>2, ScriptShape DEF Command, Shift
  <2>2. QED
    BY <2>1
<1>4. UNCHANGED <<disk_size, gpt_offset, entries, images, written>>
  BY DEF SetAsMbrPartition
<1>5. mbr'.name = "bootloader"
  <2>1. 1 \in DOMAIN entries /\ entries[1].name = "bootloader"
    BY <1>1, <1>2 DEF LaidOut, InOrder, PartNames
  <2>2. FirstNamed("bootloader") # 0
    BY <2>1, FirstNamedMisses
  <2>3. mbr'.name = entries[FirstNamed("bootloader")].name
    BY <1>3, <2>2 DEF SetAsMbrPartition, HybridEntry
  <2>4. QED
    BY <2>2, <2>3, FirstNamedFinds
<1>6. "bootloader" # NoName
  BY GenSdImgAssumption, PartedAssumption DEF PartitionNames, ImageNames
<1>7. HybridOnBroadcom'
  <2>1. step' = 4 /\ Len(entries') = 2 /\ platform' = "broadcom" /\ mbr'.name # NoName
    BY <1>2, <1>4, <1>5, <1>6, ArgsFixed
  <2>2. QED
    BY <1>5, <2>1 DEF HybridOnBroadcom
<1>8. LastPartitionEnd' = LastPartitionEnd
  BY <1>4, LastPartitionEndIs
<1>9. InOrder' /\ AtEdges' /\ ImagesThere'
  <2>1. InOrder' /\ ImagesThere'
    BY <1>1, <1>4, <1>8, ArgsFixed DEF LaidOut, InOrder, ImagesThere
  <2>2. AtEdges'
    BY <1>1, <1>4, ArgsFixed DEF LaidOut, AtEdges
  <2>3. QED
    BY <2>1, <2>2
<1>10. FrontierAfter(Len(entries))' = FrontierAfter(Len(entries))
  BY <1>4, ArgsFixed DEF FrontierAfter, EdgeAfter, BootloaderEdge, CardSize, SdSize, args
<1>11. LaidOut'
  BY <1>1, <1>4, <1>7, <1>8, <1>9, <1>10, ArgsFixed DEF LaidOut
<1>12. disk_size' = CardSize' /\ gpt_offset' = GptOffsetOf(platform)'
  BY <1>1, <1>4, ArgsFixed
<1>13. step' \in Nat /\ step' > 0 /\ step' # 0
  BY <1>1
<1>14. QED
  BY <1>11, <1>12, <1>13 DEF SdInv

\* Creating the image starts with an empty table.
LEMMA CreateStep ==
  ASSUME SdInv, SdInv => ArgsInv', Create
  PROVE  SdInv'
<1>1. /\ step = 0 /\ step' = 1 /\ UNCHANGED <<args, status>>
      /\ CreateEmpty(CardSize, GptOffsetOf(platform))
  BY DEF Create, CardSize
<1>2. /\ entries = <<>> /\ images = {} /\ written = {} /\ status = "running"
  BY <1>1 DEF SdInv
<1>3. /\ disk_size' = CardSize /\ gpt_offset' = GptOffsetOf(platform)
      /\ entries' = <<>> /\ images' = {} /\ written' = {} /\ status' = "running"
      /\ mbr'.name = NoName
  BY <1>1, <1>2, GenSdImgAssumption DEF CreateEmpty, ProtectiveOnly
<1>4. LaidOut'
  <2>1. InOrder' /\ AtEdges' /\ ImagesThere'
    BY <1>3 DEF InOrder, AtEdges, ImagesThere
  <2>2. Len(entries') = 0 /\ DOMAIN entries' = {}
    BY <1>3
  <2>3. HybridOnBroadcom'
    BY <1>1, <1>3, <2>2 DEF HybridOnBroadcom
  <2>4. QED
    BY <1>3, <2>1, <2>2, <2>3 DEF LaidOut, PartCount
<1>5. QED
  BY <1>1, <1>3, <1>4, ArgsFixed DEF SdInv

\* Every step keeps the invariant.
LEMMA SdInvStep ==
  ASSUME SdInv, PartedInv, PartedTypeOK, [SdNext]_sdVars
  PROVE  SdInv'
<1>1. /\ entries \in Seq(Entry) /\ gpt_offset \in Nat /\ disk_size \in Nat
      /\ images \subseteq Entry
  BY DEF PartedInv, PartedTypeOK, Extent, Entry
<1>2. SdInv => ArgsInv'
  BY ScriptStep DEF SdInv
<1>3. CASE Create
  BY <1>2, <1>3, CreateStep
<1>4. CASE RunCommand
  <2>1. status = "running" /\ step \in DOMAIN Script /\ step' = step + 1 /\ UNCHANGED args
    BY <1>4 DEF RunCommand
  <2>2. CASE /\ Command.cmd = "add_image"
             /\ Accepted(Command, CommandSize(Command))
             /\ AddImage(Command.name, ImageSizeOf(Command.name, Command.size),
                         Command.start, Command.size)
             /\ status' = StatusAfterImage(Command.name)
    BY <1>1, <1>2, <2>1, <2>2, ImageStep
  <2>3. CASE /\ Command.cmd = "add_partition"
             /\ Accepted(Command, CommandSize(Command))
             /\ AddPartition(Command.name, Command.start, Command.size)
             /\ status' = status
    BY <1>1, <1>2, <2>1, <2>3, PartitionStep
  <2>4. CASE /\ Command.cmd = "set_as_mbr_partition"
             /\ SetAsMbrPartition(Command.name)
             /\ status' = status
    BY <1>1, <1>2, <2>1, <2>4, MbrStep
  <2>5. QED
    BY <1>4, <2>2, <2>3, <2>4 DEF RunCommand
<1>5. CASE Refused
  <2>1. /\ status = "running" /\ step \in DOMAIN Script
        /\ Command.cmd # "set_as_mbr_partition"
        /\ ~Accepted(Command, CommandSize(Command))
        /\ status' = "failed" /\ UNCHANGED <<partedVars, args, step>>
    BY <1>5 DEF Refused
  <2>2. ~ImagesFit
    BY <1>1, <2>1, NextAccepted, OthersNeverFit
  <2>3. step \in Nat /\ step # 0 /\ step > 0 /\ step <= Len(Script) + 1
    BY <2>1, ScriptShape DEF PartCount, Shift
  <2>4. disk_size = CardSize /\ gpt_offset = GptOffsetOf(platform)
    BY <2>3 DEF SdInv
  <2>5. disk_size' = CardSize' /\ gpt_offset' = GptOffsetOf(platform)'
    BY <2>1, <2>4, ArgsFixed DEF partedVars
  <2>6. QED
    BY <1>2, <2>1, <2>2, <2>3, <2>5, ArgsFixed DEF SdInv
<1>6. CASE Finish
  <2>1. /\ status = "running" /\ step = Len(Script) + 1 /\ status' = "done"
        /\ UNCHANGED <<partedVars, args, step>>
    BY <1>6 DEF Finish
  <2>2. step \in Nat /\ step > 0 /\ step # 0
    BY <2>1, ScriptShape DEF PartCount, Shift
  <2>3. LaidOut /\ disk_size = CardSize /\ gpt_offset = GptOffsetOf(platform)
    BY <2>1, <2>2 DEF SdInv
  <2>4. disk_size' = CardSize' /\ gpt_offset' = GptOffsetOf(platform)'
    BY <2>1, <2>3, ArgsFixed DEF partedVars
  <2>5. LaidOut'
    BY <2>1, <2>3, LayoutStays
  <2>6. QED
    BY <1>2, <2>1, <2>2, <2>4, <2>5, ArgsFixed DEF SdInv
<1>7. CASE UNCHANGED sdVars
  <2>1. UNCHANGED <<partedVars, args, step>> /\ status' = status
    BY <1>7 DEF sdVars
  <2>2. LaidOut => LaidOut'
    BY <2>1, LayoutStays
  <2>3. UNCHANGED <<disk_size, gpt_offset, entries, mbr, images, written>>
    BY <2>1 DEF partedVars
  <2>4. QED
    BY <1>2, <2>1, <2>2, <2>3, ArgsFixed DEF SdInv
<1>8. QED
  BY <1>3, <1>4, <1>5, <1>6, <1>7 DEF SdNext

-----------------------------------------------------------------------------
\* The layout invariant holds of every run of the script.
THEOREM ScriptInvariant == SdSpec => [](SdInv /\ PartedInv /\ PartedTypeOK)
<1>1. SdInit => SdInv
  <2>1. SdInit => ArgsInv
    BY DEF SdInit, ArgsInv
  <2>2. SdInit => mbr.name = NoName
    BY DEF SdInit, PartedInit, ProtectiveOnly
  <2>3. QED
    BY <2>1, <2>2 DEF SdInit, PartedInit, SdInv
<1>2. SdInv /\ PartedInv /\ PartedTypeOK /\ [SdNext]_sdVars => SdInv'
  BY SdInvStep
<1>3. QED
  BY <1>1, <1>2, ScriptIsParted, PartedInvariant, PartedTypeCorrect, PTL DEF SdSpec

\* The script's variables and those of the image keep their types: it never runs
\* past its last command.
THEOREM SdTypeCorrect == SdSpec => []SdTypeOK
<1>1. SdInv /\ PartedTypeOK => SdTypeOK
  <2> SUFFICES ASSUME SdInv, PartedTypeOK PROVE SdTypeOK
    OBVIOUS
  <2>1. Len(Script) \in Nat /\ Len(Script) = PartCount + Shift /\ step \in Nat
    BY ScriptShape DEF PartCount, Shift, SdInv
  <2>2. step <= Len(Script) + 1
    <3>1. CASE step = 0
      BY <2>1, <3>1
    <3>2. CASE status = "failed"
      BY <3>2 DEF SdInv
    <3>3. CASE step > 0 /\ status # "failed"
      <4>1. HybridOnBroadcom /\ Len(entries) <= PartCount /\ Len(entries) \in Nat
        BY <3>3 DEF SdInv, LaidOut, PartedTypeOK
      <4>2. CASE mbr.name = NoName
        BY <2>1, <4>1, <4>2 DEF HybridOnBroadcom, PartCount, Shift
      <4>3. CASE mbr.name # NoName
        BY <2>1, <4>1, <4>3 DEF HybridOnBroadcom, PartCount, Shift
      <4>4. QED
        BY <4>2, <4>3
    <3>4. QED
      BY <2>1, <3>1, <3>2, <3>3
  <2>3. QED
    BY <2>1, <2>2 DEF SdInv, ArgsInv, SdTypeOK
<1>2. QED
  BY <1>1, ScriptInvariant, PTL

\* Whatever super.img measures, the card gensdimg.sh makes for it has room for
\* every partition: with images that fit their partitions no command is refused.
THEOREM CardAlwaysSuffices == SdSpec => []CardSuffices
<1>1. SdInv => CardSuffices
  BY DEF SdInv, CardSuffices
<1>2. QED
  BY <1>1, ScriptInvariant, PTL

\* On rockchip the script never ends well: the bootloader's image is built for a
\* partition of 16 MiB, and its partition ends at 2 MiB.
THEOREM RockchipNeverDone == SdSpec => [](platform = "rockchip" => status # "done")
<1>1. SdInv /\ PartedInv => (platform = "rockchip" => status # "done")
  <2> SUFFICES ASSUME SdInv, PartedInv, platform = "rockchip", status = "done" PROVE FALSE
    OBVIOUS
  <2>1. step = Len(Script) + 1 /\ Len(Script) = PartCount + Shift
    BY ScriptShape DEF SdInv
  <2>2. step > 0 /\ step = PartCount + 1 /\ PartCount >= 2
    BY <2>1 DEF PartCount, Shift
  <2>3. LaidOut /\ entries \in Seq(Entry)
    BY <2>2 DEF SdInv, PartedInv
  <2>4. step = Len(entries) + 1
    BY <2>3 DEF LaidOut, HybridOnBroadcom
  <2>5. entries # <<>>
    BY <2>2, <2>4 DEF PartCount
  <2>6. QED
    BY <2>3, <2>5 DEF LaidOut
<1>2. QED
  BY <1>1, ScriptInvariant, PTL

\* The partitions the script names are the first ones of the list.
LEMMA ScriptNames == {Script[i].name : i \in DOMAIN Script} = {PartNames[i] : i \in 1 .. PartCount}
<1>1. ASSUME NEW i \in DOMAIN Script PROVE \E j \in 1 .. PartCount : Script[i].name = PartNames[j]
  <2>1. CASE i = 1
    BY <2>1, ScriptShape DEF Image, PartNames, PartCount
  <2>2. CASE i = 2
    BY <2>2, ScriptShape DEF Image, PartNames, PartCount
  <2>3. CASE i = 3 /\ platform = "broadcom"
    <3>1. Script[3] = [cmd |-> "set_as_mbr_partition", name |-> "bootloader"]
      BY <2>3, ScriptShape DEF Shift
    <3>2. Script[i].name = PartNames[1] /\ 1 \in 1 .. PartCount
      BY <2>3, <3>1 DEF PartNames, PartCount
    <3>3. QED
      BY <3>2
  <2>4. ASSUME type = "SD", NEW n \in 2 .. 16, i = n + 1 + Shift
        PROVE  \E j \in 1 .. PartCount : Script[i].name = PartNames[j]
    <3>1. Script[i].name = PartNames[n + 1]
      <4>1. Script[i] = AndroidCommands[n - 1]
        BY <2>4, ScriptShape
      <4>2. AndroidCommands[n - 1].name = PartNames[n + 1]
        BY AndroidTable
      <4>3. QED
        BY <4>1, <4>2
    <3>2. n + 1 \in 1 .. PartCount
      BY <2>4 DEF PartCount
    <3>3. QED
      BY <3>1, <3>2
  <2>5. QED
    BY <2>1, <2>2, <2>3, <2>4, CommandsAre
<1>2. ASSUME NEW j \in 1 .. PartCount PROVE \E i \in DOMAIN Script : Script[i].name = PartNames[j]
  <2>1. CASE j = 1
    <3>1. 1 \in DOMAIN Script /\ Script[1].name = "bootloader"
      BY ScriptShape DEF Image, PartCount, Shift
    <3>2. QED
      BY <2>1, <3>1 DEF PartNames
  <2>2. CASE j = 2
    <3>1. 2 \in DOMAIN Script /\ Script[2].name = "uboot-env"
      BY ScriptShape DEF Image, PartCount, Shift
    <3>2. QED
      BY <2>2, <3>1 DEF PartNames
  <2>3. CASE j > 2
    <3>1. type = "SD" /\ j - 1 \in 2 .. 16 /\ (j - 1) + 1 = j
      BY <2>3 DEF PartCount
    <3>2. (j - 1) + 1 + Shift \in DOMAIN Script
      BY <2>3, <3>1, ScriptShape DEF PartCount, Shift
    <3>3. ASSUME NEW n \in 2 .. 16
          PROVE  Script[n + 1 + Shift].name = PartNames[n + 1]
      <4>1. Script[n + 1 + Shift] = AndroidCommands[n - 1]
        BY <3>1, ScriptShape
      <4>2. AndroidCommands[n - 1].name = PartNames[n + 1]
        BY AndroidTable
      <4>3. QED
        BY <4>1, <4>2
    <3>4. Script[(j - 1) + 1 + Shift].name = PartNames[(j - 1) + 1]
      BY <3>1, <3>3
    <3>5. QED
      BY <3>1, <3>2, <3>4
  <2>4. QED
    BY <2>1, <2>2, <2>3 DEF PartCount
<1>3. QED
  BY <1>1, <1>2

\* Outside amlogic, and with super.img of whole blocks, every edge is one of a
\* block, from the bootloader's on.
LEMMA EdgesAreBlocks ==
  ASSUME platform \in {"sunxi", "broadcom"}, super_size \in Nat, super_size % EraseBlock = 0,
         NEW n \in 1 .. 16
  PROVE  \E q \in Nat : EdgeAfter(n) = q * 1024
<1>1. Block = 1024 /\ EraseBlock = 1024
  BY BootloaderIs DEF EraseBlock
<1>2. PICK b \in Nat : BootloaderEdge = b * 1024
  <2>1. 4096 = 4 * 1024 /\ 262144 = 256 * 1024
    OBVIOUS
  <2>2. QED
    BY <2>1, BootloaderIs
<1>3. PICK s \in Nat : (IF n >= 15 THEN super_size ELSE 0) = s * 1024
  <2>1. super_size \div 1024 \in Nat /\ super_size = (super_size \div 1024) * 1024
    BY <1>1
  <2>2. 0 = 0 * 1024 /\ 0 \in Nat
    OBVIOUS
  <2>3. QED
    BY <2>1, <2>2
<1>4. Blocks[n] \in Nat
  BY BlocksGrow
<1>5. b + Blocks[n] + s \in Nat /\ EdgeAfter(n) = (b + Blocks[n] + s) * 1024
  <2>1. EdgeAfter(n) = b * 1024 + Blocks[n] * 1024 + s * 1024
    BY <1>1, <1>2, <1>3 DEF EdgeAfter
  <2>2. QED
    BY <1>4, <2>1
<1>6. QED
  BY <1>5

\* No erase block of the eMMC holds parts of two partitions.
THEOREM PartitionsKeepToTheirBlocks == SdSpec => []EraseBlocksApart
<1>1. SdInv /\ PartedInv => EraseBlocksApart
  <2> SUFFICES ASSUME SdInv, PartedInv, status # "failed", platform # "amlogic",
                      super_size % EraseBlock = 0,
                      NEW i \in DOMAIN entries, NEW j \in DOMAIN entries, i < j
               PROVE  entries[i].end \div EraseBlock < entries[j].start \div EraseBlock
    BY DEF EraseBlocksApart
  <2>1. entries # <<>> /\ step > 0
    BY DEF SdInv
  <2>2. LaidOut /\ entries \in Seq(Entry)
    BY <2>1 DEF SdInv, PartedInv
  <2>3. i \in Nat \ {0} /\ j - 1 \in 1 .. 16
    <3>1. Len(entries) <= 17 /\ Len(entries) \in Nat
      BY <2>2 DEF LaidOut, PartCount
    <3>2. QED
      BY <2>2, <3>1
  <2>4. platform \in {"sunxi", "broadcom"}
    BY <2>1, <2>2 DEF LaidOut, KnownPlatforms
  <2>5. super_size \in Nat
    BY GenSdImgAssumption DEF SdInv, ArgsInv
  <2>6. entries[j].start = EdgeAfter(j - 1)
    BY <2>2, <2>3 DEF LaidOut, AtEdges
  <2>7. PICK q \in Nat : entries[j].start = q * 1024
    <3>1. \E q \in Nat : EdgeAfter(j - 1) = q * 1024
      BY <2>3, <2>4, <2>5, EdgesAreBlocks
    <3>2. QED
      BY <2>6, <3>1
  <2>8. entries[i].end < entries[j].start
    BY <2>2 DEF LaidOut, InOrder
  <2>9. entries[i] \in Entry
    BY <2>2
  <2>10. entries[i].end \in Int
    BY <2>9 DEF Entry
  <2>11. EraseBlock = 1024
    BY BootloaderIs DEF EraseBlock
  <2>12. QED
    BY <2>7, <2>8, <2>10, <2>11
<1>2. QED
  BY <1>1, ScriptInvariant, PTL

\* "DONE" means that every partition of the script is on the card, in its order,
\* with every image whole, and broadcom's bootloader in the MBR.
THEOREM DoneIsComplete == SdSpec => []DoneMeansComplete
<1>1. SdInv /\ PartedInv => DoneMeansComplete
  <2> SUFFICES ASSUME SdInv, PartedInv, status = "done"
               PROVE  /\ platform \in KnownPlatforms
                      /\ oversized \notin {Script[i].name : i \in DOMAIN Script}
                      /\ {Script[i].name : i \in DOMAIN Script}
                           = {entries[i].name : i \in DOMAIN entries}
                      /\ \A i, j \in DOMAIN entries : i < j => entries[i].end < entries[j].start
                      /\ Disjoint
                      /\ written = {image.name : image \in images}
                      /\ type = "SD" => Last(entries).end = disk_size - TableSectors - 1
                      /\ mbr.name = IF platform = "broadcom" THEN "bootloader" ELSE NoName
    BY DEF DoneMeansComplete
  <2> DEFINE n == Len(entries)
  <2>1. /\ step = PartCount + Shift + 1 /\ step > 0 /\ PartCount >= 2
    BY ScriptShape DEF SdInv, PartCount, Shift
  <2>2. /\ LaidOut /\ disk_size = CardSize
        /\ entries \in Seq(Entry) /\ n \in Nat /\ n <= PartCount
    BY <2>1 DEF SdInv, PartedInv, LaidOut
  <2>3. /\ step = n + 1 + (IF mbr.name = NoName THEN 0 ELSE 1)
        /\ mbr.name \in {NoName, "bootloader"}
        /\ mbr.name # NoName => platform = "broadcom"
    BY <2>2 DEF LaidOut, HybridOnBroadcom
  <2> HIDE DEF n
  <2>4. /\ n = PartCount
        /\ mbr.name = IF platform = "broadcom" THEN "bootloader" ELSE NoName
    <3>1. CASE platform = "broadcom"
      <4>1. step = PartCount + 2
        BY <2>1, <3>1 DEF Shift, PartCount
      <4>2. mbr.name # NoName
        BY <2>2, <2>3, <4>1 DEF PartCount
      <4>3. QED
        BY <2>2, <2>3, <3>1, <4>1, <4>2 DEF PartCount
    <3>2. CASE platform # "broadcom"
      BY <2>1, <2>2, <2>3, <3>2 DEF Shift, PartCount
    <3>3. QED
      BY <3>1, <3>2
  <2>5. DOMAIN entries = 1 .. PartCount /\ entries # <<>>
    BY <2>1, <2>2, <2>4 DEF n
  <2>6. platform \in KnownPlatforms
    BY <2>2, <2>5 DEF LaidOut
  <2>7. /\ \A i \in DOMAIN entries : entries[i].name = PartNames[i]
        /\ \A i, j \in DOMAIN entries : i < j => entries[i].end < entries[j].start
        /\ written = {image.name : image \in images}
        /\ \A i \in DOMAIN entries : entries[i].name # oversized
    BY <2>2 DEF LaidOut, InOrder, ImagesThere
  <2>8. {Script[i].name : i \in DOMAIN Script} = {entries[i].name : i \in DOMAIN entries}
    BY <2>5, <2>7, ScriptNames
  <2>9. oversized \notin {Script[i].name : i \in DOMAIN Script}
    BY <2>7, <2>8
  <2>10. Disjoint
    <3>1. ASSUME NEW i \in DOMAIN entries, NEW j \in DOMAIN entries, i # j
          PROVE  ~Overlap(entries[i], entries[j])
      <4>1. entries[i] \in Entry /\ entries[j] \in Entry
        BY <2>2
      <4>2. /\ entries[i].start \in Int /\ entries[i].end \in Int
            /\ entries[j].start \in Int /\ entries[j].end \in Int
        BY <4>1 DEF Entry
      <4>3. i \in Nat /\ j \in Nat
        BY <2>2
      <4>4. i < j \/ j < i
        BY <3>1, <4>3
      <4>5. entries[i].end < entries[j].start \/ entries[j].end < entries[i].start
        BY <2>7, <4>4
      <4>6. QED
        BY <4>2, <4>5 DEF Overlap
    <3>2. QED
      BY <3>1 DEF Disjoint, Pairs
  <2>11. type = "SD" => Last(entries).end = disk_size - TableSectors - 1
    <3>1. ASSUME type = "SD" PROVE Last(entries).end = disk_size - TableSectors - 1
      <4>1. n = 17 /\ 17 \in DOMAIN entries /\ Last(entries) = entries[17]
        BY <2>2, <2>4, <2>5, <3>1 DEF PartCount, Last, n
      <4>2. entries[17].end + 1 = CardSize - 33
        BY <2>2, <2>5, <4>1 DEF LaidOut, FrontierAfter, n
      <4>3. CardSize \in Nat
        BY <2>2 DEF PartedInv
      <4>4. entries[17] \in Entry
        BY <2>2, <4>1
      <4>5. entries[17].end \in Int
        BY <4>4 DEF Entry
      <4>6. QED
        BY <2>2, <4>1, <4>2, <4>3, <4>5, GenSdImgAssumption
    <3>2. QED
      BY <3>1
  <2>12. QED
    BY <2>4, <2>6, <2>7, <2>8, <2>9, <2>10, <2>11
<1>2. QED
  BY <1>1, ScriptInvariant, PTL
=============================================================================
