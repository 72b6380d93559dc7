----------------------------- MODULE PartedGpt -----------------------------
(***************************************************************************)
(* parted.py, the tool that writes a GPT disk image.  Each command is one   *)
(* run of the tool: it reads the partition table from the image, checks its *)
(* arguments, and writes table and data back.  A command that is refused    *)
(* changes nothing and is left out - but for add_image, which stores a new  *)
(* partition before it finds the image too big for it.                      *)
(*                                                                          *)
(* Offsets and sizes count units, Sector of them to a sector (512 bytes to  *)
(* one in the code); entries hold sector numbers, both ends included.       *)
(***************************************************************************)
EXTENDS Integers, Sequences, SequencesExt

CONSTANTS Sector,       \* units in a sector
          TableSectors, \* header and entry array: 33 in the code
          NumEntries,   \* bound: so many partitions at most (128 fit the array)
          GptOffsets,   \* values of --gpt-offset
          no_mbr,       \* --no-mbr
          Names, NoName, Unset,
          DiskSizes, Starts, Sizes, ImageSizes  \* arguments of the commands

ASSUME PartedAssumption ==
  /\ Sector \in Nat \ {0}
  /\ TableSectors \in Nat \ {0}
  /\ NumEntries \in Nat
  /\ \A offset \in GptOffsets : offset \in Nat /\ offset % Sector = 0
  /\ no_mbr \in BOOLEAN
  /\ NoName \notin Names
  /\ DiskSizes \subseteq Nat \ {0}
  /\ Starts \subseteq Nat
  /\ Sizes \union ImageSizes \subseteq Nat \ {0}

VARIABLES
  disk_size, \* of the image file; 0 while there is none
  gpt_offset, \* the --gpt-offset that every command on the image is given
  entries,   \* gpt_partitions: the partition entries as the table holds them
  mbr,       \* the hybrid entry and the end of the protective one
  images,    \* image data on the disk that nothing has overwritten
  written    \* history: partitions an image was successfully written to

partedVars == <<disk_size, gpt_offset, entries, mbr, images, written>>

Extent == [name : Names, start : Nat, end : Int]
ProtectiveOnly(zone_end) == [name |-> NoName, start |-> 0, end |-> 0, zone_end |-> zone_end]

PartedTypeOK ==
  /\ disk_size \in DiskSizes \union {0}
  /\ gpt_offset \in GptOffsets \union {0}
  /\ entries \in Seq(Extent)
  /\ images \subseteq Extent
  /\ written \subseteq Names
  /\ mbr \in [name : Names \union {NoName}, start : Nat, end : Int, zone_end : Int]

PartedInit ==
  /\ disk_size = 0
  /\ gpt_offset = 0
  /\ entries = <<>>
  /\ mbr = ProtectiveOnly(0)
  /\ images = {}
  /\ written = {}

-----------------------------------------------------------------------------
DivRoundUp(a, b) == (a + b - 1) \div b

CreateEmpty(size, offset) ==
  /\ disk_size = 0
  /\ disk_size' = size
  /\ gpt_offset' = offset
  /\ mbr' = IF no_mbr THEN mbr ELSE ProtectiveOnly((size \div Sector) - 1)
  /\ UNCHANGED <<entries, images, written>>

\* Where a partition goes without --start: behind the last one listed - or what
\* the loop takes for it, which looks at where the last sector begins.
LastPartitionEnd ==
  LET end[n \in 0 .. Len(entries)] ==
        IF n = 0 THEN gpt_offset + (TableSectors + 1) * Sector
        ELSE IF entries[n].end * Sector > end[n - 1]
             THEN (entries[n].end + 1) * Sector
             ELSE end[n - 1]
  IN  end[Len(entries)]

StartOf(start) == IF start = Unset THEN LastPartitionEnd ELSE start

SizeOf(start, size) ==
  IF size = Unset THEN disk_size - TableSectors * Sector - start ELSE size

\* Segments the tables occupy: the end lies behind the last unit.
TableSegments ==
  {<<gpt_offset, gpt_offset + TableSectors * Sector>>,
   <<disk_size - TableSectors * Sector, disk_size>>}
    \union IF no_mbr THEN {} ELSE {<<0, Sector>>}

\* Segments as create_empty_partition lists them for the partitions: the end is
\* the first unit of the last sector.
PartitionSegments ==
  {<<entries[i].start * Sector, entries[i].end * Sector>> : i \in DOMAIN entries}

\* Mutant: a segment enclosed by the new partition goes unnoticed.
Clashes_NotEnclosed(start, size, seg) ==
  \/ start >= seg[1] /\ start < seg[2]
  \/ start + size > seg[1] /\ start + size <= seg[2]

Clashes(start, size, seg) ==
  \/ start >= seg[1] /\ start < seg[2]
  \/ start + size > seg[1] /\ start + size <= seg[2]
  \/ start < seg[1] /\ start + size > seg[2]

\* Mutant: the tables are not among the segments to keep clear of.
CanPlace_IgnoresTables(start, size) ==
  /\ start >= 0 /\ start + size <= disk_size
  /\ \A seg \in PartitionSegments : ~Clashes(start, size, seg)

CanPlace(start, size) ==
  /\ start >= 0 /\ start + size <= disk_size
  /\ \A seg \in PartitionSegments \union TableSegments : ~Clashes(start, size, seg)

\* Mutant: the end is computed from the size alone.
NewEntry_NoStart(name, start, size) ==
  [name |-> name,
   start |-> DivRoundUp(start, Sector),
   end |-> DivRoundUp(size, Sector) - 1]

NewEntry(name, start, size) ==
  [name |-> name,
   start |-> DivRoundUp(start, Sector),
   end |-> DivRoundUp(start + size, Sector) - 1]

AddPartition(name, start, size) ==
  LET first == StartOf(start)
      length == SizeOf(first, size)
  IN  /\ disk_size # 0
      /\ Len(entries) < NumEntries
      /\ CanPlace(first, length)
      /\ entries' = Append(entries, NewEntry(name, first, length))
      /\ UNCHANGED <<disk_size, gpt_offset, mbr, images, written>>

\* A partition that fits between two sector boundaries has no sector at all.
Overlap(p, q) ==
  /\ p.start <= p.end /\ q.start <= q.end
  /\ p.start <= q.end /\ q.start <= p.end

Fits(img_size, p) == img_size <= (p.end + 1 - p.start) * Sector

ImageOn(p, img_size) == [p EXCEPT !.end = p.start + DivRoundUp(img_size, Sector) - 1]

\* Mutant: the image is copied whatever the size of its partition.
WriteImage_Unchecked(p, img_size) ==
  LET image == ImageOn(p, img_size)
  IN  /\ images' = {i \in images : i.name # p.name /\ ~Overlap(i, image)} \union {image}
      /\ written' = written \union {p.name}

\* The image replaces whatever its sectors held, or is refused as too big.
WriteImage(p, img_size) ==
  LET image == ImageOn(p, img_size)
  IN  \/ /\ Fits(img_size, p)
         /\ images' = {i \in images : i.name # p.name /\ ~Overlap(i, image)} \union {image}
         /\ written' = written \union {p.name}
      \/ /\ ~Fits(img_size, p)
         /\ UNCHANGED <<images, written>>

FirstNamed(name) == SelectInSeq(entries, LAMBDA p : p.name = name)

\* Into the first partition of that name, or into a new one.
AddImage(name, img_size, start, size) ==
  LET first == StartOf(start)
      new == NewEntry(name, first, IF size = Unset THEN img_size ELSE size)
  IN  /\ disk_size # 0
      /\ \/ /\ FirstNamed(name) # 0
            /\ WriteImage(entries[FirstNamed(name)], img_size)
            /\ entries' = entries
         \/ /\ FirstNamed(name) = 0
            /\ Len(entries) < NumEntries
            /\ CanPlace(first, IF size = Unset THEN img_size ELSE size)
            /\ entries' = Append(entries, new)
            /\ WriteImage(new, img_size)
      /\ UNCHANGED <<disk_size, gpt_offset, mbr>>

HybridEntry(p, zone_end) ==
  [name |-> p.name, start |-> p.start, end |-> p.end, zone_end |-> zone_end]

\* Mutant: the search does not stop at the partition it looks for.
SetAsMbrPartition_NoBreak(name) ==
  /\ ~no_mbr
  /\ entries # <<>>
  /\ mbr' = HybridEntry(Last(entries),
                        IF FirstNamed(name) = 0
                        THEN (disk_size \div Sector) - 1
                        ELSE entries[FirstNamed(name)].start - 1)
  /\ UNCHANGED <<disk_size, gpt_offset, entries, images, written>>

\* The search stops at the first partition of that name.  When there is none
\* the loop ends with the variables of the last one, and that one is used; only
\* an empty table is refused.
SetAsMbrPartition(name) ==
  /\ ~no_mbr
  /\ entries # <<>>
  /\ mbr' = IF FirstNamed(name) = 0
            THEN HybridEntry(Last(entries), (disk_size \div Sector) - 1)
            ELSE HybridEntry(entries[FirstNamed(name)],
                             entries[FirstNamed(name)].start - 1)
  /\ UNCHANGED <<disk_size, gpt_offset, entries, images, written>>

PartedNext ==
  \/ \E size \in DiskSizes, offset \in GptOffsets : CreateEmpty(size, offset)
  \/ \E name \in Names, start \in Starts \union {Unset} :
       \/ \E size \in Sizes \union {Unset} : AddPartition(name, start, size)
       \/ \E img_size \in ImageSizes, size \in Sizes \union {Unset} :
            AddImage(name, img_size, start, size)
  \/ \E name \in Names : SetAsMbrPartition(name)

PartedSpec == PartedInit /\ [][PartedNext]_partedVars

-----------------------------------------------------------------------------
\* A partition never ends before it begins, unless it was asked for behind the
\* end of the disk: the default size is negative there, and the check for a
\* partition "out of bounds" looks at its end alone.
BackwardsOnlyBehindDisk ==
  \A i \in DOMAIN entries :
    entries[i].end + 1 < entries[i].start => entries[i].start * Sector >= disk_size

Pairs == {ij \in (DOMAIN entries) \X (DOMAIN entries) : ij[1] # ij[2]}

\* Whatever is asked for, two partitions share at most one sector: the one that
\* is the last of the first and the first of the second.  "Check if the new
\* partition overlaps with any existing partition", says the code, but its check
\* takes the start of a partition's last sector for its end.
OverlapOnlyAtLastSector ==
  \A ij \in Pairs :
    LET p == entries[ij[1]]  q == entries[ij[2]]
    IN  Overlap(p, q) => p.end = q.start \/ q.end = p.start

\* No partition reaches into the MBR, the GPT or its backup by a whole sector,
\* however its start and size are rounded.  So on a disk of whole sectors none
\* reaches into them at all; on another the backup begins inside a sector.
ClearOfTables ==
  \A i \in DOMAIN entries, seg \in TableSegments :
    \/ (entries[i].end + 1) * Sector < seg[1] + Sector
    \/ entries[i].start * Sector >= seg[2]

Disjoint == \A ij \in Pairs : ~Overlap(entries[ij[1]], entries[ij[2]])

\* As long as the partitions are disjoint, what was written to one partition is
\* still there after any later commands, and lies inside that partition.
ImagesIntact ==
  Disjoint =>
    \A name \in written :
      \E image \in images, i \in DOMAIN entries :
        /\ image.name = name /\ entries[i].name = name
        /\ entries[i].start = image.start /\ image.end <= entries[i].end

\* The MBR's hybrid entry always is a partition of the GPT, and the protective
\* entry then ends where it begins, unless the name was not in the table.
HybridIsPartition ==
  mbr.name # NoName =>
    /\ \E i \in DOMAIN entries : /\ entries[i].name = mbr.name
                                 /\ entries[i].start = mbr.start
                                 /\ entries[i].end = mbr.end
    /\ mbr.zone_end \in {mbr.start - 1, (disk_size \div Sector) - 1}
=============================================================================
