\* Every sequence of commands on a small disk, up to three partitions.
SPECIFICATION PartedSpec
CONSTANTS
  boot = boot
  super = super
  NoName = NoName
  Unset = Unset
  Sector = 2
  TableSectors = 2
  NumEntries = 3
  GptOffsets = {2, 12}
  no_mbr = FALSE
  Names <- MCNames
  DiskSizes = {30, 31}
  Starts <- MCStarts
  Sizes <- MCSizes
  ImageSizes <- MCImageSizes
INVARIANTS BackwardsOnlyBehindDisk OverlapOnlyAtLastSector ClearOfTables ImagesIntact HybridIsPartition
