\* Every platform's image, with and without an image too big for its partition.
SPECIFICATION SdSpec
CONSTANTS
  NoName = NoName
  Unset = Unset
  Sector = 1
  TableSectors = 33
  NumEntries = 128
  GptOffsets = {1, 4096}
  no_mbr = FALSE
  Names <- PartitionNames
  DiskSizes <- MCDiskSizes
  Starts <- MCStarts
  Sizes <- PartitionSizes
  ImageSizes <- MCImageSizes
  Platforms <- MCPlatforms
  Types <- MCTypes
  SuperSizes <- MCSuperSizes
INVARIANTS CardSuffices DoneMeansComplete EraseBlocksApart
\* The script ends.
CHECK_DEADLOCK FALSE
