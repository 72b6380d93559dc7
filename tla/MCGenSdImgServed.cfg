\* The images of every platform are made as the script's header says.
SPECIFICATION SdSpec
CONSTANTS
  NoName = NoName
  Unset = Unset
  Sector = 1
  TableSectors = 33
  NumEntries = 128
  GptOffsets = {1, 4096}
  no_mbr = FALSE
  Names <- PartitionNames
  DiskSizes <- MCDiskSizes
  Starts <- MCStarts
  Sizes <- PartitionSizes
  ImageSizes <- MCImageSizes
  Platforms <- MCPlatforms
  Types <- MCTypes
  SuperSizes <- MCSuperSizes
INVARIANT EveryPlatformServed
\* The script ends.
CHECK_DEADLOCK FALSE
