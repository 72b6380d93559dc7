----------------------------- MODULE MCGenSdImg -----------------------------
(***************************************************************************)
(* TLC's constants for gensdimg.sh: the four platforms and a mistyped one,  *)
(* card and deploy images, and sizes of super.img around the limits of the  *)
(* card's rounding.                                                         *)
(***************************************************************************)
EXTENDS GenSdImg

MCPlatforms == KnownPlatforms \union {"amlogic-g12"}
MCTypes == {"SD", "DEPLOY-SD", "DEPLOY-SD-FOR-EMMC"}
MCSuperSizes == {8, 512 * M - 1, 512 * M, 513 * M - 1, 513 * M, 1537 * M - 1, 4096 * M}
MCStarts == {BlStart(p) : p \in KnownPlatforms}
MCImageSizes == MCSuperSizes \union PartitionSizes \union {size + 1 : size \in PartitionSizes}
                  \union {BootloaderSize(p) : p \in KnownPlatforms}
MCDiskSizes == {256 * M} \union {n * G : n \in 1 .. 8}
=============================================================================
