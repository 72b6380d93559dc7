-------------------------- MODULE BootScript_proofs --------------------------
(***************************************************************************)
(* The boot script's safety properties, for any slots, tries and number of  *)
(* power losses.  The invariant follows the environment and the message     *)
(* through the script's steps: what has been read is still in misc, a slot  *)
(* once selected keeps a try until Count takes it.                          *)
(***************************************************************************)
EXTENDS BootScript, TLAPS

\* A slot is only selected after ab_select, keeps the try it was selected for,
\* and no slot is selected where a failed ab_select led to fastboot.
SelectedInv ==
  /\ pc \in {"rename", "expand", "ab_select"} => slot_name = NoSlot
  /\ pc = "fastboot" /\ caller \in {"bcb", "start"} => slot_name = NoSlot
  /\ slot_name # NoSlot /\ (\/ pc \in {"bcb", "test", "count"}
                            \/ pc = "fastboot" /\ caller = "test")
       => slot_name \in Bootable

\* The attempt that is about to start has been paid for.
PaidInv ==
  /\ StartsArePaid
  /\ pc = "start" /\ ~androidrecovery /\ slot_name # NoSlot /\ ~successful[slot_name]
       => starts[slot_name] + tries[slot_name] < MaxTries

\* The request the script acts on stands in misc.
RequestInv ==
  /\ androidrecovery => /\ pc \in {"count", "start", "kernel"}
                        /\ command \in {"boot-fastboot", "boot-recovery"}
  /\ pc = "test" => bcb \in {"none", "boot-fastboot", "boot-recovery"}
  /\ pc = "test" /\ bcb # "none" => command = bcb
  /\ pc = "fastboot" /\ caller = "test" => bcb = "none"

\* The copy of the message the script decides on is the one in misc, and a normal
\* boot with a slot goes on only when that one is empty.
CopyInv ==
  /\ ~has_misc => command = "none"
  /\ pc = "test" => command = bcb
  /\ pc = "fastboot" /\ caller = "test" => command = "none"
  /\ pc = "count" /\ ~androidrecovery => command = "none"
  /\ pc \in {"start", "kernel"} /\ ~androidrecovery /\ slot_name # NoSlot => command = "none"

\* What the kernel was started from.
KernelInv ==
  pc = "kernel" =>
    /\ slot_name \in Slots
    /\ image[slot_name] # "none"
    /\ androidrecovery \/ image[slot_name] \in {"crashes", "good"}

\* The table's partitions.
TableInv ==
  /\ userdata = "none" <=> ~has_misc
  /\ ~has_misc => \A s \in Slots : image[s] = "none"
  /\ userdata = "placeholder" => pc = "rename"
  /\ pc = "expand" => userdata = "renamed"
  /\ userdata = "renamed" => pc = "expand" \/ losses > 0

BootInv ==
  BootTypeOK /\ SelectedInv /\ PaidInv /\ RequestInv /\ CopyInv /\ KernelInv /\ TableInv

-----------------------------------------------------------------------------
\* The invariant holds initially and is kept by every step.
LEMMA BootInvInit == BootInit => BootInv
<1> SUFFICES ASSUME BootInit PROVE BootInv
  OBVIOUS
<1>1. image \in [Slots -> Images]
  <2>1. CASE \E s \in Slots, i \in Images :
               image = [t \in Slots |-> IF t = s THEN i ELSE "none"]
    <3>1. "none" \in Images
      BY DEF Images
    <3> QED
      BY <2>1, <3>1
  <2>2. CASE image = [s \in Slots |-> "none"]
    BY <2>2 DEF Images
  <2> QED
    BY <2>1, <2>2, Zenon DEF BootInit
<1>2. BootTypeOK
  <2>1. /\ tries \in [Slots -> 0 .. MaxTries]
        /\ losses \in 0 .. MaxLosses
        /\ starts \in [Slots -> Nat]
    <3>1. MaxTries \in 0 .. MaxTries /\ 0 \in 0 .. MaxLosses
      BY BootAssumption
    <3> QED
      BY <3>1 DEF BootInit
  <2>2. has_misc \in BOOLEAN /\ successful \in [Slots -> BOOLEAN]
    BY DEF BootInit
  <2> QED
    BY <1>1, <2>1, <2>2, Zenon DEF BootInit, BootTypeOK, Commands
<1>3. SelectedInv /\ RequestInv /\ CopyInv /\ KernelInv /\ TableInv
  BY DEF BootInit, SelectedInv, RequestInv, CopyInv, KernelInv, TableInv
<1>4. PaidInv
  BY BootAssumption DEF BootInit, PaidInv, StartsArePaid
<1> QED
  BY <1>2, <1>3, <1>4 DEF BootInv

\* BootTypeOK after every step.
LEMMA BootTypeOKStep == BootInv /\ [BootNext]_bootVars => BootTypeOK'
<1> SUFFICES ASSUME BootInv, [BootNext]_bootVars PROVE BootTypeOK'
  OBVIOUS
<1> USE BootAssumption DEF BootInv
<1>1. CASE Rename
  BY <1>1 DEF Rename, BootTypeOK, Commands, Images, card, board, ab, env
<1>2. CASE Expand
  BY <1>2 DEF Expand, BootTypeOK, Commands, Images, card, board, ab, env
<1>3. CASE AbSelect
  BY <1>3 DEF AbSelect, EnterFastboot, Bootable, BootTypeOK, Commands, Images, card, board, ab, env
<1>4. CASE HandleBcb
  BY <1>4 DEF HandleBcb, EnterFastboot, BootTypeOK, Commands, Images, card, board, ab, env
<1>5. CASE TestRecovery
  BY <1>5 DEF TestRecovery, BootTypeOK, Commands, Images, card, board, ab, env
<1>6. CASE Count
  BY <1>6 DEF Count, EnterFastboot, Bootable, Spend, BootTypeOK, Commands, Images, card, board, ab, env
<1>7. CASE Start
  <2>1. starts' \in [Slots -> Nat]
    BY <1>7 DEF Start, Starts, BootTypeOK
  <2> QED
    BY <1>7, <2>1 DEF Start, Reset, BootTypeOK, Commands, Images, card, board, ab, env
<1>8. CASE FastbootFails
  BY <1>8 DEF FastbootFails, BootTypeOK, Commands, Images, card, board, ab, env
<1>9. CASE HostContinue
  BY <1>9 DEF HostContinue, BootTypeOK, Commands, Images, card, board, ab, env
<1>10. CASE HostFormat
  BY <1>10 DEF HostFormat, BootTypeOK, Commands, Images, card, board, ab, env
<1>11. CASE HostFlash
  BY <1>11 DEF HostFlash, BootTypeOK, Commands, Images, card, board, ab, env
<1>12. CASE HostEraseMisc
  BY <1>12 DEF HostEraseMisc, BootTypeOK, Commands, Images, card, board, ab, env
<1>13. CASE HostReboot
  BY <1>13 DEF HostReboot, Reset, BootTypeOK, Commands, Images, card, board, ab, env
<1>14. CASE BootCompletes
  BY <1>14 DEF BootCompletes, BootTypeOK, Commands, Images, card, board, ab, env
<1>15. CASE Reboot
  BY <1>15 DEF Reboot, Reset, BootTypeOK, Commands, Images, card, board, ab, env
<1>16. CASE Crash
  BY <1>16 DEF Crash, Reset, BootTypeOK, Commands, Images, card, board, ab, env
<1>17. CASE PowerLoss
  <2>1. losses' \in 0 .. MaxLosses
    BY <1>17 DEF PowerLoss, BootTypeOK
  <2> QED
    BY <1>17, <2>1 DEF PowerLoss, Reset, BootTypeOK, Commands, Images, card, board, ab, env
<1>18. CASE UNCHANGED bootVars
  BY <1>18 DEF BootTypeOK, Commands, Images, bootVars, card, board, ab, env
<1> QED
  BY <1>1, <1>2, <1>3, <1>4, <1>5, <1>6, <1>7, <1>8, <1>9, <1>10, <1>11, <1>12, <1>13, <1>14, <1>15, <1>16, <1>17, <1>18 DEF BootNext, Script, Host

\* SelectedInv after every step.
LEMMA SelectedInvStep == BootInv /\ [BootNext]_bootVars => SelectedInv'
<1> SUFFICES ASSUME BootInv, [BootNext]_bootVars PROVE SelectedInv'
  OBVIOUS
<1> USE BootAssumption DEF BootInv
<1>1. CASE Rename
  BY <1>1 DEF Rename, BootTypeOK, SelectedInv, Bootable, card, board, ab, env
<1>2. CASE Expand
  BY <1>2 DEF Expand, BootTypeOK, SelectedInv, Bootable, card, board, ab, env
<1>3. CASE AbSelect
  BY <1>3 DEF AbSelect, EnterFastboot, Bootable, BootTypeOK, SelectedInv, card, board, ab, env
<1>4. CASE HandleBcb
  BY <1>4 DEF HandleBcb, EnterFastboot, BootTypeOK, SelectedInv, Bootable, card, board, ab, env
<1>5. CASE TestRecovery
  BY <1>5 DEF TestRecovery, BootTypeOK, SelectedInv, Bootable, card, board, ab, env
<1>6. CASE Count
  BY <1>6 DEF Count, EnterFastboot, Bootable, Spend, BootTypeOK, SelectedInv, card, board, ab, env
<1>7. CASE Start
  BY <1>7 DEF Start, Starts, Reset, BootTypeOK, SelectedInv, Bootable, card, board, ab, env
<1>8. CASE FastbootFails
  BY <1>8 DEF FastbootFails, BootTypeOK, SelectedInv, Bootable, card, board, ab, env
<1>9. CASE HostContinue
  BY <1>9 DEF HostContinue, BootTypeOK, SelectedInv, Bootable, card, board, ab, env
<1>10. CASE HostFormat
  BY <1>10 DEF HostFormat, BootTypeOK, SelectedInv, Bootable, card, board, ab, env
<1>11. CASE HostFlash
  BY <1>11 DEF HostFlash, BootTypeOK, SelectedInv, Bootable, card, board, ab, env
<1>12. CASE HostEraseMisc
  BY <1>12 DEF HostEraseMisc, BootTypeOK, SelectedInv, Bootable, card, board, ab, env
<1>13. CASE HostReboot
  BY <1>13 DEF HostReboot, Reset, BootTypeOK, SelectedInv, Bootable, card, board, ab, env
<1>14. CASE BootCompletes
  BY <1>14 DEF BootCompletes, BootTypeOK, SelectedInv, Bootable, card, board, ab, env
<1>15. CASE Reboot
  BY <1>15 DEF Reboot, Reset, BootTypeOK, SelectedInv, Bootable, card, board, ab, env
<1>16. CASE Crash
  BY <1>16 DEF Crash, Reset, BootTypeOK, SelectedInv, Bootable, card, board, ab, env
<1>17. CASE PowerLoss
  BY <1>17 DEF PowerLoss, Reset, BootTypeOK, SelectedInv, Bootable, card, board, ab, env
<1>18. CASE UNCHANGED bootVars
  BY <1>18 DEF BootTypeOK, SelectedInv, Bootable, bootVars, card, board, ab, env
<1> QED
  BY <1>1, <1>2, <1>3, <1>4, <1>5, <1>6, <1>7, <1>8, <1>9, <1>10, <1>11, <1>12, <1>13, <1>14, <1>15, <1>16, <1>17, <1>18 DEF BootNext, Script, Host

\* PaidInv after every step.
LEMMA PaidInvStep == BootInv /\ [BootNext]_bootVars => PaidInv'
<1> SUFFICES ASSUME BootInv, [BootNext]_bootVars PROVE PaidInv'
  OBVIOUS
<1> USE BootAssumption DEF BootInv
<1>1. CASE Rename
  BY <1>1 DEF Rename, BootTypeOK, PaidInv, StartsArePaid, SelectedInv, Bootable, card, board, ab, env
<1>2. CASE Expand
  BY <1>2 DEF Expand, BootTypeOK, PaidInv, StartsArePaid, SelectedInv, Bootable, card, board, ab, env
<1>3. CASE AbSelect
  BY <1>3 DEF AbSelect, EnterFastboot, Bootable, BootTypeOK, PaidInv, StartsArePaid, SelectedInv, card, board, ab, env
<1>4. CASE HandleBcb
  BY <1>4 DEF HandleBcb, EnterFastboot, BootTypeOK, PaidInv, StartsArePaid, SelectedInv, Bootable, card, board, ab, env
<1>5. CASE TestRecovery
  BY <1>5 DEF TestRecovery, BootTypeOK, PaidInv, StartsArePaid, SelectedInv, Bootable, card, board, ab, env
<1>6. CASE Count
  BY <1>6 DEF Count, EnterFastboot, Bootable, Spend, BootTypeOK, PaidInv, StartsArePaid, SelectedInv, card, board, ab, env
<1>7. CASE Start
  BY <1>7 DEF Start, Starts, Reset, BootTypeOK, PaidInv, StartsArePaid, SelectedInv, Bootable, card, board, ab, env
<1>8. CASE FastbootFails
  BY <1>8 DEF FastbootFails, BootTypeOK, PaidInv, StartsArePaid, SelectedInv, Bootable, card, board, ab, env
<1>9. CASE HostContinue
  BY <1>9 DEF HostContinue, BootTypeOK, PaidInv, StartsArePaid, SelectedInv, Bootable, card, board, ab, env
<1>10. CASE HostFormat
  BY <1>10 DEF HostFormat, BootTypeOK, PaidInv, StartsArePaid, SelectedInv, Bootable, card, board, ab, env
<1>11. CASE HostFlash
  BY <1>11 DEF HostFlash, BootTypeOK, PaidInv, StartsArePaid, SelectedInv, Bootable, card, board, ab, env
<1>12. CASE HostEraseMisc
  BY <1>12 DEF HostEraseMisc, BootTypeOK, PaidInv, StartsArePaid, SelectedInv, Bootable, card, board, ab, env
<1>13. CASE HostReboot
  BY <1>13 DEF HostReboot, Reset, BootTypeOK, PaidInv, StartsArePaid, SelectedInv, Bootable, card, board, ab, env
<1>14. CASE BootCompletes
  BY <1>14 DEF BootCompletes, BootTypeOK, PaidInv, StartsArePaid, SelectedInv, Bootable, card, board, ab, env
<1>15. CASE Reboot
  BY <1>15 DEF Reboot, Reset, BootTypeOK, PaidInv, StartsArePaid, SelectedInv, Bootable, card, board, ab, env
<1>16. CASE Crash
  BY <1>16 DEF Crash, Reset, BootTypeOK, PaidInv, StartsArePaid, SelectedInv, Bootable, card, board, ab, env
<1>17. CASE PowerLoss
  BY <1>17 DEF PowerLoss, Reset, BootTypeOK, PaidInv, StartsArePaid, SelectedInv, Bootable, card, board, ab, env
<1>18. CASE UNCHANGED bootVars
  BY <1>18 DEF BootTypeOK, PaidInv, StartsArePaid, SelectedInv, Bootable, bootVars, card, board, ab, env
<1> QED
  BY <1>1, <1>2, <1>3, <1>4, <1>5, <1>6, <1>7, <1>8, <1>9, <1>10, <1>11, <1>12, <1>13, <1>14, <1>15, <1>16, <1>17, <1>18 DEF BootNext, Script, Host

\* RequestInv after every step.
LEMMA RequestInvStep == BootInv /\ [BootNext]_bootVars => RequestInv'
<1> SUFFICES ASSUME BootInv, [BootNext]_bootVars PROVE RequestInv'
  OBVIOUS
<1> USE BootAssumption DEF BootInv
<1>1. CASE Rename
  BY <1>1 DEF Rename, BootTypeOK, RequestInv, Commands, card, board, ab, env
<1>2. CASE Expand
  BY <1>2 DEF Expand, BootTypeOK, RequestInv, Commands, card, board, ab, env
<1>3. CASE AbSelect
  BY <1>3 DEF AbSelect, EnterFastboot, Bootable, BootTypeOK, RequestInv, Commands, card, board, ab, env
<1>4. CASE HandleBcb
  BY <1>4 DEF HandleBcb, EnterFastboot, BootTypeOK, RequestInv, Commands, card, board, ab, env
<1>5. CASE TestRecovery
  BY <1>5 DEF TestRecovery, BootTypeOK, RequestInv, Commands, card, board, ab, env
<1>6. CASE Count
  BY <1>6 DEF Count, EnterFastboot, Bootable, Spend, BootTypeOK, RequestInv, Commands, card, board, ab, env
<1>7. CASE Start
  BY <1>7 DEF Start, Starts, Reset, BootTypeOK, RequestInv, Commands, card, board, ab, env
<1>8. CASE FastbootFails
  BY <1>8 DEF FastbootFails, BootTypeOK, RequestInv, Commands, card, board, ab, env
<1>9. CASE HostContinue
  BY <1>9 DEF HostContinue, BootTypeOK, RequestInv, Commands, card, board, ab, env
<1>10. CASE HostFormat
  BY <1>10 DEF HostFormat, BootTypeOK, RequestInv, Commands, card, board, ab, env
<1>11. CASE HostFlash
  BY <1>11 DEF HostFlash, BootTypeOK, RequestInv, Commands, card, board, ab, env
<1>12. CASE HostEraseMisc
  BY <1>12 DEF HostEraseMisc, BootTypeOK, RequestInv, Commands, card, board, ab, env
<1>13. CASE HostReboot
  BY <1>13 DEF HostReboot, Reset, BootTypeOK, RequestInv, Commands, card, board, ab, env
<1>14. CASE BootCompletes
  BY <1>14 DEF BootCompletes, BootTypeOK, RequestInv, Commands, card, board, ab, env
<1>15. CASE Reboot
  BY <1>15 DEF Reboot, Reset, BootTypeOK, RequestInv, Commands, card, board, ab, env
<1>16. CASE Crash
  BY <1>16 DEF Crash, Reset, BootTypeOK, RequestInv, Commands, card, board, ab, env
<1>17. CASE PowerLoss
  BY <1>17 DEF PowerLoss, Reset, BootTypeOK, RequestInv, Commands, card, board, ab, env
<1>18. CASE UNCHANGED bootVars
  BY <1>18 DEF BootTypeOK, RequestInv, Commands, bootVars, card, board, ab, env
<1> QED
  BY <1>1, <1>2, <1>3, <1>4, <1>5, <1>6, <1>7, <1>8, <1>9, <1>10, <1>11, <1>12, <1>13, <1>14, <1>15, <1>16, <1>17, <1>18 DEF BootNext, Script, Host

\* CopyInv after every step.
LEMMA CopyInvStep == BootInv /\ [BootNext]_bootVars => CopyInv'
<1> SUFFICES ASSUME BootInv, [BootNext]_bootVars PROVE CopyInv'
  OBVIOUS
<1> USE BootAssumption DEF BootInv
<1>1. CASE Rename
  BY <1>1 DEF Rename, BootTypeOK, CopyInv, SelectedInv, RequestInv, KernelInv, TableInv, Commands, card, board, ab, env
<1>2. CASE Expand
  BY <1>2 DEF Expand, BootTypeOK, CopyInv, SelectedInv, RequestInv, KernelInv, TableInv, Commands, card, board, ab, env
<1>3. CASE AbSelect
  BY <1>3 DEF AbSelect, EnterFastboot, Bootable, BootTypeOK, CopyInv, SelectedInv, RequestInv, KernelInv, TableInv, Commands, card, board, ab, env
<1>4. CASE HandleBcb
  BY <1>4 DEF HandleBcb, EnterFastboot, BootTypeOK, CopyInv, SelectedInv, RequestInv, KernelInv, TableInv, Commands, card, board, ab, env
<1>5. CASE TestRecovery
  BY <1>5 DEF TestRecovery, BootTypeOK, CopyInv, SelectedInv, RequestInv, KernelInv, TableInv, Commands, card, board, ab, env
<1>6. CASE Count
  BY <1>6 DEF Count, EnterFastboot, Bootable, Spend, BootTypeOK, CopyInv, SelectedInv, RequestInv, KernelInv, TableInv, Commands, card, board, ab, env
<1>7. CASE Start
  BY <1>7 DEF Start, Starts, Reset, BootTypeOK, CopyInv, SelectedInv, RequestInv, KernelInv, TableInv, Commands, card, board, ab, env
<1>8. CASE FastbootFails
  BY <1>8 DEF FastbootFails, BootTypeOK, CopyInv, SelectedInv, RequestInv, KernelInv, TableInv, Commands, card, board, ab, env
<1>9. CASE HostContinue
  BY <1>9 DEF HostContinue, BootTypeOK, CopyInv, SelectedInv, RequestInv, KernelInv, TableInv, Commands, card, board, ab, env
<1>10. CASE HostFormat
  BY <1>10 DEF HostFormat, BootTypeOK, CopyInv, SelectedInv, RequestInv, KernelInv, TableInv, Commands, card, board, ab, env
<1>11. CASE HostFlash
  BY <1>11 DEF HostFlash, BootTypeOK, CopyInv, SelectedInv, RequestInv, KernelInv, TableInv, Commands, card, board, ab, env
<1>12. CASE HostEraseMisc
  BY <1>12 DEF HostEraseMisc, BootTypeOK, CopyInv, SelectedInv, RequestInv, KernelInv, TableInv, Commands, card, board, ab, env
<1>13. CASE HostReboot
  BY <1>13 DEF HostReboot, Reset, BootTypeOK, CopyInv, SelectedInv, RequestInv, KernelInv, TableInv, Commands, card, board, ab, env
<1>14. CASE BootCompletes
  BY <1>14 DEF BootCompletes, BootTypeOK, CopyInv, SelectedInv, RequestInv, KernelInv, TableInv, Commands, card, board, ab, env
<1>15. CASE Reboot
  BY <1>15 DEF Reboot, Reset, BootTypeOK, CopyInv, SelectedInv, RequestInv, KernelInv, TableInv, Commands, card, board, ab, env
<1>16. CASE Crash
  BY <1>16 DEF Crash, Reset, BootTypeOK, CopyInv, SelectedInv, RequestInv, KernelInv, TableInv, Commands, card, board, ab, env
<1>17. CASE PowerLoss
  BY <1>17 DEF PowerLoss, Reset, BootTypeOK, CopyInv, SelectedInv, RequestInv, KernelInv, TableInv, Commands, card, board, ab, env
<1>18. CASE UNCHANGED bootVars
  BY <1>18 DEF BootTypeOK, CopyInv, SelectedInv, RequestInv, KernelInv, TableInv, Commands, bootVars, card, board, ab, env
<1> QED
  BY <1>1, <1>2, <1>3, <1>4, <1>5, <1>6, <1>7, <1>8, <1>9, <1>10, <1>11, <1>12, <1>13, <1>14, <1>15, <1>16, <1>17, <1>18 DEF BootNext, Script, Host

\* KernelInv after every step.
LEMMA KernelInvStep == BootInv /\ [BootNext]_bootVars => KernelInv'
<1> SUFFICES ASSUME BootInv, [BootNext]_bootVars PROVE KernelInv'
  OBVIOUS
<1> USE BootAssumption DEF BootInv
<1>1. CASE Rename
  BY <1>1 DEF Rename, BootTypeOK, KernelInv, Images, RequestInv, card, board, ab, env
<1>2. CASE Expand
  BY <1>2 DEF Expand, BootTypeOK, KernelInv, Images, RequestInv, card, board, ab, env
<1>3. CASE AbSelect
  BY <1>3 DEF AbSelect, EnterFastboot, Bootable, BootTypeOK, KernelInv, Images, RequestInv, card, board, ab, env
<1>4. CASE HandleBcb
  BY <1>4 DEF HandleBcb, EnterFastboot, BootTypeOK, KernelInv, Images, RequestInv, card, board, ab, env
<1>5. CASE TestRecovery
  BY <1>5 DEF TestRecovery, BootTypeOK, KernelInv, Images, RequestInv, card, board, ab, env
<1>6. CASE Count
  BY <1>6 DEF Count, EnterFastboot, Bootable, Spend, BootTypeOK, KernelInv, Images, RequestInv, card, board, ab, env
<1>7. CASE Start
  BY <1>7 DEF Start, Starts, Reset, BootTypeOK, KernelInv, Images, RequestInv, card, board, ab, env
<1>8. CASE FastbootFails
  BY <1>8 DEF FastbootFails, BootTypeOK, KernelInv, Images, RequestInv, card, board, ab, env
<1>9. CASE HostContinue
  BY <1>9 DEF HostContinue, BootTypeOK, KernelInv, Images, RequestInv, card, board, ab, env
<1>10. CASE HostFormat
  BY <1>10 DEF HostFormat, BootTypeOK, KernelInv, Images, RequestInv, card, board, ab, env
<1>11. CASE HostFlash
  BY <1>11 DEF HostFlash, BootTypeOK, KernelInv, Images, RequestInv, card, board, ab, env
<1>12. CASE HostEraseMisc
  BY <1>12 DEF HostEraseMisc, BootTypeOK, KernelInv, Images, RequestInv, card, board, ab, env
<1>13. CASE HostReboot
  BY <1>13 DEF HostReboot, Reset, BootTypeOK, KernelInv, Images, RequestInv, card, board, ab, env
<1>14. CASE BootCompletes
  BY <1>14 DEF BootCompletes, BootTypeOK, KernelInv, Images, RequestInv, card, board, ab, env
<1>15. CASE Reboot
  BY <1>15 DEF Reboot, Reset, BootTypeOK, KernelInv, Images, RequestInv, card, board, ab, env
<1>16. CASE Crash
  BY <1>16 DEF Crash, Reset, BootTypeOK, KernelInv, Images, RequestInv, card, board, ab, env
<1>17. CASE PowerLoss
  BY <1>17 DEF PowerLoss, Reset, BootTypeOK, KernelInv, Images, RequestInv, card, board, ab, env
<1>18. CASE UNCHANGED bootVars
  BY <1>18 DEF BootTypeOK, KernelInv, Images, RequestInv, bootVars, card, board, ab, env
<1> QED
  BY <1>1, <1>2, <1>3, <1>4, <1>5, <1>6, <1>7, <1>8, <1>9, <1>10, <1>11, <1>12, <1>13, <1>14, <1>15, <1>16, <1>17, <1>18 DEF BootNext, Script, Host

\* TableInv after every step.
LEMMA TableInvStep == BootInv /\ [BootNext]_bootVars => TableInv'
<1> SUFFICES ASSUME BootInv, [BootNext]_bootVars PROVE TableInv'
  OBVIOUS
<1> USE BootAssumption DEF BootInv
<1>1. CASE Rename
  BY <1>1 DEF Rename, BootTypeOK, TableInv, KernelInv, card, board, ab, env
<1>2. CASE Expand
  BY <1>2 DEF Expand, BootTypeOK, TableInv, KernelInv, card, board, ab, env
<1>3. CASE AbSelect
  BY <1>3 DEF AbSelect, EnterFastboot, Bootable, BootTypeOK, TableInv, KernelInv, card, board, ab, env
<1>4. CASE HandleBcb
  BY <1>4 DEF HandleBcb, EnterFastboot, BootTypeOK, TableInv, KernelInv, card, board, ab, env
<1>5. CASE TestRecovery
  BY <1>5 DEF TestRecovery, BootTypeOK, TableInv, KernelInv, card, board, ab, env
<1>6. CASE Count
  BY <1>6 DEF Count, EnterFastboot, Bootable, Spend, BootTypeOK, TableInv, KernelInv, card, board, ab, env
<1>7. CASE Start
  BY <1>7 DEF Start, Starts, Reset, BootTypeOK, TableInv, KernelInv, card, board, ab, env
<1>8. CASE FastbootFails
  BY <1>8 DEF FastbootFails, BootTypeOK, TableInv, KernelInv, card, board, ab, env
<1>9. CASE HostContinue
  BY <1>9 DEF HostContinue, BootTypeOK, TableInv, KernelInv, card, board, ab, env
<1>10. CASE HostFormat
  BY <1>10 DEF HostFormat, BootTypeOK, TableInv, KernelInv, card, board, ab, env
<1>11. CASE HostFlash
  BY <1>11 DEF HostFlash, BootTypeOK, TableInv, KernelInv, card, board, ab, env
<1>12. CASE HostEraseMisc
  BY <1>12 DEF HostEraseMisc, BootTypeOK, TableInv, KernelInv, card, board, ab, env
<1>13. CASE HostReboot
  BY <1>13 DEF HostReboot, Reset, BootTypeOK, TableInv, KernelInv, card, board, ab, env
<1>14. CASE BootCompletes
  BY <1>14 DEF BootCompletes, BootTypeOK, TableInv, KernelInv, card, board, ab, env
<1>15. CASE Reboot
  BY <1>15 DEF Reboot, Reset, BootTypeOK, TableInv, KernelInv, card, board, ab, env
<1>16. CASE Crash
  BY <1>16 DEF Crash, Reset, BootTypeOK, TableInv, KernelInv, card, board, ab, env
<1>17. CASE PowerLoss
  BY <1>17 DEF PowerLoss, Reset, BootTypeOK, TableInv, KernelInv, card, board, ab, env
<1>18. CASE UNCHANGED bootVars
  BY <1>18 DEF BootTypeOK, TableInv, KernelInv, bootVars, card, board, ab, env
<1> QED
  BY <1>1, <1>2, <1>3, <1>4, <1>5, <1>6, <1>7, <1>8, <1>9, <1>10, <1>11, <1>12, <1>13, <1>14, <1>15, <1>16, <1>17, <1>18 DEF BootNext, Script, Host

\* The invariant holds throughout.
THEOREM BootInvHolds == BootSpec => []BootInv
<1>1. BootInv /\ [BootNext]_bootVars => BootInv'
  BY BootTypeOKStep, SelectedInvStep, PaidInvStep, RequestInvStep, CopyInvStep, KernelInvStep, TableInvStep
  DEF BootInv
<1> QED
  BY BootInvInit, <1>1, PTL DEF BootSpec

\* Every reachable state of card, environment and script is well typed.
THEOREM BootTypeCorrect == BootSpec => []BootTypeOK
<1>1. BootInv => BootTypeOK
  BY DEF BootInv
<1> QED
  BY BootInvHolds, <1>1, PTL

\* However resets, power losses, fastboot sessions and recovery alternate, a slot
\* that never came up is started at most MaxTries times.
THEOREM StartsArePaidHolds == BootSpec => []StartsArePaid
<1>1. BootInv => StartsArePaid
  BY DEF BootInv, PaidInv
<1> QED
  BY BootInvHolds, <1>1, PTL

\* Only recovery starts what AVB rejects, and only on a request still in misc.
THEOREM UnverifiedOnlyOnRequestHolds == BootSpec => []UnverifiedOnlyOnRequest
<1>1. BootInv => UnverifiedOnlyOnRequest
  BY DEF BootInv, RequestInv, KernelInv, UnverifiedOnlyOnRequest
<1> QED
  BY BootInvHolds, <1>1, PTL

\* Android is not started while a message stands in misc, whatever fastboot and
\* its fallback did between the loading of the message and the start.
THEOREM RequestGoesFirstHolds == BootSpec => []RequestGoesFirst
<1>1. BootInv => RequestGoesFirst
  BY BootAssumption DEF BootInv, CopyInv, KernelInv, RequestGoesFirst
<1> QED
  BY BootInvHolds, <1>1, PTL

\* Android finds userdata, and in its full size unless the power failed.
THEOREM UserdataReadyHolds == BootSpec => []UserdataReady
<1>1. BootInv => UserdataReady
  BY DEF BootInv, KernelInv, TableInv, UserdataReady
<1> QED
  BY BootInvHolds, <1>1, PTL

\* No step of the script, no reset and no loss of power loses a request for recovery
\* or fastbootd.  Android could, but it never runs while one stands.
THEOREM RequestStandsHolds == BootSpec => RequestStands
<1>1. BootInv /\ [BootNext]_bootVars =>
        [(command \in Recoveries /\ command' # command)
           => (\/ pc = "kernel" /\ androidrecovery
               \/ pc = "fastboot" /\ (fastboot_works \/ command' = "boot-fastboot"))]_bootVars
  <2> SUFFICES ASSUME BootInv, [BootNext]_bootVars,
                      command \in Recoveries, command' # command
               PROVE  \/ pc = "kernel" /\ androidrecovery
                      \/ pc = "fastboot" /\ (fastboot_works \/ command' = "boot-fastboot")
    OBVIOUS
  <2>1. command # "none" /\ command # "bootonce-bootloader"
    BY DEF Recoveries
  <2>2. CASE Rename \/ Expand \/ AbSelect \/ TestRecovery \/ Count \/ Start
             \/ HostContinue \/ HostFormat \/ HostFlash \/ BootCompletes
             \/ Crash \/ PowerLoss \/ UNCHANGED bootVars
    BY <2>2 DEF Rename, Expand, AbSelect, TestRecovery, Count, Start, HostContinue, HostFormat,
                HostFlash, BootCompletes, Crash, PowerLoss, bootVars, card
  <2>3. CASE HandleBcb
    BY <2>1, <2>3 DEF HandleBcb
  <2>4. CASE FastbootFails
    BY <2>4 DEF FastbootFails
  <2>5. CASE HostEraseMisc \/ HostReboot
    BY <2>5 DEF HostEraseMisc, HostReboot
  <2>6. CASE Reboot
    <3>1. pc = "kernel"
      BY <2>6 DEF Reboot
    <3>2. androidrecovery
      BY <2>1, <3>1, BootAssumption DEF BootInv, BootTypeOK, CopyInv, KernelInv
    <3> QED
      BY <3>1, <3>2
  <2> QED
    BY <2>2, <2>3, <2>4, <2>5, <2>6 DEF BootNext, Script, Host
<1> QED
  BY <1>1, BootInvHolds, PTL DEF BootSpec, RequestStands

-----------------------------------------------------------------------------
\* The script's steps as the policy sees them.  Most of the script is hidden: only
\* a step that pays, starts or opens something is one of the policy's.
LEMMA StepKeepsPolicy ==
  BootInv /\ BootInv' /\ [BootNext]_bootVars => [Policy!Next]_(Policy!vars)
<1> SUFFICES ASSUME BootInv, BootInv', [BootNext]_bootVars
             PROVE  Policy!Next \/ UNCHANGED Policy!vars
  OBVIOUS
<1> USE DEF Policy!vars, Policy!Next
<1>1. CASE Rename \/ Expand \/ TestRecovery \/ HostFlash \/ UNCHANGED bootVars
  <2>1. UNCHANGED <<Credit, successful, Request>>
    BY <1>1 DEF Rename, Expand, TestRecovery, HostFlash, bootVars, card, board, ab,
                Credit, Request
  <2>2. UNCHANGED <<Attempt, Running>>
    BY <1>1 DEF Rename, Expand, TestRecovery, HostFlash, bootVars, env, Attempt, Running
  <2> QED
    BY <2>1, <2>2
<1>2. CASE AbSelect
  <2>1. UNCHANGED <<Credit, successful, Request, Attempt>>
    BY <1>2 DEF AbSelect, EnterFastboot, card, board, ab, Credit, Request, Attempt
  <2>2. CASE Bootable = {}
    <3>1. \A s \in Slots : Credit[s] = 0
      BY <2>2 DEF Bootable, Credit, BootInv, BootTypeOK
    <3>2. Policy!Idle /\ Running' = "session"
      BY <1>2, <2>2 DEF AbSelect, EnterFastboot, Policy!Idle, Attempt, Running
    <3> QED
      BY <2>1, <3>1, <3>2 DEF Policy!OpenSession
  <2>3. CASE Bootable # {}
    <3>1. UNCHANGED Running
      BY <1>2, <2>3 DEF AbSelect, Running
    <3> QED
      BY <2>1, <3>1
  <2> QED
    BY <2>2, <2>3
<1>3. CASE HandleBcb
  <2>1. UNCHANGED <<Credit, successful, Attempt>>
    BY <1>3 DEF HandleBcb, EnterFastboot, board, ab, Credit, Attempt
  <2>2. CASE has_misc /\ command = "bootonce-bootloader"
    <3>1. Policy!Idle /\ Running' = "session"
      BY <1>3, <2>2 DEF HandleBcb, EnterFastboot, Policy!Idle, Attempt, Running
    <3>2. Request = "bootloader" /\ Request' = "none"
      BY <1>3, <2>2 DEF HandleBcb, Request
    <3> QED
      BY <2>1, <3>1, <3>2 DEF Policy!OpenSession
  <2>3. CASE ~(has_misc /\ command = "bootonce-bootloader")
    <3>1. UNCHANGED <<Request, Running>>
      BY <1>3, <2>3 DEF HandleBcb, Request, Running
    <3> QED
      BY <2>1, <3>1
  <2> QED
    BY <2>2, <2>3
<1>4. CASE Count
  <2>1. UNCHANGED <<successful, Request>>
    BY <1>4 DEF Count, Request
  <2>2. CASE ~androidrecovery /\ Bootable # {}
    <3>1. /\ slot_name' \in Bootable
          /\ tries' = Spend(slot_name')
          /\ pc = "count" /\ pc' = "start" /\ ~androidrecovery' /\ UNCHANGED has_misc
      BY <1>4, <2>2 DEF Count, board
    <3>2. slot_name' \in Slots /\ has_misc /\ tries[slot_name'] > 0
      BY <3>1 DEF Bootable
    <3>3. Policy!Idle /\ UNCHANGED Running /\ Attempt' = slot_name'
      BY <3>1 DEF Policy!Idle, Attempt, Running
    <3>4. Request = "none"
      BY <2>2, <3>1 DEF BootInv, CopyInv, Request
    <3>5. Credit[slot_name'] > 0
      BY <3>2 DEF Credit
    <3>6. Credit' = IF successful[slot_name'] THEN Credit
                    ELSE [Credit EXCEPT ![slot_name'] = @ - 1]
      <4>1. CASE successful[slot_name']
        BY <3>1, <4>1 DEF Spend, Credit
      <4>2. CASE ~successful[slot_name']
        <5>1. tries' = [tries EXCEPT ![slot_name'] = @ - 1]
          BY <3>1, <4>2 DEF Spend
        <5> QED
          BY <3>1, <3>2, <4>2, <5>1 DEF Credit, BootInv, BootTypeOK
      <4> QED
        BY <4>1, <4>2
    <3>7. Policy!Pay(slot_name')
      BY <2>1, <3>3, <3>4, <3>5, <3>6 DEF Policy!Pay
    <3> QED
      BY <3>2, <3>7
  <2>3. CASE ~androidrecovery /\ Bootable = {}
    <3>1. /\ pc = "count" /\ pc' = "fastboot"
          /\ UNCHANGED <<tries, has_misc, slot_name, androidrecovery>>
      BY <1>4, <2>3 DEF Count, EnterFastboot, board
    <3>2. \A s \in Slots : Credit[s] = 0
      BY <2>3 DEF Bootable, Credit, BootInv, BootTypeOK
    <3>3. Policy!Idle /\ Running' = "session"
      BY <3>1 DEF Policy!Idle, Attempt, Running
    <3>4. UNCHANGED <<Credit, Attempt>>
      BY <3>1 DEF Credit, Attempt
    <3> QED
      BY <2>1, <3>2, <3>3, <3>4 DEF Policy!OpenSession
  <2>4. CASE androidrecovery
    BY <1>4, <2>1, <2>4 DEF Count, board, Credit, Attempt, Running
  <2> QED
    BY <2>2, <2>3, <2>4
<1>5. CASE Start
  <2>1. UNCHANGED <<Credit, successful, Request>>
    BY <1>5 DEF Start, card, board, ab, Credit, Request
  <2>2. CASE Starts /\ androidrecovery
    <3>1. /\ pc = "start" /\ pc' = "kernel"
          /\ UNCHANGED <<slot_name, androidrecovery>>
      BY <1>5, <2>2 DEF Start, env
    <3>2. Policy!Idle /\ UNCHANGED Attempt /\ Running' = "recovery"
      BY <2>2, <3>1 DEF Policy!Idle, Attempt, Running
    <3>3. Request = "recovery"
      BY <2>2 DEF BootInv, RequestInv, Request
    <3> QED
      BY <2>1, <3>2, <3>3 DEF Policy!StartRecovery
  <2>3. CASE Starts /\ ~androidrecovery
    <3>1. /\ pc = "start" /\ pc' = "kernel"
          /\ UNCHANGED <<slot_name, androidrecovery>>
      BY <1>5, <2>3 DEF Start, env
    <3>2. Attempt # NoSlot /\ UNCHANGED Attempt
      BY <2>3, <3>1 DEF Starts, Attempt
    <3>3. Running = "nothing" /\ Running' = "android"
      BY <2>3, <3>1 DEF Running
    <3>4. Request = "none"
      BY <2>3, <3>1 DEF Starts, BootInv, CopyInv, Request
    <3> QED
      BY <2>1, <3>2, <3>3, <3>4 DEF Policy!StartAndroid
  <2>4. CASE ~Starts
    <3>1. Attempt' = NoSlot /\ Running' = "nothing"
      BY <1>5, <2>4 DEF Start, Reset, Attempt, Running
    <3> QED
      BY <2>1, <3>1 DEF Policy!Fall
  <2> QED
    BY <2>2, <2>3, <2>4
<1>6. CASE FastbootFails \/ HostContinue
  <2>1. UNCHANGED <<Credit, successful>>
    BY <1>6 DEF FastbootFails, HostContinue, card, board, ab, Credit
  <2>2. Request' \in {Request, "recovery"}
    BY <1>6 DEF FastbootFails, HostContinue, card, Request
  <2>3. /\ pc = "fastboot" /\ pc' = caller
        /\ UNCHANGED <<slot_name, androidrecovery>>
    BY <1>6 DEF FastbootFails, HostContinue, env
  <2>4. caller \in {"bcb", "test", "start"} /\ (caller = "start" => slot_name = NoSlot)
    BY <2>3 DEF BootInv, BootTypeOK, SelectedInv
  <2>5. UNCHANGED Attempt /\ Running = "session" /\ Running' = "nothing"
    BY <2>3, <2>4 DEF Attempt, Running
  <2> QED
    BY <2>1, <2>2, <2>5 DEF Policy!CloseSession
<1>7. CASE HostFormat
  <2>1. /\ pc = "fastboot" /\ has_misc'
        /\ UNCHANGED <<tries, successful, command, pc, slot_name, androidrecovery>>
    BY <1>7 DEF HostFormat, ab, env
  <2>2. UNCHANGED <<successful, Request, Attempt, Running>> /\ Running = "session"
    BY <2>1 DEF Request, Attempt, Running
  <2>3. Credit' = tries
    BY <2>1 DEF Credit, BootInv, BootTypeOK
  <2>4. Credit' \in [Slots -> 0 .. MaxTries]
    BY <2>3 DEF BootInv, BootTypeOK
  <2>5. \A s \in Slots : Credit'[s] >= Credit[s]
    BY <2>3 DEF Credit, BootInv, BootTypeOK
  <2> QED
    BY <2>2, <2>4, <2>5 DEF Policy!Refill
<1>8. CASE HostEraseMisc
  <2>1. /\ pc = "fastboot" /\ has_misc'
        /\ UNCHANGED <<pc, slot_name, androidrecovery>>
        /\ tries' = [s \in Slots |-> MaxTries]
        /\ successful' = [s \in Slots |-> FALSE]
        /\ command' = "none"
    BY <1>8 DEF HostEraseMisc, board, env
  <2>2. UNCHANGED <<Attempt, Running>> /\ Running = "session"
    BY <2>1 DEF Attempt, Running
  <2>3. Credit' = [s \in Slots |-> MaxTries] /\ Request' = "none"
    BY <2>1 DEF Credit, Request
  <2> QED
    BY <2>1, <2>2, <2>3 DEF Policy!Forget
<1>9. CASE HostReboot \/ Reboot
  <2>1. UNCHANGED <<Credit, successful>>
    BY <1>9 DEF HostReboot, Reboot, board, ab, Credit
  <2>2. Running # "nothing"
    BY <1>9 DEF HostReboot, Reboot, Running
  <2>3. Attempt' = NoSlot /\ Running' = "nothing"
    BY <1>9 DEF HostReboot, Reboot, Reset, Attempt, Running
  <2>4. Request' \in Policy!Requests
    BY DEF Request, Policy!Requests
  <2> QED
    BY <2>1, <2>2, <2>3, <2>4 DEF Policy!Restart
<1>10. CASE BootCompletes
  <2>1. UNCHANGED <<Credit, Request, Attempt, Running>>
    BY <1>10 DEF BootCompletes, board, env, Credit, Request, Attempt, Running
  <2>2. Running = "android" /\ Attempt = slot_name
    BY <1>10 DEF BootCompletes, Attempt, Running
  <2> QED
    BY <1>10, <2>1, <2>2 DEF BootCompletes, Policy!Vouch
<1>11. CASE Crash \/ PowerLoss
  <2>1. UNCHANGED <<Credit, successful, Request>>
    BY <1>11 DEF Crash, PowerLoss, card, board, ab, Credit, Request
  <2>2. Attempt' = NoSlot /\ Running' = "nothing"
    BY <1>11 DEF Crash, PowerLoss, Reset, Attempt, Running
  <2> QED
    BY <2>1, <2>2 DEF Policy!Fall
<1> QED
  BY <1>1, <1>2, <1>3, <1>4, <1>5, <1>6, <1>7, <1>8, <1>9, <1>10, <1>11
  DEF BootNext, Script, Host

\* BootPolicySpec: with whatever slots, tries, resets and losses of power, the
\* script's boots are ones the policy allows.
THEOREM ScriptKeepsPolicy == BootSpec => BootPolicySpec
<1>1. BootInit => Policy!Init
  <2> SUFFICES ASSUME BootInit PROVE Policy!Init
    OBVIOUS
  <2>1. \E n \in 0 .. MaxTries : Credit = [s \in Slots |-> n]
    <3>1. CASE has_misc
      <4>1. Credit = [s \in Slots |-> MaxTries]
        BY <3>1 DEF BootInit, Credit
      <4>2. MaxTries \in 0 .. MaxTries
        BY BootAssumption
      <4> QED
        BY <4>1, <4>2
    <3>2. CASE ~has_misc
      <4>1. Credit = [s \in Slots |-> 0]
        BY <3>2 DEF Credit
      <4>2. 0 \in 0 .. MaxTries
        BY BootAssumption
      <4> QED
        BY <4>1, <4>2
    <3> QED
      BY <3>1, <3>2
  <2>2. Request = "none" /\ Attempt = NoSlot /\ Running = "nothing"
    BY DEF BootInit, Request, Attempt, Running
  <2> QED
    BY <2>1, <2>2 DEF BootInit, Policy!Init
<1> QED
  BY <1>1, StepKeepsPolicy, BootInvHolds, PTL DEF BootSpec, BootPolicySpec, Policy!Spec

=============================================================================
