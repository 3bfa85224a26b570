------------------------------- MODULE Atapi -------------------------------
(***************************************************************************)
(* The disc drives: what kernel/kernel/drv/atapio.c detects on the two     *)
(* channels, what atapi.c registers as block devices, and one call of      *)
(* vfs_read_blocks on such a device before there is scheduling: the driver *)
(* polls, and atapi_block reports a block whatever read_cdrom returned.    *)
(***************************************************************************)
EXTENDS Integers, Sequences, SequencesExt, FiniteSetsExt

CONSTANTS Machines,    \* what may be attached: per slot a kind and a medium
          NoDisc,      \* an empty drive
          MaxErrors    \* bound on the reads that fail

DriveKinds == {"none", "ata", "atapi", "sata", "satapi"}
Slots == 0..3          \* atadevices: master and slave of 0x1F0 and of 0x170

ASSUME AtapiAssumption ==
  /\ MaxErrors \in Nat
  /\ \A m \in Machines : DOMAIN m = Slots /\ \A i \in Slots : m[i].kind \in DriveKinds

VARIABLES
  drives,         \* the hardware: a member of Machines
  atadevices,     \* the type of each device
  atapiDisc,      \* atapi_disc: the block device registered last, -1 for none
  blockdevices,   \* vfs_blockdevices: the slot behind each disc device
  errors,         \* reads that failed so far
  seen            \* sectors that were read: fresh memory may still hold them

driveVars == <<drives, atadevices, atapiDisc, blockdevices, errors, seen>>

Junk == [kind |-> "junk"]

ATA_TYPE_NONE == 0
ATA_TYPE_ATA == 1
ATA_TYPE_ATAPI == 2
ATA_TYPE_SATA == 3
ATA_TYPE_SATAPI == 4

DrivesInit ==
  /\ drives \in Machines
  /\ atadevices = [i \in Slots |-> ATA_TYPE_NONE]
  /\ atapiDisc = -1
  /\ blockdevices = <<>>
  /\ errors = 0
  /\ seen = {}

\* A channel without drives reads 0xFF.
NoChannel(i) == drives[i].kind = "none" /\ drives[IF i % 2 = 0 THEN i + 1 ELSE i - 1].kind = "none"

\* atapio_identify: the signature in LBA mid and high.
Identify(i) ==
  CASE drives[i].kind = "none" -> ATA_TYPE_NONE
    [] drives[i].kind = "ata" -> ATA_TYPE_ATA
    [] drives[i].kind = "atapi" -> ATA_TYPE_ATAPI
    [] drives[i].kind = "sata" -> ATA_TYPE_SATA
    [] drives[i].kind = "satapi" -> ATA_TYPE_SATAPI

\* atapio_detect_disks.
DetectDisks ==
  /\ atadevices' = [i \in Slots |-> IF NoChannel(i) THEN atadevices[i] ELSE Identify(i)]
  /\ UNCHANGED <<drives, atapiDisc, blockdevices, errors, seen>>

\* atapi_init: every ATAPI drive is registered, with a disc or without:
\* get_cdrom_capacity_polling returns 1 for a drive that reports an error.
AtapiInit ==
  /\ LET registered[n \in 0..4] ==
           IF n = 0 THEN <<>>
           ELSE IF atadevices[n - 1] = ATA_TYPE_ATAPI THEN Append(registered[n - 1], n - 1)
           ELSE registered[n - 1]
     IN  blockdevices' = registered[4]
  /\ atapiDisc' = Len(blockdevices') - 1
  /\ UNCHANGED <<drives, atadevices, errors, seen>>

\* atapi_disccount.
DiscCount == Len(blockdevices)

SlotOf(bd) == blockdevices[bd + 1]
Medium(bd) == drives[SlotOf(bd)].medium

\* The sectors that may be read without an error.
GoodSectors(bd, lba, n) ==
  IF Medium(bd) = NoDisc THEN {{}}
  ELSE {good \in SUBSET {s \in 1..n : lba + s - 1 \in DOMAIN Medium(bd)} :
          n - Cardinality(good) + errors <= MaxErrors}

\* What a buffer holds that held kept where the sectors are not good.
Transfer(bd, lba, n, good, kept) ==
  [buf |-> [s \in 1..n |-> IF s \in good THEN Medium(bd)[lba + s - 1] ELSE kept[s]],
   failed |-> Cardinality((1..n) \ good)]

\* vfs_read_blocks of n sectors into a new buffer: where read_cdrom fails, with
\* the packet, the command or the transfer, memory keeps what it held.
Reads(bd, lba, n) ==
  UNION {{Transfer(bd, lba, n, good, kept) : kept \in [(1..n) \ good -> seen \cup {Junk}]} :
           good \in GoodSectors(bd, lba, n)}

\* The effect of such a read on the drive.
HasRead(bd, read) ==
  /\ errors' = IF Medium(bd) = NoDisc THEN errors ELSE errors + read.failed
  /\ seen' = seen \cup {x \in ToSet(read.buf) : x.kind # "data"}
  /\ UNCHANGED <<drives, atadevices, atapiDisc, blockdevices>>

=============================================================================
