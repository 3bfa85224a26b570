-------------------------------- MODULE Boot --------------------------------
(***************************************************************************)
(* kernel_main from devinit to the system volume: the drives are detected, *)
(* the disc is mounted, its boot.img becomes a RAM disk and that is        *)
(* mounted; or the block device the command line names is mounted itself.  *)
(* Programs then read files of the disc.  All of it runs without           *)
(* scheduling, and reads from the disc may fail at any time.               *)
(***************************************************************************)
EXTENDS Iso9660

CONSTANTS CmdLines,   \* NoInformation, CD or the slot of a drive
          BootImg,    \* the name of boot.img
          RamBlock,   \* units in a block of the RAM disk
          BootUnit,   \* what the first unit of a FAT volume looks like
          MaxReads    \* bound on the reads of programs

ASSUME BootAssumption ==
  /\ CmdLines \subseteq Int
  /\ RamBlock \in Nat \ {0} /\ MaxReads \in Nat

VARIABLES
  cmdline,
  phase,     \* where kernel_main is, or "panic" or "booted"
  message,   \* what panic was called with
  ramdisk,   \* the units of the RAM disk
  answer,    \* the last read of a program: file, loc, len, data
  reads      \* reads of programs so far

bootVars == <<driveVars, isoVars, cmdline, phase, message, ramdisk, answer, reads>>

NoInformation == -2   \* ""
CD == -1              \* "cd"; a slot stands for the name "atapi%i"

NoAnswer == [file |-> 0, loc |-> 0, len |-> 0, data |-> <<>>]

BootInit ==
  /\ DrivesInit
  /\ IsoInit
  /\ cmdline \in CmdLines
  /\ phase = "detect"
  /\ message = "none"
  /\ ramdisk = <<>>
  /\ answer = NoAnswer
  /\ reads = 0

Goto(p) == phase' = p /\ UNCHANGED message
Panic(text) == phase' = "panic" /\ message' = text
KeepIso == UNCHANGED isoVars
KeepRest == UNCHANGED <<cmdline, ramdisk, answer, reads>>

\* devinit: atapio_detect_disks and atapi_init.
Detect ==
  /\ phase = "detect" /\ DetectDisks /\ Goto("init")
  /\ KeepIso /\ KeepRest

InitDrives ==
  /\ phase = "init" /\ AtapiInit /\ Goto("volume")
  /\ KeepIso /\ KeepRest

\* kernel_mount_system_volume: which device.
FindVolume ==
  /\ phase = "volume"
  /\ CASE cmdline = NoInformation -> Panic("no information")
       [] cmdline = CD -> IF DiscCount = 1 THEN Goto("vfat")
                            ELSE IF DiscCount > 1 THEN Panic("remove all other discs")
                            ELSE Panic("no cd")
       [] OTHER -> IF cmdline \in ToSet(blockdevices) THEN Goto("vfat")
                   ELSE Panic("no such device")
  /\ UNCHANGED <<driveVars, ramdisk, cmdline, answer, reads>> /\ KeepIso

\* The device that is mounted first.
Volume == IF cmdline = CD THEN atapiDisc
          ELSE SelectInSeq(blockdevices, LAMBDA i : i = cmdline) - 1

\* Faulty variant: it asks until the sector can be read.
AskVfatAgain ==
  /\ phase = "vfat"
  /\ \E read \in Reads(Volume, 0, 1) :
       /\ HasRead(Volume, read)
       /\ IF read.buf[1] = Junk THEN UNCHANGED <<phase, message>> ELSE Goto("iso")
  /\ KeepIso /\ KeepRest

\* vfs_detect_fs asks the FAT driver first.  Junk may look like a FAT volume.
AskVfat ==
  /\ phase = "vfat"
  /\ \E read \in Reads(Volume, 0, 1) :
       /\ HasRead(Volume, read)
       /\ \/ Goto("iso") /\ KeepIso
          \/ read.buf[1] = Junk /\ Lost /\ Goto("iso")
  /\ KeepRest

\* Then the ISO 9660 driver.  For a CD nobody looks whether a driver was found.
AskIso ==
  /\ phase = "iso" /\ mount # "lost"
  /\ \E read \in Reads(Volume, PvdSector, 1) :
       /\ HasRead(Volume, read)
       /\ IF IsoValid(read.buf[1]) THEN Goto("mount") /\ KeepIso
          ELSE IF cmdline = CD THEN Lost /\ UNCHANGED <<phase, message>>
          ELSE Panic("not supported") /\ KeepIso
  /\ KeepRest

\* vfs_mount of the disc, a read per step.
Mount ==
  /\ phase = "mount"
  /\ IsoMount(Volume)
  /\ IF mount' = "refused" THEN Panic("vfs_mount NULL")
     ELSE IF mount' = "mounted" THEN Goto(IF cmdline = CD THEN "image" ELSE "booted")
     ELSE UNCHANGED <<phase, message>>
  /\ KeepRest

\* vfs_find_file: the last file of that name in the root directory.
Found == {f \in DOMAIN files : files[f].name = BootImg /\ files[f].parent = Root}

RoundUp(n, multiple) == ((n + multiple - 1) \div multiple) * multiple

\* Faulty variant: the RAM disk has as many blocks as fit into the file.
RamdiskOfRoundedDown(units) ==
  SubSeq(units, 1, (Len(units) \div RamBlock) * RamBlock)

\* rdisk_create and memcpy.
RamdiskOf(units) ==
  units \o [u \in 1..(RoundUp(Len(units), RamBlock) - Len(units)) |-> Garbage]

\* vfs_read_file_k, whatever accessfile returned.
ReadImage ==
  /\ phase = "image"
  /\ IF Found = {} THEN Panic("no boot.img") /\ UNCHANGED <<driveVars, ramdisk>>
     ELSE LET f == Max(Found)
              n == SectorsOf(files[f].size)
          IN  \E read \in Reads(Volume, FirstSector(f, 0), n) :
                /\ HasRead(Volume, read)
                /\ ramdisk' = RamdiskOf(Copied(read.buf, files[f].size, 0))
                /\ Goto("ramdisk")
  /\ KeepIso
  /\ UNCHANGED <<cmdline, answer, reads>>

\* vfs_detect_fs and vfs_mount of the RAM disk by the FAT driver.  Garbage may
\* look like anything.
MountRamdisk ==
  /\ phase = "ramdisk"
  /\ \/ /\ ramdisk # <<>> /\ ramdisk[1] \in {BootUnit, Garbage}
        /\ Goto("booted")
     \/ /\ ramdisk = <<>> \/ ramdisk[1] # BootUnit
        /\ Panic("not supported")
  /\ UNCHANGED <<driveVars, ramdisk, cmdline, answer, reads>> /\ KeepIso

\* vfs_read of a file of the disc.
ReadFile(f, loc, len) ==
  LET bytes == BytesOf(f, len, loc)
  IN  /\ phase = "booted" /\ reads < MaxReads
      /\ bytes > 0
      /\ \E read \in Reads(Volume, FirstSector(f, loc), SectorsOf(bytes)) :
           /\ HasRead(Volume, read)
           /\ answer' = [file |-> f, loc |-> loc, len |-> len, data |-> Copied(read.buf, bytes, loc)]
      /\ reads' = reads + 1
      /\ KeepIso
      /\ UNCHANGED <<cmdline, phase, message, ramdisk>>

BootStep ==
  Detect \/ InitDrives \/ FindVolume \/ AskVfat \/ AskIso \/ Mount \/ ReadImage \/ MountRamdisk

BootNext ==
  /\ mount # "lost"
  /\ \/ BootStep
     \/ \E f \in DOMAIN files : \E loc \in 0..(files[f].size - 1) : \E len \in 1..files[f].size :
          ReadFile(f, loc, len)

\* The kernel does nothing else until it has booted, and a drive answers a
\* command, if only with an error.
Fairness == WF_bootVars(mount # "lost" /\ BootStep)

BootSpec == BootInit /\ [][BootNext]_bootVars /\ Fairness

-----------------------------------------------------------------------------

\* Type correctness.
TypeOK ==
  /\ mount \in {"none", "directories", "files", "mounted", "refused", "lost"}
  /\ phase \in {"detect", "init", "volume", "vfat", "iso", "mount", "image", "ramdisk", "booted", "panic"}
  /\ \A k \in DOMAIN dirs : dirs[k].parent \in 0..(k - 1)
  /\ \A f \in DOMAIN files : files[f].parent \in DOMAIN dirs
  /\ atapiDisc \in -1..3 /\ errors \in 0..MaxErrors /\ reads \in 0..MaxReads

\* The disc is mounted and no read has failed.
Undisturbed == mount = "mounted" /\ errors = 0

\* Mounting by path table and by searching each directory again from the root
\* finds every file of the disc, once, where it is, with its record behind its
\* id, whatever fentries_loc began with.
TreeIsDisc ==
  /\ TypeOK
  /\ Undisturbed =>
       /\ FilesInTree = FilesOn(Medium(Volume))
       /\ Cardinality(FilesInTree) = Len(files)
       /\ \A f, g \in DOMAIN files : f # g => files[f].id # files[g].id

\* The units of a file on an intact disc.
UnitsOn(disc, f) ==
  [u \in 1..files[f].size |-> disc[FirstSector(f, u - 1)].units[((u - 1) % BlockSize) + 1]]

\* The RAM disk is boot.img, and the read of a program that begins in a sector
\* where it leaves room for its bytes returns the bytes of the file and no
\* more than are there, unless a read has failed.
FilesIntact ==
  Undisturbed =>
    /\ ramdisk # <<>> =>
         \E f \in Found : IsPrefix(UnitsOn(Medium(Volume), f), ramdisk)
    /\ LET f == answer.file
           n == Len(answer.data)
       IN  f # 0 /\ (answer.loc % BlockSize) + n <= SectorsOf(n) * BlockSize =>
             /\ answer.data = SubSeq(UnitsOn(Medium(Volume), f), answer.loc + 1, answer.loc + n)
             /\ n = answer.len \/ answer.loc + n = files[f].size

\* A kernel that jumps through NULL or damages its heap while it boots has met
\* a drive error, a drive without a readable disc, or an index that nobody set.
\* The first two it ignores, the last one kmalloc decides.
LostForCause ==
  mount = "lost" =>
    \/ errors > 0
    \/ Medium(Volume) = NoDisc \/ Medium(Volume)[PvdSector].kind # "pvd"
    \/ fentriesLoc - Len(files) >= 2 * TableStep

\* Booting ends: in the system, in a panic that says why, or in a crash.
BootEnds == <>(phase \in {"booted", "panic"} \/ mount = "lost")

=============================================================================
