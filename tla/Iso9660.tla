------------------------------ MODULE Iso9660 ------------------------------
(***************************************************************************)
(* The ISO 9660 driver, kernel/kernel/drv/fs/iso9660.c, over a disc drive: *)
(* isvalid, attempt_mount with a read of an extent per step, accessfile.   *)
(*                                                                         *)
(* A sector is a volume descriptor, a path table, records of a directory   *)
(* or data; sizes of directories are in sectors, those of files in units,  *)
(* of which a sector holds BlockSize.  The records "." and ".." are left   *)
(* out.                                                                    *)
(***************************************************************************)
EXTENDS Atapi, Functions

CONSTANTS BlockSize,      \* units in a sector
          TableStep,      \* what fentries grows by, 32
          FreshIndices    \* what kmalloc may leave in fentries_loc

VARIABLES
  mount,        \* "none", "directories", "files", "mounted", "refused" or "lost"
  pvd,          \* fsinfo->pvd
  dirs,         \* direntries: name, parent
  files,        \* struct vfs_file: name, parent, size, id
  fentries,     \* the records that ids refer to
  fentriesLoc,  \* fsinfo->fentries_loc
  fentriesSize, \* fsinfo->fentries_size
  search        \* append_files: which directory, the names down to it, the extent reached

isoVars == <<mount, pvd, dirs, files, fentries, fentriesLoc, fentriesSize, search>>

PvdSector == 16
Root == 1

Search(k, names, loc, size) == [dir |-> k, names |-> names, loc |-> loc, size |-> size]
NoSearch == Search(0, <<>>, 0, 0)

IsoInit ==
  /\ mount = "none"
  /\ pvd = Junk
  /\ dirs = <<>>
  /\ files = <<>>
  /\ fentries = <<>>
  /\ fentriesLoc = 0
  /\ fentriesSize = 0
  /\ search = NoSearch

\* iso9660_isvalid, of what was read.
IsoValid(sector) == sector.kind = "pvd"

\* The path names of a directory, below the root.
NamesTo(k) ==
  LET names[d \in DOMAIN dirs] ==
        IF d = Root THEN <<>> ELSE Append(names[dirs[d].parent], dirs[d].name)
  IN  names[k]

StartSearch(k) == Search(k, NamesTo(k), pvd.root.loc, pvd.root.size)

\* The pages of the kernel are damaged, or it follows NULL: nothing is known
\* of what it does next.
Lost ==
  /\ mount' = "lost"
  /\ search' = NoSearch
  /\ UNCHANGED <<pvd, dirs, files, fentries, fentriesLoc, fentriesSize>>

\* attempt_mount up to the path table.
ReadDescriptor(bd) ==
  /\ mount = "none"
  /\ \E read \in Reads(bd, PvdSector, 1) :
       /\ HasRead(bd, read)
       /\ IF IsoValid(read.buf[1])
            THEN mount' = "directories" /\ pvd' = read.buf[1]
            ELSE mount' = "refused" /\ UNCHANGED pvd
       /\ UNCHANGED <<dirs, files, fentries, fentriesLoc, fentriesSize, search>>

\* The loop over the path table; the entry of the root names itself as parent.
Directories(table) ==
  [k \in DOMAIN table |->
     [name |-> table[k].name, parent |-> IF k = Root THEN 0 ELSE table[k].parent]]

\* The path table becomes directories; nobody writes fentries_loc.
ReadPathTable(bd) ==
  /\ mount = "directories"
  /\ \E read \in Reads(bd, pvd.table.loc, 1) :
       /\ HasRead(bd, read)
       /\ IF read.buf[1].kind = "table"
            THEN /\ mount' = "files"
                 /\ dirs' = Directories(read.buf[1].entries)
                 /\ fentriesSize' = TableStep
                 /\ fentriesLoc' \in FreshIndices
                 /\ search' = Search(Root, <<>>, pvd.root.loc, pvd.root.size)
                 /\ UNCHANGED <<pvd, files, fentries>>
            ELSE Lost

\* Faulty variant: padding ends the directory.
RecordsInFirst(buf) == buf[1].records

\* All records of an extent; padding leads to the next sector.
RecordsIn(buf) == FlattenSeq([s \in DOMAIN buf |-> buf[s].records])
IsDirectory(buf) == \A s \in DOMAIN buf : buf[s].kind = "dir"

\* find_dir_entry, one directory further down.  Where the name is missing it
\* returns NULL, which append_files dereferences.
Descend(bd) ==
  /\ mount = "files"
  /\ search.names # <<>>
  /\ \E read \in Reads(bd, search.loc, search.size) :
       /\ HasRead(bd, read)
       /\ LET records == RecordsIn(read.buf)
              r == SelectInSeq(records, LAMBDA x : x.name = Head(search.names))
          IN  IF IsDirectory(read.buf) /\ r # 0
                THEN /\ search' = Search(search.dir, Tail(search.names), records[r].loc, records[r].size)
                     /\ UNCHANGED <<mount, pvd, dirs, files, fentries, fentriesLoc, fentriesSize>>
                ELSE Lost

\* Faulty variant: a table that is just full does not grow.
SizeAfterLate(loc, size) == IF size < loc THEN size + TableStep ELSE size

\* fentries_size when a file is to be added: the table grows by one step, if
\* that is enough or not.
SizeAfter(loc, size) == IF size <= loc THEN size + TableStep ELSE size

\* The tree and the table of records, behind which the driver may write.
EntryTable == [files |-> files, fentries |-> fentries, loc |-> fentriesLoc, size |-> fentriesSize, overrun |-> FALSE]

\* A record becomes a file, whose id is its place in the table.
WithFile(table, record) ==
  LET size == SizeAfter(table.loc, table.size)
      file == [name |-> record.name, parent |-> search.dir, size |-> record.size, id |-> table.loc]
  IN  [files |-> Append(table.files, file),
       fentries |-> [id \in DOMAIN table.fentries \cup {table.loc} |->
                       IF id = table.loc THEN record.loc ELSE table.fentries[id]],
       loc |-> table.loc + 1,
       size |-> size,
       overrun |-> table.overrun \/ table.loc >= size]

\* append_files: the records that are no directories become files.
AppendFiles(bd) ==
  /\ mount = "files"
  /\ search.names = <<>>
  /\ \E read \in Reads(bd, search.loc, search.size) :
       /\ HasRead(bd, read)
       /\ LET records == RecordsIn(read.buf)
              table[n \in 0..Len(records)] ==
                IF n = 0 THEN EntryTable
                ELSE IF records[n].dir THEN table[n - 1]
                ELSE WithFile(table[n - 1], records[n])
              end == table[Len(records)]
          IN  IF IsDirectory(read.buf) /\ ~end.overrun
                THEN /\ files' = end.files
                     /\ fentries' = end.fentries
                     /\ fentriesLoc' = end.loc
                     /\ fentriesSize' = end.size
                     /\ IF search.dir = Len(dirs)
                          THEN mount' = "mounted" /\ search' = NoSearch
                          ELSE UNCHANGED mount /\ search' = StartSearch(search.dir + 1)
                     /\ UNCHANGED <<pvd, dirs>>
                ELSE Lost

IsoMount(bd) == ReadDescriptor(bd) \/ ReadPathTable(bd) \/ Descend(bd) \/ AppendFiles(bd)

-----------------------------------------------------------------------------
(* iso9660_accessfile.                                                      *)

\* The bytes a read returns: up to the end of the file.
BytesOf(f, len, loc) == IF len >= files[f].size - loc THEN files[f].size - loc ELSE len

\* The sectors it reads: those of as many bytes, wherever they begin.
SectorsOf(bytes) == (bytes + BlockSize - 1) \div BlockSize

FirstSector(f, loc) == fentries[files[f].id] + loc \div BlockSize

Garbage == "garbage"

\* A unit of the buffer, of another sector or behind its end.
UnitIn(buf, u) ==
  LET s == (u \div BlockSize) + 1
  IN  IF s \in DOMAIN buf /\ buf[s].kind = "data" THEN buf[s].units[(u % BlockSize) + 1] ELSE Garbage

\* What it copies.
Copied(buf, bytes, loc) == [u \in 1..bytes |-> UnitIn(buf, (loc % BlockSize) + u - 1)]

-----------------------------------------------------------------------------
(* What is on a disc, by its directories alone.                             *)

\* A sector as a disc is written: of a path table, parents come first.
IsSector(x) ==
  /\ x.kind \in {"pvd", "table", "dir", "data"}
  /\ x.kind = "pvd" => x.root \in [loc : Nat, size : Nat] /\ x.table.loc \in Nat
  /\ x.kind = "table" =>
       /\ x.entries \in Seq([name : STRING, parent : Nat]) \ {<<>>}
       /\ \A k \in 2..Len(x.entries) : x.entries[k].parent \in 1..(k - 1)
  /\ x.kind = "dir" => x.records \in Seq([name : STRING, dir : BOOLEAN, loc : Nat, size : Nat])
  /\ x.kind = "data" => DOMAIN x.units = 1..BlockSize

Extent(r) == [loc |-> r.loc, size |-> r.size]
AreOf(kind, disc, loc, n) == \A l \in loc..(loc + n - 1) : l \in DOMAIN disc /\ disc[l].kind = kind
PathTable(disc) == disc[disc[PvdSector].table.loc].entries
RecordsOn(disc, extent) == RecordsIn([s \in 1..extent.size |-> disc[extent.loc + s - 1]])

\* Directory k of the path table lies in extents[k]: its record is in its
\* parent, the table has every directory once, names in a directory differ, and
\* where a file should be there is data.
IsLaidOut(disc, extents) ==
  LET table == PathTable(disc)
  IN  /\ extents[Root] = Extent(disc[PvdSector].root)
      /\ \A k \in 2..Len(table) : \E r \in ToSet(RecordsOn(disc, extents[table[k].parent])) :
           r.dir /\ r.name = table[k].name /\ Extent(r) = extents[k]
      /\ \A j, k \in 2..Len(table) :
           table[j].parent = table[k].parent /\ table[j].name = table[k].name => j = k
      /\ \A k \in 1..Len(table) :
           LET records == RecordsOn(disc, extents[k])
           IN  /\ AreOf("dir", disc, extents[k].loc, extents[k].size)
               /\ \A i, j \in DOMAIN records : records[i].name = records[j].name => i = j
               /\ \A i \in DOMAIN records :
                    IF records[i].dir
                      THEN \E c \in 2..Len(table) : table[c].parent = k /\ table[c].name = records[i].name
                      ELSE AreOf("data", disc, records[i].loc, SectorsOf(records[i].size))

ExtentsOn(disc) ==
  {Extent(r) : r \in UNION {ToSet(disc[l].records) : l \in {x \in DOMAIN disc : disc[x].kind = "dir"}}}
    \cup {disc[PvdSector].root}

\* What a drive may hold: any disc without a volume descriptor, or one that was
\* written with an ISO 9660 volume.
IsDisc(disc) ==
  /\ \A l \in DOMAIN disc : l \in Nat /\ IsSector(disc[l])
  /\ PvdSector \in DOMAIN disc /\ IsoValid(disc[PvdSector]) =>
       /\ AreOf("table", disc, disc[PvdSector].table.loc, 1)
       /\ \E extents \in [1..Len(PathTable(disc)) -> ExtentsOn(disc)] : IsLaidOut(disc, extents)

ASSUME IsoAssumption ==
  /\ BlockSize \in Nat \ {0} /\ TableStep \in Nat \ {0}
  /\ FreshIndices \subseteq Nat
  /\ \A m \in Machines, i \in Slots : m[i].medium # NoDisc => IsDisc(m[i].medium)

\* The records of a directory on an intact disc.
OnDisc(disc, loc, size) == UNION {ToSet(disc[l].records) : l \in loc..(loc + size - 1)}

\* Everything at depth n of an intact disc.
AtDepth(disc) ==
  LET entries[n \in 0..Len(disc[disc[PvdSector].table.loc].entries)] ==
        IF n = 0 THEN {[path |-> <<>>, dir |-> TRUE, loc |-> disc[PvdSector].root.loc, size |-> disc[PvdSector].root.size]}
        ELSE UNION {{[path |-> Append(d.path, r.name), dir |-> r.dir, loc |-> r.loc, size |-> r.size] :
                       r \in OnDisc(disc, d.loc, d.size)} : d \in {e \in entries[n - 1] : e.dir}}
  IN  entries

FilesOn(disc) ==
  {[path |-> e.path, loc |-> e.loc, size |-> e.size] :
     e \in {x \in UNION {AtDepth(disc)[n] : n \in DOMAIN AtDepth(disc)} : ~x.dir}}

\* The files the driver has in its tree.
FilesInTree ==
  {[path |-> Append(NamesTo(files[f].parent), files[f].name),
    loc |-> fentries[files[f].id], size |-> files[f].size] : f \in DOMAIN files}

=============================================================================
