-------------------------------- MODULE Vfat --------------------------------
(***************************************************************************)
(* The FAT driver, kernel/kernel/drv/fs/vfat.c: mounting a volume reads    *)
(* all its directories into the tree of the VFS, one directory entry per   *)
(* step; accessfile reads from the cluster chain of a file.                *)
(*                                                                         *)
(* A directory cluster is a sequence of entries, the k-th byte of cluster  *)
(* c is <<c, k>>, and a name is a sequence of parts: one for a short name, *)
(* one for each long name entry.                                           *)
(***************************************************************************)
EXTENDS Integers, Sequences, SequencesExt

CONSTANTS Volumes,      \* the disks that may be mounted
          Slots,        \* directory entries in a cluster and in a sector
          ClusterSize,  \* bytes in a cluster
          EndMark,      \* what the driver takes for the end of a chain, 0x0FFFFFF8
          LongParts,    \* long name entries that fit into lfnbuf
          Word          \* 2^32

Entry(kind, name, cluster, size) == [kind |-> kind, name |-> name, cluster |-> cluster, size |-> size]

VARIABLES
  volume,       \* the disk
  mount,        \* "reading", "lost" or "mounted"
  calls,        \* the calls of vfat_read_directory under way
  directories,  \* struct vfs_directory, the root is the first
  files,        \* struct vfs_file
  fentries      \* the directory entries that ids refer to

mountVars == <<volume, mount, calls, directories, files, fentries>>

Root == 1
NoDirectory == 0

NewDirectory(name, parent, id) ==
  [name |-> name, parent |-> parent, id |-> id, dirs |-> <<>>, files |-> <<>>]

\* A call: the directory it fills, the entries it has read, the next cluster,
\* the place it looks at and the parts in lfnbuf.  The root directory of
\* FAT12 and FAT16 is no chain of clusters (next is 0).
Call(dir, data, next) == [dir |-> dir, data |-> data, next |-> next, i |-> 1, lfn |-> <<>>]

Clusters == DOMAIN volume.next

RootCall(v) ==
  IF v.fat32 THEN Call(Root, v.slots[v.root], v.next[v.root]) ELSE Call(Root, v.sector, 0)

MountInit ==
  /\ volume \in Volumes
  /\ mount = "reading"
  /\ directories = <<NewDirectory(<<>>, NoDirectory, 0)>>
  /\ files = <<>>
  /\ fentries = <<>>
  /\ calls = <<RootCall(volume)>>

-----------------------------------------------------------------------------
(* Reading directories.                                                     *)

Top == Last(calls)
InRootSector == Len(calls) = 1 /\ ~volume.fat32

\* The loop looks at all entries of a cluster but the last.
InCluster(c) == c.i < Slots

\* Faulty variant: every entry is looked at again and again.
ContinueStuck(c) == [c EXCEPT !.lfn = <<>>]

\* "i += 32".
Continue(c) == [c EXCEPT !.i = @ + 1]

TopBecomes(c) == calls' = [calls EXCEPT ![Len(calls)] = c]

Sees(kind) == mount = "reading" /\ calls # <<>> /\ InCluster(Top) /\ Top.data[Top.i].kind = kind
Seen == Top.data[Top.i]

\* vfat_read_cluster of the next cluster of the directory.
NextCluster ==
  /\ mount = "reading" /\ calls # <<>>
  /\ ~InCluster(Top) /\ ~InRootSector
  /\ Top.next < EndMark
  /\ IF Top.next \in Clusters
       THEN /\ TopBecomes([Top EXCEPT !.data = volume.slots[Top.next],
                                      !.next = volume.next[Top.next], !.i = 1])
            /\ UNCHANGED mount
       ELSE /\ mount' = "lost"
            /\ UNCHANGED calls
  /\ UNCHANGED <<volume, directories, files, fentries>>

\* The end of the entries or of the chain: the directory is complete and is
\* appended to its parent, whose call goes on.
Return ==
  /\ mount = "reading" /\ calls # <<>>
  /\ \/ ~InCluster(Top) /\ (InRootSector \/ Top.next >= EndMark)
     \/ Sees("end")
  /\ LET caller == calls[Len(calls) - 1]
     IN  IF Len(calls) = 1
           THEN /\ mount' = "mounted"
                /\ calls' = <<>>
                /\ UNCHANGED directories
           ELSE /\ calls' = Append(SubSeq(calls, 1, Len(calls) - 2), Continue(caller))
                /\ directories' = [directories EXCEPT ![caller.dir].dirs = Append(@, Top.dir)]
                /\ UNCHANGED mount
  /\ UNCHANGED <<volume, files, fentries>>

SkipFree ==
  /\ Sees("free")
  /\ TopBecomes(Continue(Top))
  /\ UNCHANGED <<volume, mount, directories, files, fentries>>

\* A part of a long name.  When lfnbuf is full the loop goes round without
\* moving on, which no step here stands for.
TakeLongName ==
  /\ Sees("lfn")
  /\ Len(Top.lfn) < LongParts
  /\ TopBecomes(Continue([Top EXCEPT !.lfn = @ \o Seen.name]))
  /\ UNCHANGED <<volume, mount, directories, files, fentries>>

\* Faulty variant: lfnbuf keeps what was in it.
NamedKeeping(c) == c

\* lfnbuf is emptied when its name is used.
Named(c) == [c EXCEPT !.lfn = <<>>]

NameSeen == IF Top.lfn = <<>> THEN Seen.name ELSE Top.lfn

\* "." and "..", which have no long names.
SkipDot ==
  /\ Sees("dot")
  /\ Top.lfn = <<>>
  /\ TopBecomes(Continue(Top))
  /\ UNCHANGED <<volume, mount, directories, files, fentries>>

\* Faulty variant: the id is taken after fentries_loc has moved on.
NewIdLate == Len(fentries) + 2

\* fentries_loc.
NewId == Len(fentries) + 1

EnterDirectory ==
  /\ Sees("dir")
  /\ directories' = Append(directories, NewDirectory(NameSeen, Top.dir, NewId))
  /\ fentries' = Append(fentries, Seen)
  /\ calls' = Append([calls EXCEPT ![Len(calls)] = Named(Top)],
                     Call(Len(directories) + 1, volume.slots[Seen.cluster], volume.next[Seen.cluster]))
  /\ UNCHANGED <<volume, mount, files>>

AddFile ==
  /\ Sees("file")
  /\ files' = Append(files, [name |-> NameSeen, parent |-> Top.dir, size |-> Seen.size,
                             id |-> NewId, open |-> 0])
  /\ fentries' = Append(fentries, Seen)
  /\ directories' = [directories EXCEPT ![Top.dir].files = Append(@, Len(files) + 1)]
  /\ TopBecomes(Continue(Named(Top)))
  /\ UNCHANGED <<volume, mount>>

MountStep ==
  \/ NextCluster \/ Return \/ SkipFree \/ TakeLongName \/ SkipDot \/ EnterDirectory \/ AddFile

-----------------------------------------------------------------------------
(* vfat_accessfile.                                                         *)

Garbage == <<0, 0>>

\* vfat_next_cluster n times from c; 0 when the walk leaves the chain.
Hop(c, n) ==
  LET hop[k \in 0..n] == IF k = 0 THEN c
                         ELSE IF hop[k - 1] \in Clusters THEN volume.next[hop[k - 1]] ELSE 0
  IN  hop[n]

\* The bytes a read is to yield: len, or what is left of the file.
ReadLength(size, loc, len) ==
  LET left == (size - loc) % Word
  IN  IF len >= left THEN left ELSE len

\* tempbuf after the clusters are read; what follows it belongs to others.
ClusterBytes(c) == IF c \in Clusters THEN [k \in 1..ClusterSize |-> <<c, k>>]
                   ELSE [k \in 1..ClusterSize |-> Garbage]

Clustered(bytes) == (bytes + ClusterSize - 1) \div ClusterSize

\* Faulty variant: reading starts at the first cluster of the file.
FirstClusterStart(loc) == 0

\* The cluster of the file in which loc lies.
FirstCluster(loc) == loc \div ClusterSize

Tempbuf(file, loc, bytes) ==
  LET c == Hop(fentries[files[file].id].cluster, FirstCluster(loc))
  IN  FlattenSeq([i \in 1..Clustered(bytes) |-> ClusterBytes(Hop(c, i - 1))])

\* What accessfile returns, and the bytes it puts into the buffer.
AccessFile(write, file, len, loc) ==
  LET bytes == ReadLength(files[file].size, loc, len)
      buf == Tempbuf(file, loc, bytes)
      Byte(k) == IF k \in DOMAIN buf THEN buf[k] ELSE Garbage
  IN  IF write \/ bytes >= Word \div 2 THEN [ret |-> -1, data |-> <<>>]
      ELSE [ret |-> bytes, data |-> [k \in 1..bytes |-> Byte((loc % ClusterSize) + k)]]

-----------------------------------------------------------------------------
(* What the volume holds.                                                   *)

\* The clusters of the chain that starts at c.
Chain(v, c) ==
  LET chain[d \in DOMAIN v.next] ==
        <<d>> \o IF v.next[d] \in DOMAIN v.next THEN chain[v.next[d]] ELSE <<>>
  IN  chain[c]

\* An entry on a volume: its directory has a cluster there and the size 0, its
\* file as many clusters as its size takes, and no part of its name is "." or
\* "..", which the driver skips.
IsEntry(v, e) ==
  /\ e = Entry(e.kind, e.name, e.cluster, e.size)
  /\ e.size \in 0..(Word - 1)
  /\ e.name \in Seq(ToSet(e.name)) /\ ToSet(e.name) \cap {".", ".."} = {}
  /\ e.kind = "dir" => e.cluster \in DOMAIN v.slots /\ e.size = 0
  /\ e.kind = "file" /\ e.size > 0 =>
       e.cluster \in DOMAIN v.next /\ e.size <= Len(Chain(v, e.cluster)) * ClusterSize

\* A sector or a cluster of entries; the driver does not look at the last one.
HasEntries(v, s) ==
  s \in Seq(ToSet(s)) /\ Len(s) = Slots /\ \A i \in 1..(Slots - 1) : IsEntry(v, s[i])

\* The chains of a volume end.
ChainsEnd(v) ==
  \E left \in [DOMAIN v.next -> 0..Len(v.next)] :
    \A c \in DOMAIN v.next : v.next[c] \in DOMAIN v.next => left[v.next[c]] < left[c]

ASSUME VolumesAssumption ==
  /\ Word \in Nat \ {0} /\ ClusterSize \in Nat \ {0} /\ Slots \in Nat \ {0} /\ EndMark \in Nat
  /\ \A v \in Volumes :
       /\ v.next \in Seq(Nat) /\ Len(v.next) < EndMark
       /\ DOMAIN v.slots = DOMAIN v.next /\ ChainsEnd(v)
       /\ \A c \in DOMAIN v.slots : HasEntries(v, v.slots[c])
       /\ IF v.fat32 THEN v.root \in DOMAIN v.slots ELSE HasEntries(v, v.sector)

\* The entries of a directory, from its first one to its end.
UpToEnd(s) == SubSeq(s, 1, SelectInSeq(Append(s, Entry("end", <<>>, 0, 0)), LAMBDA e : e.kind = "end") - 1)
EntriesOf(v, c) == UpToEnd(FlattenSeq([k \in DOMAIN Chain(v, c) |-> v.slots[Chain(v, c)[k]]]))
RootEntries(v) == IF v.fat32 THEN EntriesOf(v, v.root) ELSE UpToEnd(v.sector)

\* The entries in use among s, and the long name that lies before the i-th of
\* them if there is one.  FAT stores its last part first.
InUse(s) == {i \in DOMAIN s : s[i].kind \in {"file", "dir"}}
LongName(s, i) ==
  FlattenSeq(Reverse([j \in 1..(i - 1) |->
    IF s[j].kind = "lfn" /\ \A k \in j..(i - 1) : k \notin InUse(s) THEN s[j].name ELSE <<>>]))

\* The files and directories among the entries s.
Listed(s) == {[s[i] EXCEPT !.name = IF LongName(s, i) = <<>> THEN @ ELSE LongName(s, i)] : i \in InUse(s)}

\* What the path of one name leads to, and paths below a directory with a name.
PathTo(e) == [path |-> <<e.name>>, kind |-> e.kind, cluster |-> e.cluster, size |-> e.size]
Below(name, paths) == {[x EXCEPT !.path = <<name>> \o @] : x \in paths}

\* The paths below a directory with these entries, and what they lead to.
PathsOf(listed, below) ==
  {PathTo(e) : e \in listed}
  \cup UNION {Below(e.name, below[e.cluster]) : e \in {e \in listed : e.kind = "dir"}}

PathsOn(v) ==
  LET below[c \in DOMAIN v.slots] == PathsOf(Listed(EntriesOf(v, c)), below)
  IN  PathsOf(Listed(RootEntries(v)), below)

\* The entries that the files and directories in d were, and the paths in the
\* tree of the VFS.
FileEntry(f) == Entry("file", files[f].name, fentries[files[f].id].cluster, files[f].size)
DirectoryEntry(e) == Entry("dir", directories[e].name, fentries[directories[e].id].cluster, 0)
Held(d) ==
  {FileEntry(f) : f \in ToSet(directories[d].files)}
  \cup {DirectoryEntry(e) : e \in ToSet(directories[d].dirs)}

PathsInTree ==
  LET below[d \in DOMAIN directories] ==
        {PathTo(x) : x \in Held(d)}
        \cup UNION {Below(directories[e].name, below[e]) : e \in ToSet(directories[d].dirs)}
  IN  below[Root]

\* The volumes the driver can read whole: a name takes no more than one part,
\* right before its entry; no last slot is in use, or is what ends a directory
\* whose chain goes on; and a directory does not end with its cluster unless
\* the end of the chain is marked as FAT32 does.
HasEnd(s) == \E i \in DOMAIN s : i < Slots /\ s[i].kind = "end"
Legible(v) ==
  /\ \A s \in {v.sector} \cup {v.slots[c] : c \in DOMAIN v.slots} :
       /\ s = <<>> \/ Last(s).kind \in {"end", "free"}
       /\ \A i \in DOMAIN s : s[i].kind = "lfn" => s[i + 1].kind \in {"file", "dir"}
       /\ v.fat32 \/ HasEnd(s)
  /\ \A c \in DOMAIN v.slots :
       v.next[c] \in DOMAIN v.slots /\ Last(v.slots[c]).kind = "end" => HasEnd(v.slots[c])

\* The contents of a file.
FileBytes(f) ==
  LET clusters == Chain(volume, fentries[files[f].id].cluster)
  IN  SubSeq(FlattenSeq([k \in DOMAIN clusters |-> ClusterBytes(clusters[k])]), 1, files[f].size)

=============================================================================
