------------------------------- MODULE MCVfs -------------------------------
(* An instance of Vfs: six small volumes and two processes.                 *)
EXTENDS Vfs

End == Entry("end", <<>>, 0, 0)
Free == Entry("free", <<>>, 0, 0)
Dot == Entry("dot", <<>>, 0, 0)
Long(part) == Entry("lfn", <<part>>, 0, 0)
Dir(name, cluster) == Entry("dir", <<name>>, cluster, 0)
File(name, cluster, size) == Entry("file", <<name>>, cluster, size)
\* The entries of a cluster, up to its last slot.
Slotted(entries) == entries \o [k \in 1..(Slots - Len(entries)) |-> End]
NoEntries == Slotted(<<>>)

\* The end of a chain on FAT16 and FAT32.
End16 == 65535
End32 == 268435455

\* FAT16: a tree of three levels, a long name, a file in two clusters that are
\* out of order.
Nested ==
  [fat32 |-> FALSE, root |-> 0,
   sector |-> Slotted(<<File("f", 6, 3), Long("long"), Dir("a", 2)>>),
   next |-> <<0, End16, End16, End16, End16, 4>>,
   slots |-> <<NoEntries, Slotted(<<Dot, Dot, Dir("b", 3)>>),
               Slotted(<<Dot, Dot, File("g", 5, 2)>>), NoEntries, NoEntries, NoEntries>>]

\* FAT32: a root directory of two clusters, one that fills its cluster, a
\* directory in one of the same name.
Chained ==
  [fat32 |-> TRUE, root |-> 2,
   sector |-> <<>>,
   next |-> <<0, 4, End32, End32, 6, End32>>,
   slots |-> <<Slotted(<<Dot, Dot>>), <<Dir("a", 3), Free, Long("long"), File("f", 5, 4), Free, Free>>,
               <<Dot, Dot, Dir("a", 1), File("g", 0, 0), Free, Free>>,
               Slotted(<<Free, File("g", 6, 1)>>), NoEntries, NoEntries>>]

\* A path that vfs_find_directory follows too far: a is also a/a.
Twice ==
  [fat32 |-> FALSE, root |-> 0,
   sector |-> Slotted(<<Dir("a", 1)>>),
   next |-> <<End16, End16, End16>>,
   slots |-> <<Slotted(<<Dot, Dot, Dir("b", 2), Dir("a", 3)>>), Slotted(<<Dot, Dot>>),
               Slotted(<<Dot, Dot>>)>>]

\* A root sector that is full, and a long name of two parts.
Full ==
  [fat32 |-> FALSE, root |-> 0,
   sector |-> <<File("f", 1, 2), Long("me"), Long("na"), File("g", 1, 1), Free, File("h", 1, 1)>>,
   next |-> <<End16>>,
   slots |-> <<NoEntries>>]

\* FAT16: a directory that ends with its cluster.
NoEnd ==
  [fat32 |-> FALSE, root |-> 0,
   sector |-> Slotted(<<Dir("a", 1)>>),
   next |-> <<End16>>,
   slots |-> <<<<Dot, Dot, Free, Free, Free, Free>>>>]

\* A name with more parts than lfnbuf holds.
TooLong ==
  [fat32 |-> TRUE, root |-> 1,
   sector |-> <<>>,
   next |-> <<End32>>,
   slots |-> <<Slotted(<<Long("me"), Long("na"), Long("a"), File("f", 0, 0)>>)>>]

MCVolumes == {Nested, Chained, Twice, Full, NoEnd, TooLong}
MCPaths == {<<<<"f">>>>, <<<<"a">>, <<"g">>>>, <<<<"long">>, <<"b">>, <<"..">>>>, <<<<"a">>, <<"a">>>>,
            <<<<"long">>, <<"b">>, <<"g">>>>, <<<<"long">>, <<"b">>>>}

=============================================================================
