------------------------------- MODULE MCBoot -------------------------------
(* An instance of Boot: discs of eight sectors, sectors of three units.      *)
EXTENDS Boot

Pvd(root, table) == [kind |-> "pvd", root |-> [loc |-> root, size |-> 1], table |-> [loc |-> table]]
Table(entries) == [kind |-> "table", entries |-> entries]
Dir(records) == [kind |-> "dir", records |-> records]
Data(units) == [kind |-> "data", units |-> units]
Entry(name, parent) == [name |-> name, parent |-> parent]
SubDir(name, loc, size) == [name |-> name, dir |-> TRUE, loc |-> loc, size |-> size]
File(name, loc, size) == [name |-> name, dir |-> FALSE, loc |-> loc, size |-> size]

Zero == Data(<<"z", "z", "z">>)

\* a and a/b, whose records fill two sectors; a file of the same name in two
\* directories; boot.img in two sectors.
Good ==
  (0 :> Zero) @@ (PvdSector :> Pvd(18, 17)) @@
  (17 :> Table(<<Entry("", 1), Entry("a", 1), Entry("c", 1), Entry("b", 2)>>)) @@
  (18 :> Dir(<<SubDir("a", 19, 1), File("boot.img", 23, 5), SubDir("c", 22, 1)>>)) @@
  (19 :> Dir(<<File("x", 25, 2), SubDir("b", 20, 2)>>)) @@
  (20 :> Dir(<<File("x", 23, 1)>>)) @@ (21 :> Dir(<<File("y", 24, 2)>>)) @@
  (22 :> Dir(<<>>)) @@
  (23 :> Data(<<"fat", "p", "q">>)) @@ (24 :> Data(<<"r", "s", "z">>)) @@ (25 :> Data(<<"t", "u", "z">>))

\* No boot.img.
Bare ==
  (0 :> Zero) @@ (PvdSector :> Pvd(18, 17)) @@ (17 :> Table(<<Entry("", 1)>>)) @@
  (18 :> Dir(<<File("x", 19, 1)>>)) @@ (19 :> Data(<<"t", "z", "z">>))

\* An image that is no FAT volume.
Other ==
  (0 :> Zero) @@ (PvdSector :> Pvd(18, 17)) @@ (17 :> Table(<<Entry("", 1)>>)) @@
  (18 :> Dir(<<File("boot.img", 19, 2)>>)) @@ (19 :> Data(<<"t", "z", "z">>))

\* An audio disc.
Audio == (0 :> Zero) @@ (PvdSector :> Zero)

None == [kind |-> "none", medium |-> NoDisc]
Disk == [kind |-> "ata", medium |-> NoDisc]
Cd(medium) == [kind |-> "atapi", medium |-> medium]
Machine(d0, d1, d2, d3) == (0 :> d0) @@ (1 :> d1) @@ (2 :> d2) @@ (3 :> d3)

MCMachines ==
  {Machine(Disk, None, Cd(disc), None) : disc \in {Good, Bare, Other, Audio, NoDisc}} \cup
  {Machine(Cd(Good), Cd(NoDisc), None, None), Machine([Disk EXCEPT !.kind = "sata"], None, None, None),
   Machine(None, None, None, [Disk EXCEPT !.kind = "satapi"])}

MCCmdLines == {NoInformation, CD, 2}

=============================================================================
