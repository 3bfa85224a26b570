-------------------------------- MODULE Vfs --------------------------------
(***************************************************************************)
(* The virtual file system, kernel/kernel/drv/fs/vfs.c, over the FAT       *)
(* driver: looking up paths in the tree of a mounted volume, and the open  *)
(* files of processes, as the system calls and pload_create_process_file   *)
(* use them.  System calls run with interrupts off, so each is one step.   *)
(* The current directory of a process is left out: chdir stores the path   *)
(* that reply holds, and getcwd copies it.                                 *)
(*                                                                         *)
(* A descriptor here is the index into openfiles plus one; the system      *)
(* calls add two more, for the terminal's three.                           *)
(***************************************************************************)
EXTENDS Vfat, FiniteSets, Functions

CONSTANTS Procs,
          Paths,     \* the paths programs use: sequences of names
          Lengths,   \* the lengths they read
          MaxOpens   \* bound on the files that are opened

ASSUME ProcsAssumption == IsFiniteSet(Procs)

\* Paths are sequences, and nobody reads less than nothing.
ASSUME CallsAssumption == Lengths \subseteq Nat /\ \A path \in Paths : path \in Seq(ToSet(path))

VARIABLES
  openfiles,  \* processes[p]->openfiles
  alive,      \* p has not exited
  reply       \* the last system call and what it returned

vars == <<mountVars, openfiles, alive, reply>>

NoFile == 0
Closed == [file |-> NoFile, loc |-> 0]   \* openfiles[fd] == NULL

\* target is the file, or the directory of chdir.
Reply(call, target, loc, ret, data) ==
  [call |-> call, target |-> target, loc |-> loc, ret |-> ret, data |-> data]
Failed(call) == Reply(call, NoFile, 0, -1, <<>>)

Init ==
  /\ MountInit
  /\ openfiles = [p \in Procs |-> <<>>]
  /\ alive = [p \in Procs |-> TRUE]
  /\ reply = Failed("none")

-----------------------------------------------------------------------------
(* Looking up paths.                                                        *)

Up == <<"..">>
Here == <<".">>

\* The loop over the subdirectories of d for one name.  After a match it goes
\* on at the next index of the directory it has found.
Scan(d, name) ==
  LET scan[i \in 1..(Len(directories) + 1)] ==
        [e \in DOMAIN directories |->
           IF i > Len(directories[e].dirs) THEN e
           ELSE LET child == directories[e].dirs[i]
                IN  scan[i + 1][IF directories[child].name = name THEN child ELSE e]]
  IN  scan[1][d]

\* Faulty variant: ".." leads from the root to the root.
LookupUpAtRoot(d, name) ==
  LET e == Scan(d, name)
  IN  IF name = Up THEN IF e = Root THEN Root ELSE directories[e].parent ELSE e

\* One round of the loop of vfs_find_directory.
Lookup(d, name) ==
  LET e == Scan(d, name)
  IN  IF name = Up THEN directories[e].parent ELSE e

\* vfs_find_directory.  A name that leads nowhere is passed over unless it is
\* the last one.
FindDirectory(path) ==
  LET n == Len(path)
      walk[i \in 0..n] ==
        IF i = 0 THEN Root
        ELSE IF walk[i - 1] = NoDirectory THEN NoDirectory
        ELSE LET e == Lookup(walk[i - 1], path[i])
             IN  IF i = n /\ e = walk[i - 1] /\ path[i] # Here THEN NoDirectory ELSE e
  IN  walk[n]

\* vfs_find_file: the last of the files with that name.
FindFile(path) ==
  LET d == IF path = <<>> THEN NoDirectory ELSE FindDirectory(Front(path))
      found == IF d = NoDirectory THEN {}
               ELSE {i \in DOMAIN directories[d].files : files[directories[d].files[i]].name = Last(path)}
  IN  IF found = {} THEN NoFile ELSE directories[d].files[Max(found)]

\* Faulty variant: the names from the directory upwards.
PathUpwards(d) ==
  LET up[e \in DOMAIN directories] ==
        IF directories[e].parent = NoDirectory THEN <<>>
        ELSE <<directories[e].name>> \o up[directories[e].parent]
  IN  up[d]

\* vfs_get_path_directory.
PathOfDirectory(d) ==
  LET path[e \in DOMAIN directories] ==
        IF directories[e].parent = NoDirectory THEN <<>>
        ELSE Append(path[directories[e].parent], directories[e].name)
  IN  path[d]

-----------------------------------------------------------------------------
(* Open files.                                                              *)

Running(p) == mount = "mounted" /\ alive[p]
MayOpen == FoldFunction(LAMBDA handles, n : n + Len(handles), 0, openfiles) < MaxOpens

\* vfs_fd_is_open, and openfiles[fd] != NULL.
IsOpen(p, fd) == fd \in DOMAIN openfiles[p] /\ openfiles[p][fd] # Closed

CallFails(call) ==
  /\ reply' = Failed(call)
  /\ UNCHANGED <<mountVars, openfiles, alive>>

Count(f, n) == files' = [files EXCEPT ![f].open = @ + n]

\* Faulty variant: the first descriptor that is closed is used again.
AddHandleReused(handles, h) ==
  LET closed == {fd \in DOMAIN handles : handles[fd] = Closed}
  IN  IF closed = {} THEN Append(handles, h) ELSE [handles EXCEPT ![CHOOSE fd \in closed : TRUE] = h]

\* Descriptors are handed out in order and never again.
AddHandle(handles, h) == Append(handles, h)

Open(p, path, append) ==
  LET f == FindFile(path)
      h == [file |-> f, loc |-> IF append THEN files[f].size ELSE 0]
  IN  /\ Running(p)
      /\ MayOpen
      /\ IF f = NoFile
           THEN CallFails("open")
           ELSE /\ openfiles' = [openfiles EXCEPT ![p] = AddHandle(@, h)]
                /\ Count(f, 1)
                /\ reply' = Reply("open", f, h.loc, Len(openfiles[p]) + 1, <<>>)
                /\ UNCHANGED <<volume, mount, calls, directories, fentries, alive>>

\* Faulty variant: the stream is not counted down.
ClosedCount == 0

\* file->open-- of vfs_close.
ClosedCountDown == -1

Close(p, fd) ==
  /\ Running(p)
  /\ IF ~IsOpen(p, fd)
       THEN CallFails("close")
       ELSE /\ openfiles' = [openfiles EXCEPT ![p][fd] = Closed]
            /\ Count(openfiles[p][fd].file, ClosedCountDown)
            /\ reply' = Reply("close", openfiles[p][fd].file, 0, 0, <<>>)
            /\ UNCHANGED <<volume, mount, calls, directories, fentries, alive>>

\* loc += bytesread, also when it is the -1 of a call that failed.
Moved(loc, ret, len) == (loc + ret) % Word

Access(p, fd, len, write) ==
  LET h == openfiles[p][fd]
      result == AccessFile(write, h.file, len, h.loc)
      call == IF write THEN "write" ELSE "read"
  IN  /\ Running(p)
      /\ IF ~IsOpen(p, fd)
           THEN CallFails(call)
           ELSE /\ openfiles' = [openfiles EXCEPT ![p][fd].loc = Moved(@, result.ret, len)]
                /\ reply' = Reply(call, h.file, h.loc, result.ret, result.data)
                /\ UNCHANGED <<mountVars, alive>>

Read(p, fd, len) == Access(p, fd, len, FALSE)

\* No driver can write.
Write(p, fd, len) == Access(p, fd, len, TRUE)

\* exec: pload_create_process_file opens, reads and closes the file in the
\* name of the caller.
Exec(p, path) ==
  LET f == FindFile(path)
      result == AccessFile(FALSE, f, files[f].size, 0)
  IN  /\ Running(p)
      /\ MayOpen
      /\ IF f = NoFile
           THEN CallFails("exec")
           ELSE /\ openfiles' = [openfiles EXCEPT ![p] = Append(@, Closed)]
                /\ reply' = Reply("exec", f, 0, result.ret, result.data)
                /\ UNCHANGED <<mountVars, alive>>

Chdir(p, path) ==
  LET d == FindDirectory(path)
  IN  /\ Running(p)
      /\ IF d = NoDirectory
           THEN CallFails("chdir")
           ELSE /\ reply' = Reply("chdir", d, 0, 0, PathOfDirectory(d))
                /\ UNCHANGED <<mountVars, openfiles, alive>>

\* The process exits; nobody closes its files.
Exit(p) ==
  /\ Running(p)
  /\ alive' = [alive EXCEPT ![p] = FALSE]
  /\ reply' = Reply("exit", NoFile, 0, 0, <<>>)
  /\ UNCHANGED <<mountVars, openfiles>>

-----------------------------------------------------------------------------

Mounting == MountStep /\ UNCHANGED <<openfiles, alive, reply>>

Next ==
  \/ Mounting
  \/ \E p \in Procs :
       \/ \E path \in Paths :
            \/ \E append \in BOOLEAN : Open(p, path, append)
            \/ Exec(p, path) \/ Chdir(p, path)
       \/ \E fd \in 1..(MaxOpens + 1) :
            \/ Close(p, fd)
            \/ \E len \in Lengths : Read(p, fd, len) \/ Write(p, fd, len)
       \/ Exit(p)

\* kernel_mount_system_volume runs before there is any other thread.
Spec == Init /\ [][Next]_vars /\ WF_vars(Mounting)

-----------------------------------------------------------------------------
(* Properties.                                                              *)

Handles == [file : Nat, loc : 0..(Word - 1)]

\* Every variable has its type; the directories of the tree are complete.
TypeOK ==
  /\ volume \in Volumes
  /\ mount \in {"reading", "lost", "mounted"}
  /\ \A d \in DOMAIN directories :
       /\ directories[d].parent \in 0..(d - 1)
       /\ ToSet(directories[d].dirs) \subseteq (d + 1)..Len(directories)
       /\ ToSet(directories[d].files) \subseteq DOMAIN files
  /\ \A f \in DOMAIN files : files[f].id \in DOMAIN fentries /\ files[f].parent \in DOMAIN directories
  /\ \A p \in Procs : \A fd \in DOMAIN openfiles[p] :
       openfiles[p][fd] \in Handles /\ openfiles[p][fd].file \in {NoFile} \cup DOMAIN files
  /\ alive \in [Procs -> BOOLEAN]

MountCompletes == mount = "reading" /\ mount' = "mounted"

\* The tree a mount leaves behind is the tree on the disk: all paths of the
\* volume lead to the files and directories they lead to there, although the
\* driver reads directories recursively while it builds their parents, and
\* shares one array of entries between them (vfat_read_directory).
TreeIsVolume ==
  [][MountCompletes /\ Legible(volume) => PathsInTree' = PathsOn(volume)]_vars

\* A directory lies in one of the same name, behind it in the list: the loop
\* of vfs_find_directory, which goes on in the directory it has found, finds both.
FoundTwice ==
  \E d \in DOMAIN directories :
    \E i \in DOMAIN directories[d].dirs :
      LET child == directories[d].dirs[i]
      IN  \E j \in DOMAIN directories[child].dirs :
            j > i /\ directories[directories[child].dirs[j]].name = directories[child].name

\* No two directories and no two files of a directory have the same name.
NamesDiffer ==
  /\ \A d, e \in DOMAIN directories :
       directories[d].parent = directories[e].parent /\ directories[d].name = directories[e].name => d = e
  /\ \A f, g \in DOMAIN files : files[f].parent = files[g].parent /\ files[f].name = files[g].name => f = g

\* The directories with a name in d, and where the first names of a path lead,
\* each taken as what it says.
NamedIn(d, name) == {e \in DOMAIN directories : directories[e].parent = d /\ directories[e].name = name}
Meant(path) ==
  LET meant[i \in 0..Len(path)] ==
        IF i = 0 THEN Root
        ELSE IF meant[i - 1] = NoDirectory \/ path[i] = Here THEN meant[i - 1]
        ELSE IF path[i] = Up THEN directories[meant[i - 1]].parent
        ELSE IF NamedIn(meant[i - 1], path[i]) = {} THEN NoDirectory
        ELSE CHOOSE e \in NamedIn(meant[i - 1], path[i]) : TRUE
  IN  meant

\* A name that leads nowhere with more names behind it, which the code passes over.
PassesOver(path) ==
  \E k \in 1..(Len(path) - 1) :
    LET d == Meant(path)[k - 1]
    IN  d # NoDirectory /\ path[k] \notin {Up, Here} /\ NamedIn(d, path[k]) = {}

\* Looking up a path whose directories but the last exist yields the directory
\* and the file it means, or nothing if there is none; ".." of the root is
\* nothing, wherever it stands (vfs_find_directory, vfs_find_file).
LookupIsExact ==
  ~FoundTwice /\ NamesDiffer =>
    LET names == {Up, Here} \cup {directories[d].name : d \in DOMAIN directories \ {Root}}
                 \cup {files[f].name : f \in DOMAIN files}
    IN  \A path \in UNION {[1..n -> names] : n \in 0..3} :
          ~PassesOver(path) =>
            LET n == Len(path)
                there == IF n = 0 THEN NoDirectory ELSE Meant(path)[n - 1]
            IN  /\ FindDirectory(path) = Meant(path)[n]
                /\ {FindFile(path)} \ {NoFile} =
                     {f \in DOMAIN files : files[f].parent = there /\ files[f].name = Last(path)}
LookupExact == [][MountCompletes => LookupIsExact']_vars

\* The path that chdir stores for a directory leads back to it
\* (vfs_get_path_directory against vfs_find_directory).
PathLeadsBack ==
  (reply.call = "chdir" /\ reply.ret = 0 /\ ~FoundTwice) => FindDirectory(reply.data) = reply.target

\* The handles, closed or not, each a process and a descriptor, and those of a file.
AllHandles == UNION {{p} \X DOMAIN openfiles[p] : p \in Procs}
HandlesOf(f) == {h \in AllHandles : openfiles[h[1]][h[2]].file = f}

\* The count of open handles of a file is right in any order of opens, closes,
\* execs and exits; the handles of dead processes are still counted, since
\* nobody closes them (vfs_open, vfs_close, pload_create_process_file).
OpenCounts == \A f \in DOMAIN files : files[f].open = Cardinality(HandlesOf(f))

ReadingReplies == {"read", "exec"}

\* A read that starts inside the file and does not reach over the clusters it
\* has read returns the bytes of the file at its position (vfat_accessfile).
ReadReturnsFile ==
  LET end == reply.loc + reply.ret
  IN  (/\ reply.call \in ReadingReplies
       /\ reply.ret > 0
       /\ end <= files[reply.target].size
       /\ (reply.loc % ClusterSize) + reply.ret <= Clustered(reply.ret) * ClusterSize)
        => reply.data = SubSeq(FileBytes(reply.target), reply.loc + 1, end)

\* A descriptor never means another file than it did when it was handed out,
\* whatever is closed and opened meanwhile (vfs_open).
DescriptorsStable ==
  [][\A p \in Procs : \A fd \in DOMAIN openfiles[p] :
       /\ fd \in DOMAIN openfiles'[p]
       /\ openfiles'[p][fd].file \in {openfiles[p][fd].file, NoFile}]_vars

\* Mounting a volume that the driver can read ends (vfat_read_directory).
MountEnds == Legible(volume) => <>(mount = "mounted")

=============================================================================
