-------------------------------- MODULE RamFS --------------------------------
(***************************************************************************)
(* The in-memory file system of ShompOS and its file descriptors: ramfs.c, *)
(* and the shell commands of ramfs_executables.c that change it.           *)
(*                                                                         *)
(* A string of path characters is the sequence of what stands between its  *)
(* slashes: "/a/b" is <<"", "a", "b">>, "f" is <<"f">>, and "" is <<"">>.  *)
(* The name of a file or directory is such a string too, because nothing   *)
(* keeps a slash out of it.  Directories and files are named by their      *)
(* addresses, small numbers here.  A call is one step: a call that returns *)
(* early without an effect, and a void command that prints a complaint,    *)
(* are stuttering steps.  As elsewhere, a comment that begins with         *)
(* "Mutant" marks an operator that is not the code.                        *)
(***************************************************************************)
EXTENDS Integers, Sequences, SequencesExt, FiniteSetsExt

CONSTANTS
    MaxFds,      \* MAX_FDS
    MaxData,     \* the largest size of a data buffer that allocate grants
    MaxFiles,    \* the most entries of a files array that allocate grants
    MaxSubdirs,  \* the same for a subdirs array
    SizeMod,     \* 2 to the width of size_t
    DirIds,      \* bound: the directories that may ever exist, the root is 0
    FileIds,     \* bound: the files that may exist at a time
    MaxLost,     \* bound on the blocks lost
    MaxPosition, \* bound on file positions
    UsedFds,     \* bound: the descriptors that are read, written, moved, closed
    Names,       \* the arguments of touch, mkdir and rm
    Paths,       \* the arguments of cd and open
    FlagSets,    \* the flags callers open with
    Texts,       \* what callers write
    Counts,      \* how much callers read
    Offsets      \* the offsets callers seek by

\* The bits of the flags.
ReadBit == 1
WriteBit == 2
AppendBit == 4
O_RDONLY == {ReadBit}
O_WRONLY == {WriteBit}
O_RDWR == {ReadBit, WriteBit}
O_APPEND == {AppendBit}

Fds == 0..MaxFds - 1
STDIN_FILENO == 0
STDOUT_FILENO == 1
STDERR_FILENO == 2
Root == 0
Origins == {"SEEK_SET", "SEEK_CUR", "SEEK_END", "unknown"}

ASSUME TableAssumption == MaxFds \in Nat /\ MaxFds > 3
ASSUME HeapAssumption ==
    /\ MaxData \in Nat \ {0} /\ MaxFiles \in Nat /\ MaxFiles >= 4 /\ MaxSubdirs \in Nat
    /\ SizeMod \in Nat /\ SizeMod > 2 * MaxPosition /\ SizeMod > 2 * MaxData
ASSUME BoundAssumption ==
    /\ Root \in DirIds /\ DirIds \subseteq Nat /\ 1..4 \subseteq FileIds
    /\ FileIds \subseteq Nat \ {0} /\ MaxLost \in Nat
    /\ MaxPosition \in Nat /\ MaxData <= MaxPosition
ASSUME InputAssumption ==
    /\ UsedFds \subseteq Fds
    /\ Names \subseteq Seq(STRING) /\ Paths \subseteq Seq(STRING)
    /\ FlagSets \subseteq SUBSET {ReadBit, WriteBit, AppendBit}
    /\ Texts \subseteq Seq(STRING) /\ Counts \subseteq Nat
    /\ Offsets \subseteq Int

VARIABLES
    dir,          \* the directories: name, parent, files and subdirs in order
    file,         \* the files: name and data
    fd_table,     \* the open descriptors: file, position and flags, or NULL
    fd_count,
    current_dir,
    held,         \* ghost: the heap blocks allocated and not freed
    lost,         \* ghost: those of them the code has let go of
    ret           \* the last descriptor call and what it returned

vars == <<dir, file, fd_table, fd_count, current_dir, held, lost, ret>>
tree == <<dir, file, current_dir>>

NULL == [file |-> 0, position |-> 0, flags |-> {}]
Nul == "\\0"     \* the byte that ends a string
Junk == "junk"   \* a byte of fresh heap memory nobody has written
Returns(op, x) == ret' = [op |-> op, val |-> x]

IsOpen(fd) == fd_table[fd] # NULL
OpenFds == {fd \in Fds : IsOpen(fd)}
OpenFiles == {fd_table[fd].file : fd \in OpenFds}

-----------------------------------------------------------------------------
(* Directories.                                                            *)

\* The first entry of a directory array with that name; 0 if there is none.
Find(ids, table, name) == SelectInSeq(ids, LAMBDA x : table[x].name = name)

\* Blocks of a file, of a directory, and of its two arrays.
FileBlocks == 3
DirBlocks == 2
ArrayBlocks(ids) == IF ids = <<>> THEN 0 ELSE 1

\* Mutant: the data buffer is forgotten.
UndoneButData == 2

\* What ramfs_create_file frees when the files array cannot grow.
Undone == 3

\* ramfs_create_file(d, name, data) on a name the caller has not found.
ramfs_create_file(d, name, data) ==
    IF Len(dir[d].files) < MaxFiles
    THEN /\ FileIds \ DOMAIN file # {}
         /\ LET f == Min(FileIds \ DOMAIN file)
            IN /\ file' = [g \in DOMAIN file \cup {f} |->
                             IF g = f THEN [name |-> name, data |-> data] ELSE file[g]]
               /\ dir' = [dir EXCEPT ![d].files = Append(@, f)]
         /\ held' = held + FileBlocks + 1 - ArrayBlocks(dir[d].files)
    ELSE /\ held' = held + FileBlocks - Undone
         /\ UNCHANGED <<dir, file>>

\* Mutant: the last file is not looked at.
IsNewButLast(d, name) ==
    Find(SubSeq(dir[d].files, 1, Len(dir[d].files) - 1), file, name) = 0

\* The loop that looks for the name among the files.
IsNewFile(d, name) == Find(dir[d].files, file, name) = 0

\* The shell's touch: a file of one byte, the NUL of "".
touch(name) ==
    /\ name # <<"">>
    /\ IsNewFile(current_dir, name)
    /\ ramfs_create_file(current_dir, name, <<Nul>>)
    /\ UNCHANGED <<fd_table, fd_count, current_dir, lost, ret>>

\* The shell's mkdir with ramfs_create_dir.  When the subdirs array cannot
\* grow, only the structure is freed and the copy of the name is lost.
mkdir(name) ==
    /\ Find(dir[current_dir].subdirs, dir, name) = 0
    /\ IF Len(dir[current_dir].subdirs) < MaxSubdirs
       THEN /\ DirIds \ DOMAIN dir # {}
            /\ LET d == Min(DirIds \ DOMAIN dir)
                   new == [name |-> name, parent |-> current_dir,
                           files |-> <<>>, subdirs |-> <<>>]
               IN dir' = [e \in DOMAIN dir \cup {d} |->
                            IF e = d THEN new
                            ELSE IF e # current_dir THEN dir[e]
                            ELSE [dir[e] EXCEPT !.subdirs = Append(@, d)]]
            /\ held' = held + DirBlocks + 1 - ArrayBlocks(dir[current_dir].subdirs)
            /\ UNCHANGED lost
       ELSE /\ lost < MaxLost
            /\ held' = held + 1
            /\ lost' = lost + 1
            /\ UNCHANGED dir
    /\ UNCHANGED <<file, fd_table, fd_count, current_dir, ret>>

\* Mutant: the entries are shifted from one place too far.
ShiftLate(ids, i) == IF i + 1 \in DOMAIN ids THEN RemoveAt(ids, i + 1) ELSE Front(ids)

\* The files array after the entry at index i is shifted out.
Shifted(ids, i) == RemoveAt(ids, i)

\* The shell's rm with ramfs_delete_file, which does not ask whether the file
\* is open.  The new array is no larger than the old one, so allocate grants it.
rm(name) ==
    LET ids == dir[current_dir].files
        i == Find(ids, file, name)
    IN /\ i # 0
       /\ file' = [f \in DOMAIN file \ {ids[i]} |-> file[f]]
       /\ dir' = [dir EXCEPT ![current_dir].files = Shifted(@, i)]
       /\ held' = held - FileBlocks - 1 + ArrayBlocks(Tail(ids))
       /\ UNCHANGED <<fd_table, fd_count, current_dir, lost, ret>>

None == -1

\* strtok(path, "/"): the tokens are what stands between runs of slashes.
IsToken(part) == part # ""

\* The subdirectory of d that ramfs_find_dir goes on to.
Step(d, part) ==
    IF d = None \/ ~IsToken(part) THEN d
    ELSE LET i == Find(dir[d].subdirs, dir, <<part>>)
         IN IF i = 0 THEN None ELSE dir[d].subdirs[i]

\* The directory that a path leads to from the root.
ramfs_find_dir(path) ==
    LET after[n \in 0..Len(path)] ==
            IF n = 0 THEN Root ELSE Step(after[n - 1], path[n])
    IN  after[Len(path)]

\* The shell's cd.  Paths start at the root, whatever current_dir is.
cd(path) ==
    /\ ramfs_find_dir(path) # None
    /\ current_dir' = ramfs_find_dir(path)
    /\ UNCHANGED <<dir, file, fd_table, fd_count, held, lost, ret>>

-----------------------------------------------------------------------------
(* Descriptors.                                                            *)

\* The directory and the file name that ramfs_open takes a path apart into:
\* they are split at the first slash.
DirPart(path) == IF Len(path) = 1 THEN <<"">> ELSE <<path[1]>>

\* Mutant: the name starts at the slash.
NameFromSlash(path) == IF Len(path) = 1 THEN path ELSE <<"">> \o Tail(path)

NamePart(path) == IF Len(path) = 1 THEN path ELSE Tail(path)

\* The file ramfs_open finds; 0 if there is none.
Lookup(path) ==
    LET d == ramfs_find_dir(DirPart(path))
        i == IF d = None THEN 0 ELSE Find(dir[d].files, file, NamePart(path))
    IN IF i = 0 THEN 0 ELSE dir[d].files[i]

Devices == {"stdin", "stdout", "stderr"}
IsDevice(path) == \E name \in Devices : path = <<"", "dev", name>>
DeviceFd(path) ==
    CASE path[3] = "stdin" -> STDIN_FILENO
      [] path[3] = "stdout" -> STDOUT_FILENO
      [] path[3] = "stderr" -> STDERR_FILENO

\* Mutant: a full table gives its last slot away.
LastIfFull == IF Fds = OpenFds THEN {MaxFds - 1} ELSE Fds \ OpenFds

\* The slots of fd_table that are NULL.
FreeFds == Fds \ OpenFds

ramfs_open(path, flags) ==
    /\ path # <<"">>
    /\ IF IsDevice(path) THEN /\ Returns("open", DeviceFd(path))
                              /\ UNCHANGED <<fd_table, fd_count, held>>
       ELSE IF Lookup(path) = 0 \/ FreeFds = {}
       THEN /\ Returns("open", -1)
            /\ UNCHANGED <<fd_table, fd_count, held>>
       ELSE LET fd == Min(FreeFds)
            IN /\ fd_table' = [fd_table EXCEPT ![fd] =
                     [file |-> Lookup(path), position |-> 0, flags |-> flags]]
               /\ fd_count' = fd_count + 1
               /\ held' = held + 1
               /\ Returns("open", fd)
    /\ UNCHANGED <<tree, lost>>

\* flags & O_RDONLY or flags & O_RDWR; O_RDWR has the bits of O_WRONLY.
Readable(flags) == flags \cap O_RDONLY # {} \/ flags \cap O_RDWR # {}

\* flags & (O_WRONLY | O_RDWR).
Writable(flags) == flags \cap (O_WRONLY \cup O_RDWR) # {}

\* A call that follows the pointer of a descriptor to a file that rm has freed
\* reads memory that is not its own: what it does is undefined and not
\* modelled, until another file is created at that address.
FileIsThere(fd) == IsOpen(fd) /\ fd_table[fd].file \in DOMAIN file

\* Mutant: the position is not taken into account.
AvailableFromStart(size, position) == size

\* How much is left from a position on, computed in size_t.
Available(size, position) == (size - position) % SizeMod

\* ramfs_read(fd, buf, count).  On stdin it polls the keyboard and returns -1.
ramfs_read(fd, count) ==
    /\ IsOpen(fd)
    /\ LET e == fd_table[fd]
           available == Available(Len(file[e.file].data), e.position)
           bytes_to_read == Min({count, available})
       IN IF fd = STDIN_FILENO \/ ~Readable(e.flags)
          THEN Returns("read", -1) /\ UNCHANGED fd_table
          ELSE /\ FileIsThere(fd)
               /\ e.position + bytes_to_read <= MaxPosition
               /\ fd_table' = [fd_table EXCEPT ![fd].position = @ + bytes_to_read]
               /\ Returns("read", bytes_to_read)
    /\ UNCHANGED <<tree, fd_count, held, lost>>

\* Mutant: the new buffer does not get the old contents.
Fresh(data, start, text) ==
    [i \in 1..Max({Len(data), start + Len(text)}) |->
        IF i \in start + 1 .. start + Len(text) THEN text[i - start] ELSE Junk]

\* The contents after text is put at start: a larger buffer if it does not
\* fit, whose bytes between the old end and start nobody writes.
Overwritten(data, start, text) ==
    [i \in 1..Max({Len(data), start + Len(text)}) |->
        IF i \in start + 1 .. start + Len(text) THEN text[i - start]
        ELSE IF i <= Len(data) THEN data[i] ELSE Junk]

\* Mutant: O_APPEND is ignored.
StartAtPosition(e) == e.position

\* Where a write starts.
StartOf(e) == IF AppendBit \in e.flags THEN Len(file[e.file].data) ELSE e.position

\* Mutant: a buffer for what is written, not for what it is appended to.
TextFits(start, text) == Len(text) <= MaxData

\* allocate(new_size) succeeds.
CanGrow(start, text) == start + Len(text) <= MaxData

ramfs_write(fd, text) ==
    /\ IsOpen(fd)
    /\ LET e == fd_table[fd]
           data == file[e.file].data
           start == StartOf(e)
           new_size == start + Len(text)
       IN IF fd \in {STDOUT_FILENO, STDERR_FILENO}
          THEN Returns("write", Len(text)) /\ UNCHANGED <<file, fd_table>>
          ELSE IF ~Writable(e.flags)
          THEN Returns("write", -1) /\ UNCHANGED <<file, fd_table>>
          ELSE /\ FileIsThere(fd)
               /\ IF new_size > Len(data) /\ ~CanGrow(start, text)
                  THEN /\ fd_table' = [fd_table EXCEPT ![fd].position = start]
                       /\ Returns("write", -1) /\ UNCHANGED file
                  ELSE /\ file' = [file EXCEPT ![e.file].data = Overwritten(@, start, text)]
                       /\ fd_table' = [fd_table EXCEPT ![fd].position = new_size]
                       /\ Returns("write", Len(text))
    /\ UNCHANGED <<dir, current_dir, fd_count, held, lost>>

\* Only SEEK_END looks at the file; an unknown origin is an error.
ramfs_seek(fd, offset, origin) ==
    /\ IsOpen(fd) /\ (origin = "SEEK_END" => FileIsThere(fd))
    /\ LET new_position ==
             CASE origin = "SEEK_SET" -> offset
               [] origin = "SEEK_CUR" -> fd_table[fd].position + offset
               [] origin = "SEEK_END" -> Len(file[fd_table[fd].file].data) + offset
               [] OTHER -> -1
       IN IF new_position < 0 THEN Returns("seek", -1) /\ UNCHANGED fd_table
          ELSE /\ new_position <= MaxPosition
               /\ fd_table' = [fd_table EXCEPT ![fd].position = new_position]
               /\ Returns("seek", new_position)
    /\ UNCHANGED <<tree, fd_count, held, lost>>

\* free is given the address of the local variable, not the entry: it finds
\* no block there, so the entry stays allocated with nothing pointing to it.
ramfs_close(fd) ==
    /\ IsOpen(fd) /\ lost < MaxLost
    /\ fd_table' = [fd_table EXCEPT ![fd] = NULL]
    /\ fd_count' = fd_count - 1
    /\ lost' = lost + 1
    /\ Returns("close", 0)
    /\ UNCHANGED <<tree, held>>

-----------------------------------------------------------------------------
(* Printing where we are.                                                  *)

\* The directories from the root down to d, without the root.
Ancestry[d \in DOMAIN dir] == IF d = Root THEN <<>> ELSE Append(Ancestry[dir[d].parent], d)

\* Mutant: the names are laid out from the start of the buffer.
PathUp(d) ==
    FlattenSeq([i \in DOMAIN Ancestry[d] |-> dir[Reverse(Ancestry[d])[i]].name])

\* Their names, with the slashes between them.
PathOf(d) == FlattenSeq([i \in DOMAIN Ancestry[d] |-> dir[Ancestry[d][i]].name])

\* What ramfs_pwd prints.  The length of its buffer (ramfs_executables.c:16-27)
\* is not computed here: that it is one byte more than the path laid out from
\* its end, and the first byte printed so whatever the heap had there, is read
\* from the code and taken for granted, as is that the slash of the first name
\* follows the root's own.
ramfs_pwd(d) == <<Junk, "">> \o PathOf(d)

-----------------------------------------------------------------------------
\* As init_fs and init_stdio leave it, for an empty mnt: the welcome message
\* written to FD-test, appended and read back, is one byte here.
Init ==
    /\ dir = [d \in {Root} |-> [name |-> <<"", "">>, parent |-> None,
                                files |-> <<1, 2, 3, 4>>, subdirs |-> <<>>]]
    /\ file = <<[name |-> <<"stdin">>, data |-> <<>>],
                [name |-> <<"stdout">>, data |-> <<>>],
                [name |-> <<"stderr">>, data |-> <<>>],
                [name |-> <<"FD-test">>, data |-> <<"W">>]>>
    /\ fd_table = [fd \in Fds |->
         CASE fd = 0 -> [file |-> 1, position |-> 0, flags |-> O_RDWR \cup O_APPEND]
           [] fd = 1 -> [file |-> 2, position |-> 0, flags |-> O_WRONLY]
           [] fd = 2 -> [file |-> 3, position |-> 0, flags |-> O_WRONLY]
           [] fd = 3 -> [file |-> 4, position |-> 1, flags |-> O_RDWR \cup O_APPEND]
           [] OTHER -> NULL]
    /\ fd_count = 4
    /\ current_dir = Root
    /\ held = DirBlocks + 1 + 4 * FileBlocks + 4
    /\ lost = 0
    /\ ret = [op |-> "init_stdio", val |-> 0]

Shell ==
    \/ \E name \in Names : touch(name) \/ mkdir(name) \/ rm(name)
    \/ \E path \in Paths : cd(path)

Descriptor ==
    \/ \E path \in Paths, flags \in FlagSets : ramfs_open(path, flags)
    \/ \E fd \in UsedFds :
         \/ \E count \in Counts : ramfs_read(fd, count)
         \/ \E text \in Texts : ramfs_write(fd, text)
         \/ \E offset \in Offsets, origin \in Origins : ramfs_seek(fd, offset, origin)
         \/ ramfs_close(fd)

Next == Shell \/ Descriptor

Spec == Init /\ [][Next]_vars

-----------------------------------------------------------------------------
(* Properties.                                                             *)

\* Directories, files and descriptors have the fields ramfs.h declares, and
\* no data buffer is larger than the heap can grant (78, 371).
TypeOK ==
    /\ DOMAIN dir \subseteq DirIds /\ DOMAIN file \subseteq FileIds
    /\ \A d \in DOMAIN dir :
         /\ dir[d].parent \in DOMAIN dir \cup {None}
         /\ dir[d].files \in Seq(FileIds) /\ Len(dir[d].files) <= MaxFiles
         /\ dir[d].subdirs \in Seq(DirIds) /\ Len(dir[d].subdirs) <= MaxSubdirs
    /\ \A f \in DOMAIN file : Len(file[f].data) <= MaxData
    /\ \A fd \in Fds :
         /\ fd_table[fd].file \in FileIds \cup {0}
         /\ fd_table[fd].position \in 0..MaxPosition
    /\ fd_count \in 0..MaxFds /\ current_dir \in DOMAIN dir
    /\ held \in Nat /\ lost \in 0..MaxLost

\* The entries <<d, i>> of all files arrays, and of all subdirs arrays.
FileEntries == UNION {{d} \X DOMAIN dir[d].files : d \in DOMAIN dir}
SubdirEntries == UNION {{d} \X DOMAIN dir[d].subdirs : d \in DOMAIN dir}
FileAt(e) == dir[e[1]].files[e[2]]
SubdirAt(e) == dir[e[1]].subdirs[e[2]]

\* The directories are a tree with parent pointers that agree, every file
\* hangs from it at exactly one place, and it has no pointer to a file that
\* was freed: what the array surgery of ramfs_create_dir, ramfs_create_file
\* and ramfs_delete_file (ramfs.c:42-58, 86-100, 132-154) must preserve.
Tree ==
    /\ {FileAt(e) : e \in FileEntries} = DOMAIN file
    /\ \A e, f \in FileEntries : FileAt(e) = FileAt(f) => e = f
    /\ {SubdirAt(e) : e \in SubdirEntries} = DOMAIN dir \ {Root}
    /\ \A e, f \in SubdirEntries : SubdirAt(e) = SubdirAt(f) => e = f
    /\ \A e \in SubdirEntries : dir[SubdirAt(e)].parent = e[1]
    /\ \A D \in SUBSET DOMAIN dir :
         (Root \in D /\ \A d \in D : ToSet(dir[d].subdirs) \subseteq D) => D = DOMAIN dir

\* No two files and no two subdirectories of a directory have one name, so
\* that the first match of every lookup is the only one (ramfs_executables.c
\* 51-58, 160-165).
NamesUnique ==
    \A d \in DOMAIN dir :
        /\ \A i, j \in DOMAIN dir[d].files :
             file[dir[d].files[i]].name = file[dir[d].files[j]].name => i = j
        /\ \A i, j \in DOMAIN dir[d].subdirs :
             dir[dir[d].subdirs[i]].name = dir[dir[d].subdirs[j]].name => i = j

\* The blocks that the tree and the descriptors point to.
Owned ==
    FileBlocks * Cardinality(DOMAIN file) + Cardinality(OpenFds)
    + DirBlocks * Cardinality(DOMAIN dir)
    + Cardinality({d \in DOMAIN dir : dir[d].files # <<>>})
    + Cardinality({d \in DOMAIN dir : dir[d].subdirs # <<>>})

\* No path through a call frees a block twice or forgets one, error paths
\* included, apart from the two places counted in lost (ramfs.c:43-47, 436);
\* and fd_count is the number of open descriptors.
BlocksBalanced == held = Owned + lost /\ fd_count = Cardinality(OpenFds)

\* A path that stays at its place: no component is empty or has a slash.
Plain(name) == Len(name) = 1 /\ name # <<"">>

\* A file of the root or of a directory in it is what ramfs_open finds under
\* its path, with and without a leading slash for the root (ramfs.c:246-271).
OpenResolves ==
    \A d \in DOMAIN dir : \A i \in DOMAIN dir[d].files :
        LET f == dir[d].files[i]
            name == file[f].name
        IN Plain(name) =>
             /\ d = Root => Lookup(name) = f /\ Lookup(<<"">> \o name) = f
             /\ (dir[d].parent = Root /\ Plain(dir[d].name)) =>
                    Lookup(dir[d].name \o name) = f

\* No name on the path to d would be split by a search for it.
PlainTo(d) == \A i \in DOMAIN Ancestry[d] : Plain(dir[Ancestry[d][i]].name)

\* What pwd prints leads cd back to the directory, but for its first byte:
\* the parent pointers that pwd follows up and the arrays that cd follows
\* down describe one tree (ramfs_executables.c:29-39, ramfs.c:175-193).
PwdLeadsBack ==
    \A d \in DOMAIN dir : PlainTo(d) => ramfs_find_dir(Tail(ramfs_pwd(d))) = d

\* A descriptor refers to one file with one set of flags until it is closed,
\* whatever is opened, removed or closed around it (ramfs.c:278-285).
DescriptorStable ==
    [][\A fd \in OpenFds :
          \/ fd_table'[fd] = NULL
          \/ /\ fd_table'[fd].file = fd_table[fd].file
             /\ fd_table'[fd].flags = fd_table[fd].flags]_vars

SameFiles == DOMAIN file \cap (DOMAIN file)'

\* Bytes of a file are lost only where a descriptor passes over them in a
\* write; no file shrinks, and none changes while nobody has it open
\* (ramfs.c:369-387).
DataSurvives ==
    [][\A f \in SameFiles :
          LET old == file[f].data
              new == file'[f].data
          IN /\ Len(new) >= Len(old)
             /\ f \notin OpenFiles => new = old
             /\ \A i \in DOMAIN old : new[i] # old[i] =>
                    \E fd \in OpenFds : fd_table[fd].file = f
                        /\ fd_table[fd].position < i /\ i <= fd_table'[fd].position]_vars

\* A file that is open for appending only keeps all it has, even after a
\* seek back (ramfs.c:362-365): the keyboard's record of what was typed.
AppendKeepsAll ==
    [][\A f \in SameFiles :
          (\A fd \in OpenFds : fd_table[fd].file = f => AppendBit \in fd_table[fd].flags)
              => IsPrefix(file[f].data, file'[f].data)]_vars

\* The position is past the end of the file that the descriptor refers to.
PastEnd(fd) == FileIsThere(fd) /\ fd_table[fd].position > Len(file[fd_table[fd].file].data)

\* A seek that moves the descriptor.
Sought(fd) == ret'.op = "seek" /\ fd_table'[fd] # fd_table[fd]

\* A read computes how much is left after the position as an unsigned number:
\* past the end that wraps, and only count limits the read.  No open, read,
\* write or close, of this or of another descriptor of the file, and no touch
\* or rm, takes a position past the end of the file that is there: only a seek
\* does, or a file created at the address of one that was removed while the
\* descriptor had it open (ramfs.c:124-129, 332, 387, 424).
OnlySeekLeavesFile ==
    [][\A fd \in OpenFds' : PastEnd(fd)' =>
          /\ fd \in OpenFds
          /\ PastEnd(fd) \/ Sought(fd) \/ ~FileIsThere(fd)]_vars

-----------------------------------------------------------------------------
(* What the source says and the code does not do.                          *)

\* An open descriptor has the file that its "Pointer to the file" points to
\* (ramfs.h:59); rm frees the file without a look at the descriptors.
FilesAreThere == OpenFiles \subseteq DOMAIN file
=============================================================================
