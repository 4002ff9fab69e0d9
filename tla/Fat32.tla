------------------------------- MODULE Fat32 -------------------------------
(***************************************************************************)
(* The FAT32 driver, src/src/fs/fat32.c, and the commands of the shell and *)
(* of the agent that use it (src/src/core/shell.c, src/src/agent/agent.c). *)
(*                                                                         *)
(* The disk is the first copy of the file allocation table and the data    *)
(* region.  A cluster is an array of cells the size of a directory entry:  *)
(* a cell is read as an entry or as file data by whoever reads the         *)
(* cluster, so a cluster used as both is visible.  Sectors inside a        *)
(* cluster, LBA arithmetic and the bytes of a name are abstracted; a name  *)
(* is a string that is used either for files or for directories.           *)
(*                                                                         *)
(* Commands run one after the other in the shell task, each to its end:    *)
(* every handle is closed before the next command.  Module AgentFs adds    *)
(* the commands that run inside the timer interrupt.  The power may fail   *)
(* between two writes of a command, and the machine boots from what is on  *)
(* the disk: a disk that an operator returns carries the writes made on    *)
(* the way to it, a cluster that is cleared counting as one of them.       *)
(***************************************************************************)
EXTENDS Integers, Sequences, FiniteSets, SequencesExt

CONSTANTS
    FatEntries,     \* clusters the table has entries for
    CellsPerCluster,
    FilePaths,      \* arguments of touch, write, cat and rm
    DirPaths,       \* arguments of mkdir, rmdir and cd
    Texts           \* arguments of write, as sequences of cells

ASSUME Fat32Assumption ==
    /\ FatEntries \in Nat /\ FatEntries > 0
    /\ CellsPerCluster \in Nat /\ CellsPerCluster > 0
    /\ Texts \subseteq Seq(STRING)

\* What the commands are given: file paths of one component (fat32.c:487), and names
\* that are used either for files or for directories.
ASSUME PathAssumption ==
    /\ FilePaths \subseteq [abs : BOOLEAN, parts : Seq(STRING)]
    /\ DirPaths \subseteq [abs : BOOLEAN, parts : Seq(STRING)]
    /\ \A path \in FilePaths :
          /\ Len(path.parts) = 1 /\ path.parts[1] \notin {"agent", "db"}
          /\ \A dir \in DirPaths : \A k \in DOMAIN dir.parts : dir.parts[k] # path.parts[1]
    /\ \A path \in DirPaths : path.parts = << >> => path.abs
    /\ {"agent", "db"} \subseteq STRING

FREE == 0
EOC  == -1
NoCluster == 0                                  \* no cluster
NoPos == <<0, 0>>                          \* no cell
NoFile == [first_cluster |-> NoCluster]         \* no handle
Clusters == 2 .. FatEntries + 1
Offsets == 0 .. CellsPerCluster - 1
root_cluster == 2

\* Cells: an entry that ends the directory (and zero as data), a deleted entry,
\* the entries "." and "..", an entry, or data.
End  == [kind |-> "end"]
Del  == [kind |-> "deleted"]
Dot  == [kind |-> "dot"]
Data(t) == [kind |-> "data", data |-> t]
Entry(name, dir, first, size) ==
    [kind |-> "entry", name |-> name, dir |-> dir, first |-> first, size |-> size]
IsEntry(x) == x.kind = "entry"

\* A cluster that was cleared, and one that holds a new directory.
Blank == [i \in Offsets |-> End]
NewDir == [i \in Offsets |-> IF i < 2 THEN Dot ELSE End]

VARIABLES
    fat,            \* the allocation table
    cell,           \* the data region: cluster, offset
    fat32_cwd_cluster,
    booted,         \* whether agent_init has run
    outage          \* bound: the one power failure of a behaviour

fat32Vars == <<fat, cell, fat32_cwd_cluster, booted, outage>>

\* What is on the disk, what was after each write of the command so far, and
\* whether the driver is in a window in which a power failure is fatal.
disk == [fat |-> fat, cell |-> cell, log |-> <<>>, fragile |-> FALSE]

Fat32Init ==
    /\ fat = [c \in Clusters |-> IF c = root_cluster THEN EOC ELSE FREE]
    /\ cell = [c \in Clusters |-> Blank]
    /\ fat32_cwd_cluster = root_cluster
    /\ booted = FALSE /\ outage = "none"

-----------------------------------------------------------------------------
(* Helpers of the driver.  D is a disk.                                    *)

\* get_next_cluster, if it leads to a cluster.
Longer(D, w) == IF D.fat[w[Len(w)]] \in Clusters THEN Append(w, D.fat[w[Len(w)]]) ELSE w

\* A cluster and the ones it leads to.
Chain(D, c) ==
    LET Walk[n \in 1 .. FatEntries] == IF n = 1 THEN <<c>> ELSE Longer(D, Walk[n - 1])
    IN  Walk[FatEntries]

\* ata_write_sectors: what D holds is on the disk.
Wrote(D) == [D EXCEPT !.log = Append(@, [fat |-> D.fat, cell |-> D.cell, fragile |-> D.fragile])]

Fragile(D, yes) == [D EXCEPT !.fragile = yes]

set_next_cluster(D, c, next) == Wrote([D EXCEPT !.fat[c] = next])

Filled(D, c, cells) == Wrote([D EXCEPT !.cell[c] = cells])

Zeroed(D, c) == Filled(D, c, Blank)

\* The first free entry of the table, or 0.
find_free_cluster(D) ==
    LET free == {c \in Clusters : D.fat[c] = FREE}
    IN  IF free = {} THEN NoCluster ELSE CHOOSE c \in free : \A d \in free : c <= d

\* Positions of a directory in the order the driver's loops visit them.
Before(ch, p, q) ==
    LET at(c) == CHOOSE k \in 1 .. Len(ch) : ch[k] = c
    IN  at(p[1]) < at(q[1]) \/ (p[1] = q[1] /\ p[2] < q[2])

FirstOf(ch, S) == IF S = {} THEN NoPos ELSE CHOOSE p \in S : \A q \in S \ {p} : Before(ch, p, q)

At(D, p) == D.cell[p[1]][p[2]]
Put(D, p, x) == Wrote([D EXCEPT !.cell[p[1]][p[2]] = x])

\* Entries of a directory; a cluster is searched up to its first end mark.
Listed(D, dir) ==
    {p \in ToSet(Chain(D, dir)) \X Offsets :
        IsEntry(At(D, p)) /\ \A i \in 0 .. p[2] - 1 : At(D, <<p[1], i>>) # End}

\* The first entry of that name.
Find(D, dir, name) == FirstOf(Chain(D, dir), {p \in Listed(D, dir) : At(D, p).name = name})

\* What a name in directory c leads to, or 0.
Lookup(D, c, name) ==
    IF c = NoCluster \/ Find(D, c, name) = NoPos THEN NoCluster ELSE At(D, Find(D, c, name)).first

\* What the first n components of a path lead to.
Resolved(D, cwd, path, n) ==
    LET Walk[k \in 0 .. Len(path.parts)] ==
          IF k = 0 THEN (IF path.abs THEN root_cluster ELSE cwd) ELSE Lookup(D, Walk[k - 1], path.parts[k])
    IN  Walk[n]

\* fat32_resolve_path: the first cluster of what a path leads to, or 0.
fat32_resolve_path(D, cwd, path) == Resolved(D, cwd, path, Len(path.parts))

\* The directory that mkdir and rmdir work in.
Parent(D, cwd, path) == Resolved(D, cwd, path, Len(path.parts) - 1)

\* The directory that fat32_open works in: never more than one component deep.
OpenParent(cwd, path) == IF path.abs THEN root_cluster ELSE cwd

\* Link a fresh cluster behind the last one of a chain.  Until it is marked, and
\* in a directory until it is cleared, the chain runs into what was there before.
Extend(D, last, extra, dir) ==
    LET linked == set_next_cluster(Fragile(D, TRUE), last, extra)
        marked == set_next_cluster(Fragile(linked, dir), extra, EOC)
    IN  Zeroed(Fragile(marked, FALSE), extra)

\* The first end mark or deleted entry takes the new one; a full directory gets
\* one more cluster, if there is one.
create_entry(D, dir, e) ==
    LET ch   == Chain(D, dir)
        slot == FirstOf(ch, {p \in ToSet(ch) \X Offsets : At(D, p) \in {End, Del}})
        extra == find_free_cluster(D)
    IN  CASE slot # NoPos -> [D |-> Put(D, slot, e), ok |-> TRUE]
          [] slot = NoPos /\ extra # NoCluster ->
                [D |-> Put(Extend(D, ch[Len(ch)], extra, TRUE), <<extra, 0>>, e), ok |-> TRUE]
          [] OTHER -> [D |-> D, ok |-> FALSE]

\* Free a set of clusters, in some order.
FreeAll(D, S) ==
    Wrote([D EXCEPT !.fat = [c \in Clusters |-> IF c \in S THEN FREE ELSE D.fat[c]]])

\* Free every cluster of a chain, one write after the other from its head.
FreeChain(D, ch) ==
    LET Freed(n) == [c \in Clusters |-> IF \E k \in 1 .. n : ch[k] = c THEN FREE ELSE D.fat[c]]
    IN  [D EXCEPT !.fat = Freed(Len(ch)),
                  !.log = @ \o [n \in 1 .. Len(ch) |->
                                   [fat |-> Freed(n), cell |-> D.cell, fragile |-> D.fragile]]]

-----------------------------------------------------------------------------
(* The functions of fat32.h.  Each returns the disk it leaves behind and    *)
(* whether it succeeded.                                                   *)

Fail(D) == [D |-> D, ok |-> FALSE]

fat32_mkdir(D, cwd, path) ==
    LET parent == Parent(D, cwd, path)
        new    == find_free_cluster(D)
        made   == Filled(set_next_cluster(D, new, EOC), new, NewDir)
    IN  IF fat32_resolve_path(D, cwd, path) # NoCluster \/ parent = NoCluster \/ new = NoCluster
        THEN Fail(D)
        ELSE create_entry(made, parent, Entry(path.parts[Len(path.parts)], TRUE, new, 0))

\* One level further down in a tree of directories: the entries found so far, and
\* those of the lowest level.
Deeper(D, up) ==
    LET down == UNION {Listed(D, At(D, p).first) : p \in {q \in up.last : At(D, q).dir}}
    IN  [all |-> up.all \cup down, last |-> down \ up.all]

\* Positions of the entries of a directory and of the directories below it.
EntriesBelow(D, dir) ==
    LET Level[n \in 0 .. FatEntries] ==
          IF n = 0 THEN [all |-> Listed(D, dir), last |-> Listed(D, dir)] ELSE Deeper(D, Level[n - 1])
    IN  Level[FatEntries].all

\* First clusters of a directory and of the directories below it.
Below(D, dir) == {dir} \cup {At(D, p).first : p \in {q \in EntriesBelow(D, dir) : At(D, q).dir}}

\* Mutant: the files of the removed directories keep their clusters.
recursive_rm_KeepFiles(D, dir) ==
    FreeAll(D, UNION {ToSet(Chain(D, h)) : h \in Below(D, dir)})

\* The chains of a directory, of all directories below it and of their files.
recursive_rm(D, dir) ==
    FreeAll(D, UNION {ToSet(Chain(D, c)) :
                         c \in {dir} \cup {At(D, p).first : p \in EntriesBelow(D, dir)}})

\* The entry of the directory goes last, and leads to free clusters until then.
fat32_rmdir(D, cwd, path) ==
    LET c == fat32_resolve_path(D, cwd, path)
        p == Find(D, Parent(D, cwd, path), path.parts[Len(path.parts)])
    IN  IF path.parts = <<>> \/ c = NoCluster THEN Fail(D)
        ELSE [D |-> Put(Fragile(recursive_rm(Fragile(D, TRUE), c), FALSE), p, Del), ok |-> TRUE]

\* Mutant: the clusters are freed first.
Unlinked_FreeFirst(D, p) == Put(FreeChain(D, Chain(D, At(D, p).first)), p, Del)

\* The entry goes first, then its clusters.
Unlinked(D, p) == FreeChain(Put(D, p, Del), Chain(D, At(D, p).first))

\* The argument is taken for a name as it stands: one with a slash in it is not
\* the name of any entry.
fat32_unlink(D, cwd, path) ==
    LET p == Find(D, cwd, path.parts[1])
    IN  IF path.abs \/ Len(path.parts) > 1 \/ p = NoPos \/ At(D, p).dir THEN Fail(D)
        ELSE [D |-> Unlinked(D, p), ok |-> TRUE]

\* fat32_open: a file that is missing is created for 'w', in the root or the
\* current directory; the size is taken from the entry of that name there.  The
\* handle is NoFile when the call returns -1.
fat32_open(D, cwd, path, mode) ==
    LET name   == path.parts[Len(path.parts)]
        dir    == OpenParent(cwd, path)
        target == fat32_resolve_path(D, cwd, path)
        new    == find_free_cluster(D)
        made   == create_entry(Zeroed(set_next_cluster(D, new, EOC), new), dir,
                               Entry(name, FALSE, new, 0))
        Handle(E, c) ==
            LET p == Find(E, dir, name)
            IN  [D |-> E,
                 file |-> IF p = NoPos THEN NoFile
                          ELSE [first_cluster |-> c, current_cluster |-> c, cluster_offset |-> 0,
                                position |-> 0, file_size |-> At(E, p).size, entry |-> p]]
    IN  CASE target # NoCluster -> Handle(D, target)
          [] target = NoCluster /\ mode = "w" /\ new # NoCluster ->
                IF made.ok THEN Handle(made.D, new) ELSE [D |-> made.D, file |-> NoFile]
          [] OTHER -> [D |-> D, file |-> NoFile]

\* One cell of fat32_write.  At the end of a cluster the next one of the chain is
\* entered, or a free one linked in; without one the call stops short.
WriteCell(s, t) ==
    LET f    == s.file
        D    == Put(s.D, <<f.current_cluster, f.cluster_offset>>, Data(t))
        g    == [f EXCEPT !.position = @ + 1, !.cluster_offset = @ + 1]
        next == D.fat[f.current_cluster]
        new  == find_free_cluster(D)
        Step(E, c) == [D |-> E, stop |-> FALSE, n |-> s.n + 1,
                       file |-> [g EXCEPT !.current_cluster = c, !.cluster_offset = 0]]
    IN  CASE s.stop -> s
          [] ~s.stop /\ g.cluster_offset < CellsPerCluster ->
                [D |-> D, stop |-> FALSE, n |-> s.n + 1, file |-> g]
          [] ~s.stop /\ g.cluster_offset = CellsPerCluster /\ next # EOC -> Step(D, next)
          [] ~s.stop /\ g.cluster_offset = CellsPerCluster /\ next = EOC /\ new # NoCluster ->
                Step(Extend(D, f.current_cluster, new, FALSE), new)
          [] OTHER -> [D |-> D, stop |-> TRUE, n |-> s.n + 1, file |-> g]

\* fat32_write, with the update of the size in the directory entry.  A cell that
\* is no longer an entry has no size to update.
fat32_write(D, file, text) ==
    LET Walk[k \in 0 .. Len(text)] ==
          IF k = 0 THEN [D |-> D, file |-> file, stop |-> FALSE, n |-> 0] ELSE WriteCell(Walk[k - 1], text[k])
        s == Walk[Len(text)]
        grown == s.n > 0 /\ s.file.position > s.file.file_size
        e == At(s.D, file.entry)
    IN  [D |-> IF grown /\ IsEntry(e)
               THEN Put(s.D, file.entry, [e EXCEPT !.size = s.file.position]) ELSE s.D,
         n |-> s.n]

\* Mutant: reading goes round in the first cluster.
fat32_read_all_Stay(D, file) ==
    [i \in 1 .. file.file_size |-> D.cell[file.first_cluster][(i - 1) % CellsPerCluster]]

\* One cell of fat32_read, unless the chain has ended.
ReadCell(D, s) ==
    IF s.c \notin Clusters THEN s
    ELSE [out |-> Append(s.out, D.cell[s.c][s.o]),
          c |-> IF s.o + 1 = CellsPerCluster THEN D.fat[s.c] ELSE s.c,
          o |-> IF s.o + 1 = CellsPerCluster THEN 0 ELSE s.o + 1]

\* fat32_read until it returns 0: the cells up to the size or the end of the chain.
fat32_read_all(D, file) ==
    LET Walk[k \in 0 .. file.file_size] ==
          IF k = 0 THEN [out |-> <<>>, c |-> file.first_cluster, o |-> 0] ELSE ReadCell(D, Walk[k - 1])
    IN  Walk[file.file_size].out

-----------------------------------------------------------------------------
(* Commands.                                                               *)

Leaves(D) == fat' = D.fat /\ cell' = D.cell

\* A command ends, or the power fails between two of its writes and the machine
\* starts again (fat32_mount).
Ends(D) ==
    \/ /\ Leaves(D) /\ booted' = TRUE
       /\ UNCHANGED <<fat32_cwd_cluster, outage>>
    \/ \E k \in 1 .. Len(D.log) - 1 :
          /\ outage = "none" /\ outage' = IF D.log[k].fragile THEN "fatal" ELSE "harmless"
          /\ Leaves(D.log[k])
          /\ booted' = FALSE /\ fat32_cwd_cluster' = root_cluster

\* agent_init, which kmain calls after the mount.  A volume that was damaged is
\* not followed further.
agent_init ==
    /\ ~booted /\ outage # "fatal"
    /\ LET d1 == fat32_mkdir(disk, fat32_cwd_cluster, [abs |-> TRUE, parts |-> <<"agent">>])
           d2 == fat32_mkdir(d1.D, fat32_cwd_cluster, [abs |-> TRUE, parts |-> <<"agent", "db">>])
       IN  Ends(d2.D)

mkdir(path) == Ends(fat32_mkdir(disk, fat32_cwd_cluster, path).D)

\* Assumed of the user: the current directory and the ones above it are not
\* removed (the code does not refuse it; see the README).
rmdir(path) ==
    /\ LET c == fat32_resolve_path(disk, fat32_cwd_cluster, path)
       IN  c # NoCluster => fat32_cwd_cluster \notin Below(disk, c)
    /\ Ends(fat32_rmdir(disk, fat32_cwd_cluster, path).D)

rm(path) == Ends(fat32_unlink(disk, fat32_cwd_cluster, path).D)

fat32_chdir(path) ==
    LET c == fat32_resolve_path(disk, fat32_cwd_cluster, path)
    IN  /\ fat32_cwd_cluster' = IF c = NoCluster THEN fat32_cwd_cluster ELSE c
        /\ UNCHANGED <<fat, cell, booted, outage>>

\* Mutant: a file that exists is emptied.
touch_Truncate(path) ==
    LET r == fat32_open(disk, fat32_cwd_cluster, path, "w")
    IN  Ends(IF r.file = NoFile THEN r.D
             ELSE Put(r.D, r.file.entry, [At(r.D, r.file.entry) EXCEPT !.size = 0]))

touch(path) == Ends(fat32_open(disk, fat32_cwd_cluster, path, "w").D)

\* Open, write if that succeeded, close.
Written(path, text) ==
    LET r == fat32_open(disk, fat32_cwd_cluster, path, "w")
    IN  IF r.file = NoFile THEN r.D ELSE fat32_write(r.D, r.file, text).D

write(path, text) == Ends(Written(path, text))

\* What cat prints: <<>> for a file that cannot be opened.
cat(D, path) ==
    LET r == fat32_open(D, fat32_cwd_cluster, path, "r")
    IN  IF r.file = NoFile THEN <<>> ELSE fat32_read_all(D, r.file)

\* Bound: a behaviour ends with the boot that follows a power failure.
Command ==
    /\ booted /\ outage = "none"
    /\ \/ \E path \in DirPaths : mkdir(path) \/ rmdir(path) \/ fat32_chdir(path)
       \/ \E path \in FilePaths : rm(path) \/ touch(path)
       \/ \E path \in FilePaths, text \in Texts : write(path, text)

Fat32Next == agent_init \/ Command

Fat32Spec == Fat32Init /\ [][Fat32Next]_fat32Vars

-----------------------------------------------------------------------------
(* Properties.                                                             *)

\* Positions of the entries of all directories that can be reached.
Entries(D) == EntriesBelow(D, root_cluster)

\* What the file of an entry holds, read straight off the chain.
Content(D, e) ==
    LET ch == Chain(D, e.first)
    IN  [k \in 1 .. e.size |-> D.cell[ch[(k - 1) \div CellsPerCluster + 1]][(k - 1) % CellsPerCluster]]

\* Reachable files with their contents.
Files(D) ==
    {[pos |-> p, name |-> At(D, p).name, first |-> At(D, p).first, content |-> Content(D, At(D, p))] :
        p \in {q \in Entries(D) : ~At(D, q).dir}}

Owned(D) == ToSet(Chain(D, root_cluster)) \cup UNION {ToSet(Chain(D, At(D, p).first)) : p \in Entries(D)}
Leaked(D) == {c \in Clusters : D.fat[c] # FREE} \ Owned(D)

\* The table and the directories agree: the chains of the root, of all
\* directories and of all files are allocated, end, share no cluster, and are
\* long enough for the size in the entry; the current directory is allocated.
\* A power failure does not change that unless it hits rmdir before its last
\* write, or the driver while it links a new cluster: touch, mkdir, write and rm
\* order their other writes so that the disk is whole after each of them.
Integrity ==
    outage # "fatal" =>
    LET heads == {<<NoPos, root_cluster>>} \cup {<<p, At(disk, p).first>> : p \in Entries(disk)}
    IN  /\ \A h \in heads :
              LET ch == Chain(disk, h[2])
              IN  /\ fat[ch[Len(ch)]] = EOC
                  /\ \A k, l \in 1 .. Len(ch) : k # l => ch[k] # ch[l]
        /\ \A h, g \in heads : h # g => ToSet(Chain(disk, h[2])) \cap ToSet(Chain(disk, g[2])) = {}
        /\ fat32_cwd_cluster \in Clusters /\ fat[fat32_cwd_cluster] # FREE
        /\ \A p \in Entries(disk) : At(disk, p).size <= CellsPerCluster * Len(Chain(disk, At(disk, p).first))

\* A cluster that nobody can reach is left allocated only by a call that ran
\* out of space or of power halfway.
LeakOnlyWhenFull ==
    [][\/ find_free_cluster(disk') = NoCluster \/ outage' # outage
       \/ Leaked(disk') \subseteq Leaked(disk)]_fat32Vars

\* The directory whose entries a command on this path looks through.
In(D, p, dir) == p[1] \in ToSet(Chain(D, dir))

\* rm and write change no file but the one they name, and the other commands
\* none, whether they end or are cut short by a harmless power failure.  rmdir
\* takes along the files below the directory it names and no others; that it
\* takes any is what RmdirOnlyEmpty denies.
OtherFilesUntouched ==
    [][outage' # "fatal" => \A f \in Files(disk) \ Files(disk') :
          \/ \E path \in FilePaths :
                /\ rm(path) \/ \E text \in Texts : write(path, text)
                /\ f.name = Last(path.parts) /\ In(disk, f.pos, OpenParent(fat32_cwd_cluster, path))
          \/ \E path \in DirPaths :
                /\ rmdir(path)
                /\ \E h \in Below(disk, fat32_resolve_path(disk, fat32_cwd_cluster, path)) :
                      In(disk, f.pos, h)]_fat32Vars

\* What fat32.h says of fat32_rmdir, "must be empty": a directory that holds a
\* file is not removed, so no file goes with it.  The code does not look.
RmdirOnlyEmpty ==
    [][\A path \in DirPaths : rmdir(path) /\ outage' = outage => Files(disk) \subseteq Files(disk')]_fat32Vars

\* After a write for which there was room, in any state a command can start in,
\* cat prints the text, across clusters, followed by what the file held beyond it
\* (write does not truncate), and no more.
WriteStores ==
    booted /\ outage = "none" =>
       \A path \in FilePaths, text \in Texts :
          LET D   == Written(path, text)
              p   == Find(disk, OpenParent(fat32_cwd_cluster, path), Last(path.parts))
              old == IF p = NoPos THEN <<>> ELSE Content(disk, At(disk, p))
          IN  find_free_cluster(D) # NoCluster =>
                 cat(D, path) = [k \in 1 .. IF Len(text) > Len(old) THEN Len(text) ELSE Len(old) |->
                                    IF k <= Len(text) THEN Data(text[k]) ELSE old[k]]

=============================================================================
