------------------------------- MODULE Files -------------------------------
(***************************************************************************)
(* Files: the archive the bootloader hands over (fs/initrd.c, fs/tar.c),   *)
(* the tree it is mounted in (fs/vfs.c) and the descriptors of the         *)
(* threads (arch/x86_64/syscall.c).                                        *)
(*                                                                         *)
(* The archive is a sequence of blocks: headers, payload and zero blocks.  *)
(* A byte of payload is named by its address in the archive.  A path is a  *)
(* sequence of names and slashes, each one token; names fit VFS_NAME_MAX.  *)
(* A vnode is a position in `nodes', the root is the first, and 0 is NULL. *)
(***************************************************************************)
EXTENDS Integers, Sequences, FiniteSets, SequencesExt

CONSTANTS
    Archives,   \* archives that may be found: [blocks, entries]
    Block,      \* 512
    NodeLimits, \* vnodes the heap has room for
    Threads,
    FdMax,      \* THREAD_FD_MAX
    Paths,      \* paths threads open
    Counts,     \* how much they read at once
    Word        \* 2^64

ASSUME FilesAssumption ==
    /\ Block \in Nat \ {0} /\ FdMax \in Nat \ (0 .. 3) /\ Counts \subseteq 0 .. Word - 1
    /\ NodeLimits \subseteq Nat \ {0}

VARIABLES
    archive,    \* what initrd_init() found
    limit,
    off,        \* tar_mount(): the next header, in blocks
    up,         \* the mount is over, threads run
    nodes,      \* vnodes: [name, type, data, size, kids]
    panicked,   \* a copy ran out of mapped memory
    fds,        \* of each thread: [used, node, offset]
    got         \* history: what each descriptor returned since it was opened

vars == <<archive, limit, off, up, nodes, panicked, fds, got>>

Fds == 3 .. FdMax - 1

-----------------------------------------------------------------------------
(* The tree. *)

Node(name, type) == [name |-> name, type |-> type, data |-> 0, size |-> 0, kids |-> <<>>]
Root == Node("/", "dir")

\* child_named(), and the search in vfs_lookup()
ChildNamed(ns, d, name) ==
    LET hits == SelectSeq(ns[d].kids, LAMBDA c : ns[c].name = name)
    IN  IF hits = <<>> THEN 0 ELSE Head(hits)

\* add_child(): the newest comes first.  0 if there is no memory.
AddChild(ns, d, name, type) ==
    Append([ns EXCEPT ![d].kids = <<Len(ns) + 1>> \o @], Node(name, type))

\* walk_or_make() skips any "./" and then any "/" in front.
Relative(p) ==
    LET dots == {k \in 0 .. Len(p) \div 2 : \A j \in 1 .. k : p[2*j - 1] = "." /\ p[2*j] = "/"}
        from == 2 * (CHOOSE k \in dots : \A j \in dots : j <= k) + 1
        stops == {i \in from .. Len(p) : p[i] # "/"} \cup {Len(p) + 1}
    IN  SubSeq(p, CHOOSE i \in stops : \A j \in stops : i <= j, Len(p))

\* A segment is the last one if the path ends behind it and at most one slash.
IsLast(p, i) == SubSeq(p, i + 1, Len(p)) \in {<<>>, <<"/">>}
Names(p) == SelectSeq([i \in DOMAIN p |-> i], LAMBDA i : p[i] # "/")

\* One segment of walk_or_make(): find or make the child; a file that is met again is
\* overwritten.
WalkSegment(w, p, i, leaf) ==
    LET last == IsLast(p, i)
        old == ChildNamed(w.ns, w.cur, p[i])
        c == IF old # 0 THEN old ELSE Len(w.ns) + 1
        ns == IF old # 0 THEN w.ns
              ELSE AddChild(w.ns, w.cur, p[i], IF last THEN leaf.type ELSE "dir")
    IN  IF w.cur = 0 \/ (old = 0 /\ Len(w.ns) >= limit) THEN [w EXCEPT !.cur = 0]
        ELSE [ns |-> IF last /\ leaf.type = "file"
                     THEN [ns EXCEPT ![c].type = "file", ![c].data = leaf.data, ![c].size = leaf.size]
                     ELSE ns,
              cur |-> c]
WalkOrMake(path, leaf) ==
    LET p == Relative(path)
    IN  FoldLeft(LAMBDA w, i : WalkSegment(w, p, i, leaf), [ns |-> nodes, cur |-> 1], Names(p)).ns

\* vfs_lookup()
LookupFrom(d, name) == IF d = 0 \/ nodes[d].type # "dir" THEN 0 ELSE ChildNamed(nodes, d, name)
Lookup(p) ==
    IF p = <<>> \/ p[1] # "/" THEN 0
    ELSE FoldLeft(LookupFrom, 1, SelectSeq(p, LAMBDA t : t # "/"))

-----------------------------------------------------------------------------
(* tar_mount(), one header at a time. *)

\* The block at off; a cut block does not count.
Header == IF off < Len(archive.blocks) THEN archive.blocks[off + 1] ELSE [kind |-> "end"]
FullPath == IF Header.prefix = <<>> THEN Header.name ELSE Header.prefix \o <<"/">> \o Header.name

\* The payload is padded to whole blocks.  The variant forgets the padding.
PaddingLost(size) == size \div Block
PayloadBlocks(size) == (size + Block - 1) \div Block

\* Where to go on.  The variant does not get past an entry it does not mount.
NextHeaderStays(h) == IF h.type \in {"0", "5"} THEN off + 1 + PayloadBlocks(h.size) ELSE off
NextHeader(h) == off + 1 + PayloadBlocks(h.size)

MountEntry ==
    /\ ~up /\ Header.kind = "header"
    /\ nodes' = CASE Header.type = "0" ->
                       WalkOrMake(FullPath, [type |-> "file", data |-> (off + 1) * Block, size |-> Header.size])
                  [] Header.type = "5" -> WalkOrMake(FullPath, [type |-> "dir"])
                  [] OTHER -> nodes
    /\ off' = NextHeader(Header)
    /\ UNCHANGED <<archive, limit, up, panicked, fds, got>>

\* A zero block, or no room for a header: the mount is over.
MountEnd ==
    /\ ~up /\ Header.kind # "header"
    /\ up' = TRUE
    /\ UNCHANGED <<archive, limit, off, nodes, panicked, fds, got>>

-----------------------------------------------------------------------------
(* System calls; those that fail change nothing. *)

Closed == [used |-> FALSE, node |-> 0, offset |-> 0]
Opened(v) == [used |-> TRUE, node |-> v, offset |-> 0]

\* sys_open(): the lowest free descriptor, or 0 if there is none.
FreeFd(t) == IF \E i \in Fds : ~fds[t][i].used
             THEN CHOOSE i \in Fds : ~fds[t][i].used /\ \A j \in 3 .. i - 1 : fds[t][j].used
             ELSE 0
SysOpen(t) ==
    LET i == FreeFd(t)
    IN  /\ i # 0
        /\ \E p \in Paths : /\ Lookup(p) # 0
                            /\ fds' = [fds EXCEPT ![t][i] = Opened(Lookup(p))]
        /\ got' = [got EXCEPT ![t][i] = <<>>]
        /\ UNCHANGED <<archive, limit, off, up, nodes, panicked>>

SysClose(t, i) ==
    /\ fds[t][i].used
    /\ fds' = [fds EXCEPT ![t][i] = Closed]
    /\ got' = [got EXCEPT ![t][i] = <<>>]
    /\ UNCHANGED <<archive, limit, off, up, nodes, panicked>>

\* vfs_read(): how many bytes; the sum has the width of size_t.  The variant forgets
\* the bytes already read.
ReadLengthWhole(v, offset, count) == IF count > v.size THEN v.size ELSE count
ReadLength(v, offset, count) ==
    IF offset >= v.size THEN 0
    ELSE IF (offset + count) % Word > v.size THEN v.size - offset ELSE count
\* offset + count exceeds a size_t: what is copied is nearly the whole address space,
\* and the copy ends in a page fault.
Wraps(v, offset, count) == offset < v.size /\ offset + count >= Word
SysRead(t, i) ==
    LET f == fds[t][i]
        v == nodes[f.node]
    IN  /\ f.used /\ v.type = "file"
        /\ \E count \in Counts :
              LET n == ReadLength(v, f.offset, count)
              IN  \/ /\ Wraps(v, f.offset, count)
                     /\ panicked' = TRUE /\ UNCHANGED <<fds, got>>
                  \/ /\ ~Wraps(v, f.offset, count)
                     /\ fds' = [fds EXCEPT ![t][i].offset = @ + n]
                     /\ got' = [got EXCEPT ![t][i] = @ \o [k \in 1 .. n |-> v.data + f.offset + k - 1]]
                     /\ UNCHANGED panicked
        /\ UNCHANGED <<archive, limit, off, up, nodes>>

\* sys_readdir(): the child the offset counts to.
SysReaddir(t, i) ==
    LET f == fds[t][i]
        v == nodes[f.node]
    IN  /\ f.used /\ v.type = "dir" /\ f.offset < Len(v.kids)
        /\ fds' = [fds EXCEPT ![t][i].offset = @ + 1]
        /\ got' = [got EXCEPT ![t][i] = Append(@, nodes[v.kids[f.offset + 1]].name)]
        /\ UNCHANGED <<archive, limit, off, up, nodes, panicked>>

-----------------------------------------------------------------------------

Init ==
    /\ archive \in Archives /\ limit \in NodeLimits
    /\ off = 0 /\ up = FALSE /\ panicked = FALSE /\ nodes = <<Root>>
    /\ fds = [t \in Threads |-> [i \in Fds |-> Closed]]
    /\ got = [t \in Threads |-> [i \in Fds |-> <<>>]]

Syscall ==
    /\ up /\ ~panicked
    /\ \E t \in Threads : SysOpen(t) \/ \E i \in Fds : SysClose(t, i) \/ SysRead(t, i) \/ SysReaddir(t, i)

Next == MountEntry \/ MountEnd \/ Syscall

Spec == Init /\ [][Next]_vars

-----------------------------------------------------------------------------
(* Properties. *)

FilesIn(es) == {i \in DOMAIN es : es[i].type = "0"}
Newest(es) == {i \in FilesIn(es) : \A j \in FilesIn(es) : j > i => es[j].path # es[i].path}
Spelled(path) == FoldLeft(LAMBDA p, n : p \o <<"/", n>>, <<>>, path)

\* Every vnode but the root hangs in the tree once.
Kids == UNION {{<<d, k>> : k \in DOMAIN nodes[d].kids} : d \in DOMAIN nodes}

\* After the mount every file of the archive is found under its path with the payload
\* of its last entry, and there is nothing in the tree that the archive does not name,
\* however entries are spelled, ordered, repeated or padded (tar_mount).
TreeMatchesArchive ==
    (up /\ Len(nodes) < limit) =>
        LET es == archive.entries
        IN  /\ \A i \in Newest(es) :
                  LET v == Lookup(Spelled(es[i].path))
                  IN  /\ v # 0
                      /\ nodes[v].type = "file" /\ nodes[v].data = es[i].data /\ nodes[v].size = es[i].size
            /\ \A i \in DOMAIN es : es[i].type = "5" => Lookup(Spelled(es[i].path)) # 0
            /\ Len(nodes) = Cardinality(UNION {Prefixes(es[i].path) : i \in {j \in DOMAIN es : es[j].type # "2"}})
            /\ Cardinality(Kids) = Len(nodes) - 1

\* What a descriptor of a file has returned since it was opened is the beginning of the
\* file, without a gap or a repetition and never past its end, for every count up to the
\* largest size_t (sys_read, vfs_read).  A read that makes offset + count wrap does not
\* return.
ReadsAreStream ==
    \A t \in Threads, i \in Fds :
        LET f == fds[t][i]
            v == nodes[f.node]
        IN  (f.used /\ v.type = "file") =>
                /\ Len(got[t][i]) <= v.size
                /\ got[t][i] = [k \in 1 .. f.offset |-> v.data + k - 1]

\* A listing names children of the directory, none twice, and all of them when
\* sys_readdir() reports the end.
ListsEachOnce ==
    \A t \in Threads, i \in Fds :
        LET f == fds[t][i]
            v == nodes[f.node]
        IN  (f.used /\ v.type = "dir") =>
                /\ ToSet(got[t][i]) \subseteq {nodes[c].name : c \in ToSet(v.kids)}
                /\ Cardinality(ToSet(got[t][i])) = Len(got[t][i])
                /\ f.offset = Len(v.kids) => ToSet(got[t][i]) = {nodes[c].name : c \in ToSet(v.kids)}

\* What a descriptor hands out, file or directory, is complete, in order and without
\* repetition, although its number and its vnode are used again and reads of any length
\* reach and pass the end (sys_open, sys_close, sys_read, sys_readdir).
DescriptorsInOrder == ReadsAreStream /\ ListsEachOnce
=============================================================================
