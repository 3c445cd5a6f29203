----------------------------- MODULE FileSystem -----------------------------
(***************************************************************************)
(* The file system as the shell uses it: path resolution and mounts        *)
(* (fs/vfs), the RAM file system (fs/ramfs), file descriptors (fs/fd) and  *)
(* the commands cd, mk, mkr, write and rd (shell/shell.c), under           *)
(* src/kernel.  Only the main program uses it, one command at a time; a    *)
(* write is a step for each call of sys_write, because each may run out of *)
(* memory: kmalloc returns NULL, nobody looks, and the first store through *)
(* it is a fatal page fault (page 0 is not mapped).                        *)
(*                                                                         *)
(* A node is its number.  An argument of a command is the string split at  *)
(* its slashes; a node is named by the whole argument that mk was given.   *)
(* Names fit their 64 bytes.  The memory that kmalloc returns is not       *)
(* cleared: its bytes are GARBAGE.                                         *)
(***************************************************************************)
EXTENDS Integers, Sequences, FiniteSets, FiniteSetsExt

CONSTANTS
    TMP,            \* the name "tmp"
    Args,           \* arguments: [abs : leading slash, parts : names]
    Texts,          \* texts to write: sequences of words
    SPACE,
    GARBAGE,
    MAX_CHILDREN,   \* of a directory (32)
    MAX_FDS,
    READ_MAX,       \* what rd asks for (255)
    MAX_NODES       \* bound: nodes made before memory runs out

\* The names in the arguments, and the bytes that memory may hold.
Name == {TMP} \cup UNION {{arg.parts[i] : i \in DOMAIN arg.parts} : arg \in Args}

Byte == {SPACE, GARBAGE}
        \cup UNION {UNION {{t[i][j] : j \in DOMAIN t[i]} : i \in DOMAIN t} : t \in Texts}

\* The buffers that cmd_write passes to sys_write: the words of the text with
\* a space between two of them.
Buffers(text) ==
    [i \in 1 .. 2 * Len(text) - 1 |->
        IF i % 2 = 1 THEN text[(i + 1) \div 2] ELSE <<SPACE>>]

\* The first n buffers, as one.
Joined(bufs) ==
    LET Upto[n \in 0 .. Len(bufs)] == IF n = 0 THEN <<>> ELSE Upto[n - 1] \o bufs[n]
    IN  Upto[Len(bufs)]

ASSUME FileSystemAssumption ==
    /\ MAX_CHILDREN \in Nat \ {0}
    /\ MAX_FDS \in Nat \ {0}
    /\ READ_MAX \in Nat
    /\ MAX_NODES \in Nat
    /\ \A arg \in Args : arg \in [abs : BOOLEAN, parts : Seq(Name)]
    /\ \A t \in Texts : /\ t \in Seq(Seq(Byte)) /\ t # <<>>
                        /\ \A i \in DOMAIN t : t[i] # <<>>
                        /\ Len(Joined(Buffers(t))) <= READ_MAX

VARIABLES
    nodes,      \* [name, dir, children, data, size]: a node's number is its place
    mounts,     \* [mountpoint, root]
    cwd,
    fd_table,
    cmd,        \* the write in progress: its descriptor and what is left
    shown,      \* what rd printed last (history)
    halted      \* a fatal page fault

fs_vars == <<nodes, mounts, cwd, fd_table, cmd, shown, halted>>

NONE == 0
FAIL == -1
Fd == 0 .. MAX_FDS - 1
NoCommand == [fd |-> FAIL, left |-> <<>>]

Plain(name) == [abs |-> FALSE, parts |-> <<name>>]
Slash == [abs |-> TRUE, parts |-> <<>>]

\* capacity is the length of data, and data is NULL when that is 0.
Node(name, dir) ==
    [name |-> name, dir |-> dir, children |-> <<>>, data |-> <<>>, size |-> 0]

\* kernel_boot makes the root, the directory tmp in it, and another root that
\* it mounts there; shell_init starts in the root.
vfs_root == 1

FsInit ==
    /\ nodes = << [Node(Slash, TRUE) EXCEPT !.children = <<2>>],
                  Node(Plain(TMP), TRUE),
                  Node(Slash, TRUE) >>
    /\ mounts = << [mountpoint |-> 2, root |-> 3] >>
    /\ cwd = vfs_root
    /\ fd_table = [f \in Fd |-> [used |-> FALSE, node |-> NONE, offset |-> 0]]
    /\ cmd = NoCommand
    /\ shown = <<>> /\ halted = FALSE
-----------------------------------------------------------------------------
(* Paths. *)

ramfs_lookup_Last(n, name) ==
    LET children == nodes[n].children
        hits == {i \in DOMAIN children : nodes[children[i]].name = Plain(name)} IN
    IF hits = {} THEN NONE ELSE children[Max(hits)]

ramfs_lookup(n, name) ==
    LET children == nodes[n].children
        hits == {i \in DOMAIN children : nodes[children[i]].name = Plain(name)} IN
    IF hits = {} THEN NONE ELSE children[Min(hits)]

vfs_check_mount_Never(n) == n

vfs_check_mount(n) ==
    LET hits == {i \in DOMAIN mounts : mounts[i].mountpoint = n} IN
    IF hits = {} THEN n ELSE mounts[Min(hits)].root

path_resolve(n, parts) ==
    LET Walk[k \in 0 .. Len(parts)] ==
            IF k = 0 THEN n
            ELSE IF Walk[k - 1] = NONE THEN NONE
            ELSE vfs_check_mount(ramfs_lookup(Walk[k - 1], parts[k]))
    IN  Walk[Len(parts)]

\* Always from the root, with or without a leading slash.
vfs_lookup(arg) == path_resolve(vfs_root, arg.parts)

\* The paths of cd and ls.
FromCwd(arg) == IF arg.abs THEN vfs_lookup(arg) ELSE path_resolve(cwd, arg.parts)
-----------------------------------------------------------------------------
(* Commands that are one step. *)

Idle == cmd = NoCommand /\ ~ halted

cmd_cd(arg) ==
    LET target == FromCwd(arg) IN
    /\ Idle
    /\ cwd' = IF target # NONE /\ nodes[target].dir THEN target ELSE cwd
    /\ UNCHANGED <<nodes, mounts, fd_table, cmd, shown, halted>>

CdRoot ==
    /\ Idle
    /\ cwd' = vfs_root
    /\ UNCHANGED <<nodes, mounts, fd_table, cmd, shown, halted>>

\* The nodes after a node called arg is made in directory p.  There may be
\* one of that name already.
WithChild_OldCount(p, arg) ==
    Append([nodes EXCEPT ![p].children = Append(@, Len(nodes))],
           Node(arg, FALSE))

WithChild(p, arg) ==
    Append([nodes EXCEPT ![p].children = Append(@, Len(nodes) + 1)],
           Node(arg, FALSE))

ramfs_create(p, arg) ==
    \/ /\ Len(nodes[p].children) >= MAX_CHILDREN
       /\ UNCHANGED <<nodes, halted>>
    \/ /\ Len(nodes[p].children) < MAX_CHILDREN
       /\ Len(nodes) < MAX_NODES
       /\ nodes' = WithChild(p, arg)
       /\ UNCHANGED halted
    \/ /\ Len(nodes[p].children) < MAX_CHILDREN
       /\ halted' = TRUE                    \* kmalloc returned NULL
       /\ UNCHANGED nodes

cmd_mk(arg) ==
    /\ Idle
    /\ ramfs_create(cwd, arg)
    /\ UNCHANGED <<mounts, cwd, fd_table, cmd, shown>>

cmd_mkr(arg) ==
    /\ Idle
    /\ ramfs_create(vfs_lookup(Plain(TMP)), arg)
    /\ UNCHANGED <<mounts, cwd, fd_table, cmd, shown>>
-----------------------------------------------------------------------------
(* Descriptors, write and rd. *)

fd_alloc ==
    LET unused == {f \in Fd : ~ fd_table[f].used} IN
    IF unused = {} THEN FAIL ELSE Min(unused)

Opens(arg) == vfs_lookup(arg) # NONE /\ fd_alloc # FAIL

\* sys_open and sys_seek(fd, 0).
Opened(arg) == [used |-> TRUE, node |-> vfs_lookup(arg), offset |-> 0]

NotFound(arg) ==
    /\ Idle
    /\ ~ Opens(arg)
    /\ UNCHANGED <<nodes, mounts, cwd, fd_table, cmd, shown, halted>>

cmd_write(arg, text) ==
    /\ Idle
    /\ Opens(arg)
    /\ fd_table' = [fd_table EXCEPT ![fd_alloc] = Opened(arg)]
    /\ cmd' = [fd |-> fd_alloc, left |-> Buffers(text)]
    /\ UNCHANGED <<nodes, mounts, cwd, shown, halted>>

\* The data of node n when it must hold bytes up to `end': a larger copy,
\* the old one is never given back.
Grown_NoCopy(n, end) ==
    IF end > Len(nodes[n].data)
    THEN [i \in 1 .. end |-> GARBAGE]
    ELSE nodes[n].data

Grown(n, end) ==
    IF end > Len(nodes[n].data)
    THEN [i \in 1 .. end |-> IF i <= nodes[n].size THEN nodes[n].data[i] ELSE GARBAGE]
    ELSE nodes[n].data

\* Node n after ramfs_write of buf at offset.
Written_SizeAdded(n, offset, buf) ==
    LET end == offset + Len(buf)
        data == Grown(n, end) IN
    [nodes[n] EXCEPT
        !.data = [i \in DOMAIN data |->
                     IF offset < i /\ i <= end THEN buf[i - offset] ELSE data[i]],
        !.size = @ + Len(buf)]

Written(n, offset, buf) ==
    LET end == offset + Len(buf)
        data == Grown(n, end) IN
    [nodes[n] EXCEPT
        !.data = [i \in DOMAIN data |->
                     IF offset < i /\ i <= end THEN buf[i - offset] ELSE data[i]],
        !.size = Max({end, nodes[n].size})]

Desc == fd_table[cmd.fd]

\* One sys_write.  Writing to a directory fails, which cmd_write ignores.
sys_write ==
    LET buf == Head(cmd.left) IN
    /\ ~ halted /\ cmd.left # <<>>
    /\ cmd' = [cmd EXCEPT !.left = Tail(@)]
    /\ IF nodes[Desc.node].dir
       THEN UNCHANGED <<nodes, fd_table>>
       ELSE /\ nodes' = [nodes EXCEPT ![Desc.node] = Written(Desc.node, Desc.offset, buf)]
            /\ fd_table' = [fd_table EXCEPT ![cmd.fd].offset = @ + Len(buf)]
    /\ UNCHANGED <<mounts, cwd, shown, halted>>

WriteFaults ==
    /\ ~ halted /\ cmd.left # <<>>
    /\ ~ nodes[Desc.node].dir
    /\ Desc.offset + Len(Head(cmd.left)) > Len(nodes[Desc.node].data)
    /\ halted' = TRUE
    /\ UNCHANGED <<nodes, mounts, cwd, fd_table, cmd, shown>>

WriteCloses ==
    /\ ~ halted /\ cmd # NoCommand /\ cmd.left = <<>>
    /\ fd_table' = [fd_table EXCEPT ![cmd.fd].used = FALSE]
    /\ cmd' = NoCommand
    /\ UNCHANGED <<nodes, mounts, cwd, shown, halted>>

ramfs_read(n, offset, size) ==
    IF offset >= nodes[n].size THEN <<>>
    ELSE SubSeq(nodes[n].data, offset + 1,
                IF offset + size > nodes[n].size THEN nodes[n].size ELSE offset + size)

\* The descriptor that cmd_rd leaves behind.
Released_StillUsed(arg, read) == [Opened(arg) EXCEPT !.offset = read]

Released(arg, read) == [Opened(arg) EXCEPT !.offset = read, !.used = FALSE]

cmd_rd(arg) ==
    LET text == ramfs_read(vfs_lookup(arg), 0, READ_MAX) IN
    /\ Idle
    /\ Opens(arg)
    /\ shown' = text
    /\ fd_table' = [fd_table EXCEPT ![fd_alloc] = Released(arg, Len(text))]
    /\ UNCHANGED <<nodes, mounts, cwd, cmd, halted>>

FsNext ==
    \/ CdRoot
    \/ \E arg \in Args :
          \/ cmd_cd(arg) \/ cmd_mk(arg) \/ cmd_mkr(arg)
          \/ NotFound(arg) \/ cmd_rd(arg)
          \/ \E text \in Texts : cmd_write(arg, text)
    \/ sys_write \/ WriteFaults \/ WriteCloses

FsSpec == FsInit /\ [][FsNext]_fs_vars
-----------------------------------------------------------------------------
Children(n) == {nodes[n].children[i] : i \in DOMAIN nodes[n].children}

FsTypeOK ==
    /\ \A n \in DOMAIN nodes :
          /\ nodes[n].dir \in BOOLEAN
          /\ Children(n) \subseteq DOMAIN nodes
          /\ Len(nodes[n].children) <= MAX_CHILDREN
          /\ nodes[n].size \in 0 .. Len(nodes[n].data)
    /\ cwd \in DOMAIN nodes
    /\ \A f \in Fd : fd_table[f].used => fd_table[f].node \in DOMAIN nodes
    /\ cmd.fd \in Fd \cup {FAIL}
    /\ halted \in BOOLEAN

Covered == {mounts[i].mountpoint : i \in DOMAIN mounts}

(* The directory under a mount cannot be reached: no path, no working      *)
(* directory and no descriptor leads to it, so that nothing is ever made   *)
(* or found in it.  The working directory is a directory of the tree.      *)
CoveredUnreachable ==
    /\ \A n \in Covered : nodes[n].children = <<>>
    /\ cwd \notin Covered /\ nodes[cwd].dir
    /\ \A f \in Fd : fd_table[f].used => fd_table[f].node \notin Covered
    /\ \A arg \in Args : FromCwd(arg) \notin Covered /\ vfs_lookup(arg) \notin Covered

(* Every file that mk or mkr made sits in exactly one directory, that is   *)
(* older than it: the tree has no cycle and nothing falls out of it.       *)
TreeSound ==
    \A n \in DOMAIN nodes \ ({vfs_root} \cup {mounts[i].root : i \in DOMAIN mounts}) :
        /\ Cardinality({p \in DOMAIN nodes : n \in Children(p)}) = 1
        /\ \A p \in DOMAIN nodes : n \in Children(p) => p < n /\ nodes[p].dir

(* A path that leads to a file leads to the same file ever after: a second *)
(* file of the same name does not take its place.                          *)
LookupStable ==
    [][\A arg \in Args : vfs_lookup(arg) # NONE => vfs_lookup(arg)' = vfs_lookup(arg)
      ]_fs_vars

(* Descriptors are given back: none is in use between two commands, one    *)
(* during a write, so that sys_open fails only for a path that leads       *)
(* nowhere.                                                                *)
DescriptorsClosed ==
    /\ {f \in Fd : fd_table[f].used} = {cmd.fd} \ {FAIL}
    /\ cmd = NoCommand => fd_alloc # FAIL

\* What file n will hold when the write in progress, if it is to n, is done.
Content(n) ==
    LET size == nodes[n].size
        text == Joined(cmd.left)
        now == SubSeq(nodes[n].data, 1, size) IN
    IF cmd = NoCommand \/ nodes[n].dir \/ Desc.node # n
    THEN now
    ELSE SubSeq(now, 1, Desc.offset) \o text
             \o SubSeq(now, Desc.offset + Len(text) + 1, size)

Store == INSTANCE FileStore
    WITH Text <- {Joined(Buffers(t)) : t \in Texts},
         content <- [n \in DOMAIN nodes |-> Content(n)],
         display <- shown

(* The file system implements FileStore: whatever the sizes of the texts   *)
(* and however a file's memory has to grow between two words, a write      *)
(* leaves the file with its text over the beginning and nothing else       *)
(* changed, no byte of fresh memory is ever part of a file, and rd shows   *)
(* all of the file.                                                        *)
FileStoreRefinement == Store!StoreSpec
=============================================================================
