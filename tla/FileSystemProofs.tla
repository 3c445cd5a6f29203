-------------------------- MODULE FileSystemProofs --------------------------
(***************************************************************************)
(* The file system, for every set of arguments and texts and every limit.  *)
(***************************************************************************)
EXTENDS FileSystem, FiniteSetTheorems, NaturalsInduction, SequenceTheorems,
        WellFoundedInduction, TLAPS

(* A set of natural numbers that is not empty has a least one. *)
LEMMA LeastNat ==
    ASSUME NEW T, T \subseteq Nat, T # {}
    PROVE  \E x \in T : \A y \in T : x <= y
<1> DEFINE R == {ss \in Nat \X Nat : ss[1] < ss[2]}
<1>1. IsWellFoundedOn(R, Nat)
  BY ONLY NatLessThanWellFounded, Zenon DEF OpToRel
<1>2. \E x \in T : \A y \in T : ~ (<<y, x>> \in R)
  <2> HIDE DEF R
  <2> QED BY <1>1, WFMin
<1>3. \A x, y \in T : ~ (<<y, x>> \in R) => x <= y
  OBVIOUS
<1> QED BY <1>2, <1>3

(* So Min of a set of natural numbers is one of them, the least. *)
LEMMA MinIs ==
    ASSUME NEW T, T \subseteq Nat, T # {}
    PROVE  Min(T) \in T /\ \A y \in T : Min(T) <= y
BY LeastNat DEF Min

(* A sequence with one more element. *)
LEMMA AppendIs ==
    ASSUME NEW S, NEW q \in Seq(S), NEW x \in S, NEW m \in Nat, m = Len(q)
    PROVE  /\ Append(q, x) \in Seq(S) /\ Len(Append(q, x)) = m + 1 /\ Append(q, x) # <<>>
           /\ Append(q, x)[m + 1] = x
           /\ \A i \in 1 .. m : Append(q, x)[i] = q[i]
BY AppendProperties

\* One name of a path.
StepTo(x, name) == IF x = NONE THEN NONE ELSE vfs_check_mount(ramfs_lookup(x, name))

\* w is the walk of path_resolve from n.
IsWalk(w, n, parts, m) ==
    w = [k \in 0 .. m |-> IF k = 0 THEN n ELSE StepTo(w[k - 1], parts[k])]

(* path_resolve walks from name to name, for paths of every length.        *)
WalksExist ==
    \A n, parts : Len(parts) \in Nat =>
        \E w : IsWalk(w, n, parts, Len(parts)) /\ path_resolve(n, parts) = w[Len(parts)]

(* The function that path_resolve defines by recursion on the number of    *)
(* names exists: a shortest path without one would have a shorter one.     *)
LEMMA Walks == WalksExist
<1> SUFFICES ASSUME NEW n, NEW parts, Len(parts) \in Nat
             PROVE  \E w : IsWalk(w, n, parts, Len(parts)) /\ path_resolve(n, parts) = w[Len(parts)]
  BY DEF WalksExist
<1> DEFINE T == {m \in Nat : ~ \E w : IsWalk(w, n, parts, m)}
<1>1. T = {}
  <2> SUFFICES ASSUME T # {} PROVE FALSE
    OBVIOUS
  <2>1. T \subseteq Nat
    OBVIOUS
  <2>2. PICK m \in T : \A y \in T : m <= y
    <3> HIDE DEF T
    <3> QED BY <2>1, LeastNat
  <2>3. m \in Nat /\ ~ \E w : IsWalk(w, n, parts, m)
    OBVIOUS
  <2>4. CASE m = 0
    <3>1. IsWalk([k \in 0 .. 0 |-> n], n, parts, 0)
      BY DEF IsWalk
    <3> QED BY <2>3, <2>4, <3>1
  <2>5. CASE m # 0
    <3>1. m - 1 \in Nat /\ m - 1 \notin T
      BY <2>2, <2>3, <2>5
    <3>2. PICK v : IsWalk(v, n, parts, m - 1)
      BY <3>1
    <3> DEFINE w == [k \in 0 .. m |-> IF k = m THEN StepTo(v[m - 1], parts[m]) ELSE v[k]]
    <3>3. \A k \in 0 .. m - 1 : w[k] = v[k]
      BY <2>3
    <3>4. \A k \in 0 .. m - 1 : v[k] = IF k = 0 THEN n ELSE StepTo(v[k - 1], parts[k])
      BY <3>2 DEF IsWalk
    <3>5. w[m] = StepTo(v[m - 1], parts[m])
      BY <2>3
    <3>6. \A k \in 0 .. m : w[k] = IF k = 0 THEN n ELSE StepTo(w[k - 1], parts[k])
      <4> HIDE DEF w
      <4> TAKE k \in 0 .. m
      <4>1. CASE k = m
        BY <2>3, <2>5, <3>3, <3>5, <4>1
      <4>2. CASE k # m
        <5>1. k \in 0 .. m - 1 /\ (k # 0 => k - 1 \in 0 .. m - 1)
          BY <2>3, <4>2
        <5> QED BY <3>3, <3>4, <5>1
      <4> QED BY <4>1, <4>2
    <3>7. IsWalk(w, n, parts, m)
      <4>1. w = [k \in 0 .. m |-> w[k]]
        OBVIOUS
      <4> HIDE DEF w
      <4> QED BY <3>6, <4>1 DEF IsWalk
    <3> QED BY <2>3, <3>7
  <2> QED BY <2>4, <2>5
<1>2. \E w : IsWalk(w, n, parts, Len(parts))
  BY <1>1
<1> DEFINE Walk == CHOOSE w : IsWalk(w, n, parts, Len(parts))
<1>3. IsWalk(Walk, n, parts, Len(parts))
  <2> HIDE DEF T
  <2> QED BY <1>2
<1>4. path_resolve(n, parts) = Walk[Len(parts)]
  BY Zenon DEF path_resolve, IsWalk, StepTo
<1> QED BY <1>3, <1>4

(* The same of the state after a step. *)
LEMMA WalksNext == WalksExist'
BY Walks, PTL
-----------------------------------------------------------------------------
(* The inductive invariant. *)

NodeType ==
    [name : Args \cup {Plain(TMP), Slash}, dir : BOOLEAN, children : Seq(Nat),
     data : Seq(Byte), size : Nat]

Dirs == {1, 3}      \* the directories that a path can lead to

\* The nodes: the three directories of the boot, of which the one under the
\* mount stays empty, and files.
NodesOK ==
    /\ nodes \in Seq(NodeType) /\ Len(nodes) >= 3
    /\ mounts = << [mountpoint |-> 2, root |-> 3] >>
    /\ \A n \in 1 .. Len(nodes) :
          /\ nodes[n].dir = (n <= 3)
          /\ nodes[n].size <= Len(nodes[n].data)
          /\ Len(nodes[n].children) <= MAX_CHILDREN
          /\ \A i \in 1 .. Len(nodes[n].children) : nodes[n].children[i] \in 1 .. Len(nodes)
          /\ n \notin Dirs => nodes[n].children = <<>>
    /\ nodes[2].name = Plain(TMP)
    /\ nodes[1].children # <<>> /\ nodes[1].children[1] = 2

\* Every node but the two roots has one parent, an older directory.
ParentsOK ==
    \A n \in 1 .. Len(nodes) : n \notin Dirs =>
        \E p \in Dirs : p < n /\ \A q \in 1 .. Len(nodes) : n \in Children(q) <=> q = p

\* Descriptors and the command in progress.
DescriptorsOK ==
    /\ cwd \in Dirs
    /\ fd_table \in [Fd -> [used : BOOLEAN, node : Nat, offset : Nat]]
    /\ cmd \in [fd : Fd \cup {FAIL}, left : Seq(Seq(Byte))]
    /\ cmd.fd = FAIL => cmd = NoCommand
    /\ \A f \in Fd : /\ fd_table[f].used <=> f = cmd.fd
                     /\ fd_table[f].used => fd_table[f].node \in 1 .. Len(nodes) /\ fd_table[f].node # 2
    /\ halted \in BOOLEAN

FsInv == NodesOK /\ ParentsOK /\ DescriptorsOK
-----------------------------------------------------------------------------
(* Paths. *)

(* The fields of a node. *)
LEMMA NodeFields ==
    ASSUME NodesOK, NEW n \in 1 .. Len(nodes)
    PROVE  /\ nodes[n] \in NodeType /\ nodes[n].children \in Seq(Nat)
           /\ nodes[n].data \in Seq(Byte) /\ nodes[n].size \in Nat
           /\ Len(nodes[n].children) \in Nat /\ Len(nodes[n].data) \in Nat
           /\ DOMAIN nodes[n].children = 1 .. Len(nodes[n].children)
           /\ DOMAIN nodes = 1 .. Len(nodes) /\ Len(nodes) \in Nat
<1>1. nodes \in Seq(NodeType)
  BY DEF NodesOK
<1>2. nodes[n] \in NodeType /\ DOMAIN nodes = 1 .. Len(nodes) /\ Len(nodes) \in Nat
  BY <1>1
<1>3. nodes[n].children \in Seq(Nat) /\ nodes[n].data \in Seq(Byte) /\ nodes[n].size \in Nat
  BY <1>2 DEF NodeType
<1> QED BY <1>2, <1>3

(* The numbers of the nodes. *)
LEMMA NodesRange ==
    ASSUME NodesOK
    PROVE  \E m \in Nat : m = Len(nodes) /\ DOMAIN nodes = 1 .. m /\ m >= 3
<1>1. nodes \in Seq(NodeType) /\ Len(nodes) >= 3
  BY DEF NodesOK
<1>2. Len(nodes) \in Nat /\ DOMAIN nodes = 1 .. Len(nodes)
  BY <1>1
<1> QED BY <1>1, <1>2

\* The places of a name in a directory.
Hits(n, name) ==
    {i \in DOMAIN nodes[n].children : nodes[nodes[n].children[i]].name = Plain(name)}

(* ramfs_lookup gives the first child of the name. *)
LEMMA LookupIs ==
    ASSUME NodesOK, NEW n \in 1 .. Len(nodes), NEW name
    PROVE  /\ Hits(n, name) = {} => ramfs_lookup(n, name) = NONE
           /\ Hits(n, name) # {} =>
                 /\ ramfs_lookup(n, name) = nodes[n].children[Min(Hits(n, name))]
                 /\ Min(Hits(n, name)) \in Hits(n, name)
                 /\ \A i \in Hits(n, name) : Min(Hits(n, name)) <= i
           /\ Hits(n, name) \subseteq 1 .. Len(nodes[n].children)
           /\ ramfs_lookup(n, name) \in {NONE} \cup 1 .. Len(nodes)
<1>1. Hits(n, name) \subseteq 1 .. Len(nodes[n].children) /\ Hits(n, name) \subseteq Nat
  BY NodeFields DEF Hits
<1>2. ramfs_lookup(n, name) = IF Hits(n, name) = {} THEN NONE
                              ELSE nodes[n].children[Min(Hits(n, name))]
  BY DEF ramfs_lookup, Hits
<1>3. CASE Hits(n, name) = {}
  BY <1>1, <1>2, <1>3
<1>4. CASE Hits(n, name) # {}
  <2>1. Min(Hits(n, name)) \in Hits(n, name) /\ \A i \in Hits(n, name) : Min(Hits(n, name)) <= i
    BY <1>1, <1>4, MinIs
  <2>2. nodes[n].children[Min(Hits(n, name))] \in 1 .. Len(nodes)
    BY <1>1, <2>1 DEF NodesOK
  <2> QED BY <1>1, <1>2, <1>4, <2>1, <2>2
<1> QED BY <1>3, <1>4

(* vfs_check_mount leads from the covered directory to the root that is    *)
(* mounted on it.                                                          *)
LEMMA MountIs ==
    ASSUME NodesOK, NEW n
    PROVE  vfs_check_mount(n) = IF n = 2 THEN 3 ELSE n
<1> DEFINE hits == {i \in DOMAIN mounts : mounts[i].mountpoint = n}
<1>1. DOMAIN mounts = {1} /\ mounts[1].mountpoint = 2 /\ mounts[1].root = 3
  BY DEF NodesOK
<1>2. CASE n = 2
  <2>1. hits = {1}
    BY <1>1, <1>2
  <2>2. Min({1}) = 1
    BY MinIs
  <2> QED BY <1>1, <1>2, <2>1, <2>2 DEF vfs_check_mount
<1>3. CASE n # 2
  <2>1. hits = {}
    BY <1>1, <1>3
  <2> QED BY <1>3, <2>1 DEF vfs_check_mount
<1> QED BY <1>2, <1>3

\* Where a path may lead.
Targets == {NONE} \cup {n \in 1 .. Len(nodes) : n # 2}

(* A step of a walk stays in the tree, above the mount. *)
LEMMA StepStays ==
    ASSUME NodesOK, NEW x \in Targets, NEW name
    PROVE  StepTo(x, name) \in Targets
<1>1. CASE x = NONE
  BY <1>1 DEF StepTo, Targets
<1>2. CASE x # NONE
  <2>1. x \in 1 .. Len(nodes) /\ 3 \in 1 .. Len(nodes)
    BY <1>2, NodeFields DEF Targets, NodesOK
  <2>2. ramfs_lookup(x, name) \in {NONE} \cup 1 .. Len(nodes)
    BY <2>1, LookupIs
  <2> QED BY <1>2, <2>1, <2>2, MountIs DEF StepTo, Targets, NONE
<1> QED BY <1>1, <1>2

(* A path leads nowhere or to a node that is not covered. *)
LEMMA PathStays ==
    ASSUME NodesOK, NEW n \in Targets, NEW parts, Len(parts) \in Nat
    PROVE  path_resolve(n, parts) \in Targets
<1>1. PICK w : IsWalk(w, n, parts, Len(parts)) /\ path_resolve(n, parts) = w[Len(parts)]
  BY Walks DEF WalksExist
<1> DEFINE m == Len(parts)
<1>2. \A k \in 0 .. m : w[k] = IF k = 0 THEN n ELSE StepTo(w[k - 1], parts[k])
  BY <1>1 DEF IsWalk
<1> DEFINE T == {k \in 0 .. m : w[k] \notin Targets}
<1>3. T = {}
  <2> SUFFICES ASSUME T # {} PROVE FALSE
    OBVIOUS
  <2>1. T \subseteq Nat
    OBVIOUS
  <2>2. PICK k \in T : \A y \in T : k <= y
    <3> HIDE DEF T
    <3> QED BY <2>1, LeastNat
  <2>3. CASE k = 0
    BY <1>2, <2>3
  <2>4. CASE k # 0
    <3>1. k - 1 \in 0 .. m /\ k - 1 \notin T
      BY <2>2, <2>4
    <3>2. w[k - 1] \in Targets
      BY <3>1
    <3>3. w[k] = StepTo(w[k - 1], parts[k])
      BY <1>2, <2>4
    <3> QED BY <3>2, <3>3, StepStays
  <2> QED BY <2>3, <2>4
<1> QED BY <1>1, <1>3

(* The arguments of the commands. *)
LEMMA ArgsLead ==
    ASSUME NodesOK, NEW arg \in Args, cwd \in Dirs
    PROVE  vfs_lookup(arg) \in Targets /\ FromCwd(arg) \in Targets
<1>1. Len(arg.parts) \in Nat
  BY FileSystemAssumption
<1>2. vfs_root \in Targets /\ cwd \in Targets
  BY NodeFields DEF NodesOK, Targets, Dirs, vfs_root
<1> QED BY <1>1, <1>2, PathStays DEF vfs_lookup, FromCwd

(* mkr always finds the mounted file system. *)
LEMMA TmpLeads ==
    ASSUME NodesOK
    PROVE  vfs_lookup(Plain(TMP)) = 3
<1> DEFINE parts == <<TMP>>
<1>1. Len(parts) = 1 /\ parts[1] = TMP
  OBVIOUS
<1>2. PICK w : IsWalk(w, 1, parts, 1) /\ path_resolve(1, parts) = w[1]
  BY <1>1, Walks DEF WalksExist
<1>3. w[0] = 1 /\ w[1] = StepTo(w[0], TMP)
  BY <1>1, <1>2 DEF IsWalk
<1>4. 1 \in 1 .. Len(nodes)
  BY DEF NodesOK
<1>5. 1 \in Hits(1, TMP)
  <2>1. Len(nodes[1].children) \in Nat /\ DOMAIN nodes[1].children = 1 .. Len(nodes[1].children)
        /\ nodes[1].children \in Seq(Nat)
    BY <1>4, NodeFields
  <2>2. 1 \in DOMAIN nodes[1].children
    BY <2>1 DEF NodesOK
  <2> QED BY <2>2 DEF Hits, NodesOK
<1>6. Min(Hits(1, TMP)) = 1
  <2>1. Hits(1, TMP) \subseteq 1 .. Len(nodes[1].children)
        /\ Min(Hits(1, TMP)) \in Hits(1, TMP) /\ Min(Hits(1, TMP)) <= 1
    BY <1>4, <1>5, LookupIs
  <2> QED BY <2>1
<1>7. ramfs_lookup(1, TMP) = 2
  BY <1>4, <1>5, <1>6, LookupIs DEF NodesOK
<1>8. StepTo(1, TMP) = 3
  BY <1>7, MountIs DEF StepTo, NONE
<1> QED BY <1>2, <1>3, <1>8 DEF vfs_lookup, vfs_root, Plain
-----------------------------------------------------------------------------
(* The nodes that a command leaves. *)

(* A node after mk or mkr made one in directory p. *)
LEMMA ChildAdded ==
    ASSUME NodesOK, NEW p \in Dirs, NEW arg \in Args, nodes' = WithChild(p, arg)
    PROVE  /\ nodes' \in Seq(NodeType) /\ Len(nodes') = Len(nodes) + 1
           /\ \A n \in 1 .. Len(nodes) :
                 /\ nodes'[n].name = nodes[n].name /\ nodes'[n].dir = nodes[n].dir
                 /\ nodes'[n].data = nodes[n].data /\ nodes'[n].size = nodes[n].size
                 /\ nodes'[n].children = IF n = p THEN Append(nodes[n].children, Len(nodes) + 1)
                                         ELSE nodes[n].children
           /\ nodes'[Len(nodes) + 1] = Node(arg, FALSE)
<1>1. PICK m \in Nat : m = Len(nodes)
  BY DEF NodesOK
<1> DEFINE old == [nodes EXCEPT ![p].children = Append(@, m + 1)]
<1>2. nodes \in Seq(NodeType) /\ m = Len(nodes) /\ p \in 1 .. m /\ m >= 3
  BY <1>1 DEF NodesOK, Dirs
<1>3. nodes[p] \in NodeType /\ nodes[p].children \in Seq(Nat) /\ m + 1 \in Nat
  BY <1>2, NodeFields
<1>4. Append(nodes[p].children, m + 1) \in Seq(Nat)
  BY <1>3
<1> DEFINE np == [nodes[p] EXCEPT !.children = Append(nodes[p].children, m + 1)]
<1>5. /\ np \in NodeType /\ np.children = Append(nodes[p].children, m + 1)
      /\ np.name = nodes[p].name /\ np.dir = nodes[p].dir
      /\ np.data = nodes[p].data /\ np.size = nodes[p].size
  BY <1>3, <1>4 DEF NodeType
<1>6. old = [nodes EXCEPT ![p] = np]
  OBVIOUS
<1> HIDE DEF np, old
<1>7. old \in Seq(NodeType) /\ Len(old) = m /\ \A n \in 1 .. m : old[n] = IF n = p THEN np ELSE nodes[n]
  BY <1>2, <1>5, <1>6
<1>8. Node(arg, FALSE) \in NodeType
  BY DEF Node, NodeType
<1>9. nodes' = Append(old, Node(arg, FALSE))
  BY <1>1 DEF WithChild, old
<1>10. PICK x \in NodeType : x = Node(arg, FALSE)
  BY <1>8
<1>11. /\ nodes' \in Seq(NodeType) /\ Len(nodes') = m + 1
       /\ \A n \in 1 .. m : nodes'[n] = old[n]
       /\ nodes'[m + 1] = Node(arg, FALSE)
  <2>1. old \in Seq(NodeType) /\ m = Len(old)
    BY <1>7
  <2>2. /\ Append(old, x) \in Seq(NodeType) /\ Len(Append(old, x)) = m + 1
        /\ Append(old, x)[m + 1] = x
    BY <2>1
  <2>3. \A n \in 1 .. m : Append(old, x)[n] = old[n]
    BY <2>1
  <2> QED BY <1>9, <1>10, <2>2, <2>3, Zenon
<1>12. \A n \in 1 .. m :
          /\ nodes'[n].name = nodes[n].name /\ nodes'[n].dir = nodes[n].dir
          /\ nodes'[n].data = nodes[n].data /\ nodes'[n].size = nodes[n].size
          /\ nodes'[n].children = IF n = p THEN Append(nodes[n].children, m + 1)
                                  ELSE nodes[n].children
  BY <1>5, <1>7, <1>11
<1> QED BY <1>1, <1>11, <1>12

(* The nodes and the tree are sound after mk and mkr. *)
LEMMA CreateKeeps ==
    ASSUME NodesOK, ParentsOK, NEW p \in Dirs, NEW arg \in Args, ramfs_create(p, arg),
           UNCHANGED mounts
    PROVE  NodesOK' /\ ParentsOK' /\ Len(nodes') >= Len(nodes)
<1>1. CASE nodes' = nodes
  <2>1. NodesOK'
    BY <1>1 DEF NodesOK
  <2>2. ParentsOK'
    BY <1>1 DEF ParentsOK, Children
  <2>3. Len(nodes) \in Nat
    BY DEF NodesOK
  <2> QED BY <1>1, <2>1, <2>2, <2>3
<1>2. CASE Len(nodes[p].children) < MAX_CHILDREN /\ nodes' = WithChild(p, arg)
  <2>1. PICK m \in Nat : m = Len(nodes)
    BY DEF NodesOK
  <2>2. /\ nodes' \in Seq(NodeType) /\ Len(nodes') = m + 1
        /\ nodes'[m + 1] = Node(arg, FALSE)
    BY <1>2, <2>1, ChildAdded
  <2>3. \A n \in 1 .. m :
          /\ nodes'[n].name = nodes[n].name /\ nodes'[n].dir = nodes[n].dir
          /\ nodes'[n].data = nodes[n].data /\ nodes'[n].size = nodes[n].size
          /\ nodes'[n].children = IF n = p THEN Append(nodes[n].children, m + 1)
                                  ELSE nodes[n].children
    BY <1>2, <2>1, ChildAdded
  <2>4. m >= 3 /\ p \in 1 .. m /\ nodes[p].children \in Seq(Nat)
    <3>1. m >= 3 /\ p \in 1 .. m
      BY <2>1 DEF NodesOK, Dirs
    <3> QED BY <2>1, <3>1, NodeFields
  <2>5. PICK l \in Nat : l = Len(nodes[p].children)
    BY <2>4
  <2> DEFINE cs == Append(nodes[p].children, m + 1)
  <2>6. /\ cs \in Seq(Nat) /\ Len(cs) = l + 1 /\ cs[l + 1] = m + 1 /\ cs # <<>>
        /\ \A i \in 1 .. l : cs[i] = nodes[p].children[i]
    <3>1. PICK x \in Nat : x = m + 1
      OBVIOUS
    <3> DEFINE q == nodes[p].children
    <3>2. /\ Append(q, x) \in Seq(Nat) /\ Len(Append(q, x)) = l + 1 /\ Append(q, x) # <<>>
          /\ Append(q, x)[l + 1] = x
          /\ \A i \in 1 .. l : Append(q, x)[i] = q[i]
      <4>1. q \in Seq(Nat) /\ l = Len(q)
        BY <2>4, <2>5
      <4> HIDE DEF q
      <4> QED BY <2>5, <3>1, <4>1, AppendIs
    <3> QED BY <3>1, <3>2, Zenon
  <2>7. /\ nodes'[m + 1].dir = FALSE /\ nodes'[m + 1].children = <<>>
        /\ nodes'[m + 1].data = <<>> /\ nodes'[m + 1].size = 0
    BY <2>2 DEF Node
  <2>8. \A n \in 1 .. m + 1 : n = m + 1 \/ n \in 1 .. m
    BY <2>4
  <2> HIDE DEF cs
  <2>9. ASSUME NEW n \in 1 .. m + 1
        PROVE  /\ nodes'[n].dir = (n <= 3)
               /\ nodes'[n].size <= Len(nodes'[n].data)
               /\ Len(nodes'[n].children) <= MAX_CHILDREN
               /\ \A i \in 1 .. Len(nodes'[n].children) : nodes'[n].children[i] \in 1 .. m + 1
               /\ n \notin Dirs => nodes'[n].children = <<>>
    <3>1. CASE n = m + 1
      <4>1. ~ (n <= 3) /\ Len(<<>>) = 0 /\ MAX_CHILDREN \in Nat
        BY <2>4, <3>1, FileSystemAssumption
      <4>2. nodes'[n].dir = (n <= 3)
        <5>1. (n <= 3) = FALSE
          BY <4>1
        <5> QED BY <2>7, <3>1, <5>1, Zenon
      <4> QED BY <2>7, <3>1, <4>1, <4>2
    <3>2. CASE n \in 1 .. m /\ n # p
      <4>1. /\ nodes'[n].dir = nodes[n].dir /\ nodes'[n].size = nodes[n].size
            /\ nodes'[n].data = nodes[n].data /\ nodes'[n].children = nodes[n].children
        BY <2>3, <3>2
      <4>2. \A i \in 1 .. Len(nodes[n].children) : nodes[n].children[i] \in 1 .. m
        BY <2>1, <3>2 DEF NodesOK
      <4>3. 1 .. m \subseteq 1 .. m + 1
        BY <2>4
      <4> QED BY <2>1, <3>2, <4>1, <4>2, <4>3 DEF NodesOK
    <3>3. CASE n = p
      <4>1. /\ nodes'[n].dir = nodes[n].dir /\ nodes'[n].size = nodes[n].size
            /\ nodes'[n].data = nodes[n].data /\ nodes'[n].children = cs
        BY <2>3, <2>4, <3>3 DEF cs
      <4>2. \A i \in 1 .. l : nodes[p].children[i] \in 1 .. m
        BY <2>1, <2>4, <2>5 DEF NodesOK
      <4>3. l + 1 <= MAX_CHILDREN
        BY <1>2, <2>5, FileSystemAssumption
      <4>4. \A i \in 1 .. l + 1 : cs[i] \in 1 .. m + 1
        <5> SUFFICES ASSUME NEW i \in 1 .. l + 1 PROVE cs[i] \in 1 .. m + 1
          OBVIOUS
        <5>1. CASE i = l + 1
          BY <2>6, <5>1
        <5>2. CASE i # l + 1
          BY <2>6, <4>2, <5>2
        <5> QED BY <5>1, <5>2
      <4> QED BY <2>1, <2>4, <2>6, <3>3, <4>1, <4>3, <4>4 DEF NodesOK
    <3> QED BY <2>8, <3>1, <3>2, <3>3
  <2>10. /\ nodes'[2].name = Plain(TMP)
         /\ nodes'[1].children # <<>> /\ nodes'[1].children[1] = 2
    <3>1. 1 \in 1 .. m /\ 2 \in 1 .. m
      BY <2>4
    <3>2. nodes'[2].name = Plain(TMP)
      BY <2>3, <3>1 DEF NodesOK
    <3>3. CASE p = 1
      <4>1. 1 \in 1 .. l
        BY <2>4, <2>5, <3>3 DEF NodesOK
      <4> QED BY <2>3, <2>6, <3>1, <3>2, <3>3, <4>1 DEF NodesOK, cs
    <3>4. CASE p # 1
      BY <2>3, <3>1, <3>2, <3>4 DEF NodesOK
    <3> QED BY <3>3, <3>4
  <2>11. NodesOK'
    <3>1. Len(nodes') >= 3
      BY <2>2, <2>4
    <3>2. mounts' = << [mountpoint |-> 2, root |-> 3] >>
      BY DEF NodesOK
    <3> QED BY <2>2, <2>9, <2>10, <3>1, <3>2 DEF NodesOK
  <2>12. \A q \in 1 .. m : Children(q)' = IF q = p THEN Children(q) \cup {m + 1} ELSE Children(q)
    <3> SUFFICES ASSUME NEW q \in 1 .. m
                 PROVE  Children(q)' = IF q = p THEN Children(q) \cup {m + 1} ELSE Children(q)
      OBVIOUS
    <3>1. CASE q # p
      BY <2>3, <3>1 DEF Children
    <3>2. CASE q = p
      <4>1. nodes'[q].children = cs
        BY <2>3, <3>2 DEF cs
      <4>2. DOMAIN nodes[q].children = 1 .. l /\ DOMAIN cs = 1 .. l + 1
        BY <2>4, <2>6, <2>5, <3>2
      <4>3. \A i \in 1 .. l + 1 : i = l + 1 \/ i \in 1 .. l
        OBVIOUS
      <4>4. l + 1 \in 1 .. l + 1 /\ 1 .. l \subseteq 1 .. l + 1
        OBVIOUS
      <4> QED BY <2>6, <3>2, <4>1, <4>2, <4>3, <4>4 DEF Children
    <3> QED BY <3>1, <3>2
  <2>13. Children(m + 1)' = {}
    BY <2>7 DEF Children
  <2>14. \A q \in 1 .. m : Children(q) \subseteq 1 .. m
    BY <2>1, NodeFields DEF Children, NodesOK
  <2>15. ASSUME NEW n \in 1 .. m + 1, n \notin Dirs
         PROVE  \E d \in Dirs : d < n /\ \A q \in 1 .. m + 1 : n \in Children(q)' <=> q = d
    <3>1. CASE n = m + 1
      <4>1. p < n /\ p # m + 1 /\ n \notin 1 .. m
        BY <2>4, <3>1
      <4>2. \A q \in 1 .. m + 1 : n \in Children(q)' <=> q = p
        BY <2>8, <2>12, <2>13, <2>14, <3>1, <4>1
      <4> QED BY <4>1, <4>2
    <3>2. CASE n \in 1 .. m
      <4>1. PICK d \in Dirs : d < n /\ \A q \in 1 .. m : n \in Children(q) <=> q = d
        BY <2>1, <2>15, <3>2 DEF ParentsOK
      <4>2. n # m + 1 /\ d # m + 1
        BY <2>4, <3>2 DEF Dirs
      <4>3. \A q \in 1 .. m + 1 : n \in Children(q)' <=> q = d
        BY <2>8, <2>12, <2>13, <4>1, <4>2
      <4> QED BY <4>1, <4>3
    <3> QED BY <2>8, <3>1, <3>2
  <2>16. ParentsOK'
    BY <2>2, <2>15 DEF ParentsOK, Dirs
  <2> QED BY <2>1, <2>2, <2>4, <2>11, <2>16
<1> QED BY <1>1, <1>2 DEF ramfs_create

(* A file after a sys_write: what it holds is as long as its size says. *)
LEMMA WrittenIs ==
    ASSUME NodesOK, NEW n \in 1 .. Len(nodes), NEW offset \in Nat, NEW buf \in Seq(Byte)
    PROVE  /\ Written(n, offset, buf) \in NodeType
           /\ Written(n, offset, buf).name = nodes[n].name
           /\ Written(n, offset, buf).dir = nodes[n].dir
           /\ Written(n, offset, buf).children = nodes[n].children
           /\ Written(n, offset, buf).size <= Len(Written(n, offset, buf).data)
<1>1. /\ nodes[n] \in NodeType /\ nodes[n].data \in Seq(Byte) /\ nodes[n].size \in Nat
      /\ nodes[n].size <= Len(nodes[n].data)
  BY NodeFields DEF NodesOK
<1>2. PICK l \in Nat : l = Len(buf)
  OBVIOUS
<1>3. PICK cap \in Nat : cap = Len(nodes[n].data) /\ nodes[n].size <= cap
  BY <1>1
<1>4. PICK end \in Nat : end = offset + l
  BY <1>2
<1>5. GARBAGE \in Byte
  BY DEF Byte
<1> DEFINE data == Grown(n, end)
           size == Max({end, nodes[n].size})
           new == [i \in DOMAIN data |->
                      IF offset < i /\ i <= end THEN buf[i - offset] ELSE data[i]]
<1>6. PICK top \in Nat : top = IF end > cap THEN end ELSE cap
  OBVIOUS
<1>7. DOMAIN data = 1 .. top /\ \A i \in 1 .. top : data[i] \in Byte
  <2>1. CASE end > cap
    <3>1. data = [i \in 1 .. top |-> IF i <= nodes[n].size THEN nodes[n].data[i] ELSE GARBAGE]
      BY <1>3, <1>6, <2>1 DEF Grown
    <3>2. \A i \in 1 .. top : i <= nodes[n].size => nodes[n].data[i] \in Byte
      BY <1>1, <1>3
    <3> HIDE DEF data
    <3> QED BY <1>5, <3>1, <3>2
  <2>2. CASE ~ (end > cap)
    <3>1. data = nodes[n].data /\ top = cap
      BY <1>3, <1>6, <2>2 DEF Grown
    <3> HIDE DEF data
    <3> QED BY <1>1, <1>3, <3>1
  <2> QED BY <2>1, <2>2
<1> HIDE DEF data
<1>8. \A i \in 1 .. top : (IF offset < i /\ i <= end THEN buf[i - offset] ELSE data[i]) \in Byte
  <2> SUFFICES ASSUME NEW i \in 1 .. top
               PROVE  (IF offset < i /\ i <= end THEN buf[i - offset] ELSE data[i]) \in Byte
    OBVIOUS
  <2>1. CASE offset < i /\ i <= end
    <3>1. i - offset \in 1 .. Len(buf)
      BY <1>2, <1>4, <2>1
    <3> QED BY <2>1, <3>1
  <2>2. CASE ~ (offset < i /\ i <= end)
    BY <1>7, <2>2
  <2> QED BY <2>1, <2>2
<1>9. new \in Seq(Byte) /\ Len(new) = top
  BY <1>7, <1>8
<1>10. size \in Nat /\ (size = end \/ size = nodes[n].size) /\ size <= top
  <2>1. \A a, b \in Nat : Max({a, b}) \in {a, b}
    BY DEF Max
  <2>2. size \in {end, nodes[n].size}
    BY <1>1, <2>1
  <2> HIDE DEF size
  <2> QED BY <1>1, <1>3, <1>6, <2>2
<1>11. Written(n, offset, buf) = [nodes[n] EXCEPT !.data = new, !.size = size]
  BY <1>2, <1>4 DEF Written, data
<1> HIDE DEF new, size
<1> QED BY <1>1, <1>9, <1>10, <1>11 DEF NodeType

(* The nodes and the tree after a sys_write. *)
LEMMA WriteKeeps ==
    ASSUME NodesOK, ParentsOK, NEW n \in 1 .. Len(nodes), NEW offset \in Nat,
           NEW buf \in Seq(Byte), nodes' = [nodes EXCEPT ![n] = Written(n, offset, buf)],
           UNCHANGED mounts
    PROVE  /\ NodesOK' /\ ParentsOK' /\ Len(nodes') = Len(nodes)
           /\ \A i \in 1 .. Len(nodes) : /\ nodes'[i].name = nodes[i].name
                                         /\ nodes'[i].children = nodes[i].children
<1>1. PICK m \in Nat : m = Len(nodes) /\ m >= 3 /\ n \in 1 .. m
  BY DEF NodesOK
<1>2. PICK w \in NodeType :
         /\ w = Written(n, offset, buf)
         /\ w.name = nodes[n].name /\ w.dir = nodes[n].dir /\ w.children = nodes[n].children
         /\ w.size <= Len(w.data)
  BY WrittenIs
<1>3. nodes \in Seq(NodeType)
  BY DEF NodesOK
<1>4. /\ nodes' \in Seq(NodeType) /\ Len(nodes') = m
      /\ \A i \in 1 .. m : nodes'[i] = IF i = n THEN w ELSE nodes[i]
  BY <1>1, <1>2, <1>3
<1>5. \A i \in 1 .. m : /\ nodes'[i].name = nodes[i].name /\ nodes'[i].dir = nodes[i].dir
                        /\ nodes'[i].children = nodes[i].children
                        /\ nodes'[i].size <= Len(nodes'[i].data)
  BY <1>1, <1>2, <1>4 DEF NodesOK
<1>6. NodesOK'
  <2>1. 1 \in 1 .. m /\ 2 \in 1 .. m
    BY <1>1
  <2> QED BY <1>1, <1>4, <1>5, <2>1 DEF NodesOK, Dirs
<1>7. \A q \in 1 .. m : Children(q)' = Children(q)
  BY <1>5 DEF Children
<1>8. ParentsOK'
  BY <1>1, <1>4, <1>7 DEF ParentsOK, Dirs
<1> QED BY <1>1, <1>4, <1>5, <1>6, <1>8
-----------------------------------------------------------------------------
(* The commands. *)

(* The invariant after kernel_boot has made and mounted the directories. *)
LEMMA FsStart == FsInit => FsInv
<1> SUFFICES ASSUME FsInit PROVE FsInv
  OBVIOUS
<1>1. /\ nodes = << [Node(Slash, TRUE) EXCEPT !.children = <<2>>], Node(Plain(TMP), TRUE),
                    Node(Slash, TRUE) >>
      /\ mounts = << [mountpoint |-> 2, root |-> 3] >> /\ cwd = 1
      /\ fd_table = [f \in Fd |-> [used |-> FALSE, node |-> NONE, offset |-> 0]]
      /\ cmd = NoCommand /\ halted = FALSE
  BY DEF FsInit, vfs_root
<1>2. Len(nodes) = 3 /\ nodes[1] = [Node(Slash, TRUE) EXCEPT !.children = <<2>>]
      /\ nodes[2] = Node(Plain(TMP), TRUE) /\ nodes[3] = Node(Slash, TRUE)
  BY <1>1
<1>3. \A n \in 1 .. 3 : n = 1 \/ n = 2 \/ n = 3
  OBVIOUS
<1>4. PICK two \in Seq(Nat) : two = <<2>>
  <2>1. <<2>> \in Seq(Nat)
    OBVIOUS
  <2> QED BY <2>1, Zenon
<1>5. PICK none : none = <<>> /\ none \in Seq(Nat) /\ none \in Seq(Byte)
  <2>1. <<>> \in Seq(Nat) /\ <<>> \in Seq(Byte)
    OBVIOUS
  <2> QED BY <2>1, Zenon
<1>6. /\ nodes[1] \in NodeType /\ nodes[1].dir = TRUE /\ nodes[1].size = 0
      /\ nodes[1].data = <<>> /\ nodes[1].children = <<2>>
  <2>1. nodes[1] = [name |-> Slash, dir |-> TRUE, children |-> two, data |-> none, size |-> 0]
    BY <1>2, <1>4, <1>5 DEF Node
  <2>2. /\ nodes[1] \in NodeType /\ nodes[1].dir = TRUE /\ nodes[1].size = 0
        /\ nodes[1].data = none /\ nodes[1].children = two /\ nodes[1].name = Slash
    BY <1>4, <1>5, <2>1 DEF NodeType
  <2> QED BY <1>4, <1>5, <2>2
<1>7. /\ nodes[2] \in NodeType /\ nodes[2].dir = TRUE /\ nodes[2].size = 0
      /\ nodes[2].data = <<>> /\ nodes[2].children = <<>> /\ nodes[2].name = Plain(TMP)
  <2>1. nodes[2] = [name |-> Plain(TMP), dir |-> TRUE, children |-> none, data |-> none, size |-> 0]
    BY <1>2, <1>4, <1>5 DEF Node
  <2>2. /\ nodes[2] \in NodeType /\ nodes[2].dir = TRUE /\ nodes[2].size = 0
        /\ nodes[2].data = none /\ nodes[2].children = none /\ nodes[2].name = Plain(TMP)
    BY <1>4, <1>5, <2>1 DEF NodeType
  <2> QED BY <1>4, <1>5, <2>2
<1>8. /\ nodes[3] \in NodeType /\ nodes[3].dir = TRUE /\ nodes[3].size = 0
      /\ nodes[3].data = <<>> /\ nodes[3].children = <<>>
  <2>1. nodes[3] = [name |-> Slash, dir |-> TRUE, children |-> none, data |-> none, size |-> 0]
    BY <1>2, <1>4, <1>5 DEF Node
  <2>2. /\ nodes[3] \in NodeType /\ nodes[3].dir = TRUE /\ nodes[3].size = 0
        /\ nodes[3].data = none /\ nodes[3].children = none /\ nodes[3].name = Slash
    BY <1>4, <1>5, <2>1 DEF NodeType
  <2> QED BY <1>4, <1>5, <2>2
<1>9. nodes \in Seq(NodeType)
  <2>1. nodes = <<nodes[1], nodes[2], nodes[3]>>
    BY <1>1
  <2>2. PICK a \in NodeType, b \in NodeType, d \in NodeType : nodes = <<a, b, d>>
    BY <1>6, <1>7, <1>8, <2>1, Zenon
  <2> QED BY <2>2
<1>10. NodesOK
  <2>1. MAX_CHILDREN \in Nat /\ 1 <= MAX_CHILDREN /\ Len(<<2>>) = 1 /\ Len(<<>>) = 0
        /\ <<2>>[1] = 2 /\ <<2>> # <<>>
    BY FileSystemAssumption
  <2>2. ASSUME NEW n \in 1 .. 3
        PROVE  /\ nodes[n].dir = (n <= 3)
               /\ nodes[n].size <= Len(nodes[n].data)
               /\ Len(nodes[n].children) <= MAX_CHILDREN
               /\ \A i \in 1 .. Len(nodes[n].children) : nodes[n].children[i] \in 1 .. 3
               /\ n \notin Dirs => nodes[n].children = <<>>
    <3>1. (n <= 3) = TRUE /\ nodes[n].dir = TRUE
      BY <1>3, <1>6, <1>7, <1>8
    <3>2. nodes[n].dir = (n <= 3)
      BY <3>1, Zenon
    <3>3. nodes[n].data = <<>> /\ nodes[n].size = 0
      BY <1>3, <1>6, <1>7, <1>8
    <3>4. CASE n = 1
      <4>1. nodes[n].children = <<2>> /\ n \in Dirs
        BY <1>6, <3>4 DEF Dirs
      <4>2. \A i \in 1 .. Len(<<2>>) : <<2>>[i] \in 1 .. 3
        OBVIOUS
      <4>3. nodes[n].size <= Len(nodes[n].data) /\ Len(nodes[n].children) <= MAX_CHILDREN
        BY <2>1, <3>3, <4>1
      <4> QED BY <3>2, <4>1, <4>2, <4>3, Zenon
    <3>5. CASE n # 1
      BY <1>3, <1>7, <1>8, <2>1, <3>2, <3>3, <3>5
    <3> QED BY <3>4, <3>5
  <2>3. nodes[2].name = Plain(TMP) /\ nodes[1].children # <<>> /\ nodes[1].children[1] = 2
    BY <1>6, <1>7, <2>1, Zenon
  <2>4. Len(nodes) >= 3
    BY <1>2
  <2> QED BY <1>1, <1>2, <1>9, <2>2, <2>3, <2>4, Zenon DEF NodesOK
<1>11. ParentsOK
  <2>1. Children(1) = {2} /\ Children(2) = {} /\ Children(3) = {}
    BY <1>6, <1>7, <1>8 DEF Children
  <2> QED BY <1>2, <1>3, <2>1 DEF ParentsOK, Dirs
<1>12. DescriptorsOK
  <2>1. FAIL \notin Fd
    BY DEF FAIL, Fd
  <2>2. fd_table \in [Fd -> [used : BOOLEAN, node : Nat, offset : Nat]]
    BY <1>1 DEF NONE
  <2>3. cmd.fd = FAIL /\ cmd.left = <<>> /\ <<>> \in Seq(Seq(Byte))
    BY <1>1 DEF NoCommand
  <2>4. cmd \in [fd : Fd \cup {FAIL}, left : Seq(Seq(Byte))]
    BY <1>1, <2>3 DEF NoCommand
  <2>5. \A f \in Fd : fd_table[f].used = FALSE /\ f # cmd.fd
    BY <1>1, <2>1, <2>3
  <2> QED BY <1>1, <2>2, <2>4, <2>5 DEF DescriptorsOK, Dirs
<1> QED BY <1>10, <1>11, <1>12 DEF FsInv

(* sys_open takes a descriptor that is not in use. *)
LEMMA AllocIs ==
    ASSUME DescriptorsOK, cmd = NoCommand
    PROVE  fd_alloc \in Fd /\ fd_alloc # FAIL /\ \A f \in Fd : fd_table[f].used = FALSE
<1>1. FAIL \notin Fd /\ 0 \in Fd /\ Fd \subseteq Nat
  BY FileSystemAssumption DEF FAIL, Fd
<1>2. cmd.fd = FAIL
  BY DEF NoCommand
<1>3. \A f \in Fd : fd_table[f].used = FALSE
  BY <1>1, <1>2 DEF DescriptorsOK
<1> DEFINE unused == {f \in Fd : ~ fd_table[f].used}
<1>4. unused = Fd
  BY <1>3
<1>5. Min(Fd) \in Fd
  BY <1>1, MinIs
<1>6. fd_alloc = Min(Fd)
  BY <1>1, <1>4 DEF fd_alloc
<1> QED BY <1>1, <1>3, <1>5, <1>6

(* The descriptor of the write in progress. *)
LEMMA DescIs ==
    ASSUME DescriptorsOK, cmd # NoCommand
    PROVE  /\ cmd.fd \in Fd /\ cmd.fd # FAIL /\ Desc.node \in 1 .. Len(nodes) /\ Desc.node # 2
           /\ Desc.offset \in Nat /\ Desc.used
<1>1. cmd.fd \in Fd /\ cmd.fd # FAIL
  BY DEF DescriptorsOK, Fd, FAIL
<1>2. fd_table[cmd.fd] \in [used : BOOLEAN, node : Nat, offset : Nat]
  BY <1>1 DEF DescriptorsOK
<1> QED BY <1>1, <1>2 DEF DescriptorsOK, Desc

(* The buffers of a write are buffers of bytes. *)
LEMMA BuffersAre ==
    ASSUME NEW t \in Texts
    PROVE  Buffers(t) \in Seq(Seq(Byte))
<1>1. t \in Seq(Seq(Byte)) /\ t # <<>>
  BY FileSystemAssumption
<1>2. PICK m \in Nat : m = Len(t) /\ m >= 1
  BY <1>1
<1>3. <<SPACE>> \in Seq(Byte)
  BY DEF Byte
<1>4. PICK space \in Seq(Byte) : space = <<SPACE>>
  BY <1>3, Zenon
<1>5. \A i \in 1 .. 2 * m - 1 : i % 2 = 1 => (i + 1) \div 2 \in 1 .. m
  BY <1>2
<1>6. \A i \in 1 .. 2 * m - 1 : (IF i % 2 = 1 THEN t[(i + 1) \div 2] ELSE space) \in Seq(Byte)
  BY <1>1, <1>2, <1>5
<1>7. 2 * m - 1 \in Nat
  BY <1>2
<1>8. Buffers(t) = [i \in 1 .. 2 * m - 1 |-> IF i % 2 = 1 THEN t[(i + 1) \div 2] ELSE space]
  BY <1>2, <1>4 DEF Buffers
<1> QED BY <1>6, <1>7, <1>8

(* A step that leaves the nodes and the mounts alone keeps the tree. *)
LEMMA TreeKept ==
    ASSUME NodesOK, ParentsOK, UNCHANGED <<nodes, mounts>>
    PROVE  NodesOK' /\ ParentsOK'
<1>1. NodesOK'
  BY DEF NodesOK
<1>2. ParentsOK'
  BY DEF ParentsOK, Children
<1> QED BY <1>1, <1>2

(* Every step of the shell keeps the invariant. *)
LEMMA FsStep == FsInv /\ [FsNext]_fs_vars => FsInv'
<1> SUFFICES ASSUME FsInv, [FsNext]_fs_vars PROVE FsInv'
  OBVIOUS
<1> USE DEF FsInv
<1>1. PICK m \in Nat : m = Len(nodes) /\ m >= 3
  BY DEF NodesOK
<1>2. ASSUME cwd' \in Dirs, UNCHANGED <<nodes, mounts, fd_table, cmd, halted>>
      PROVE  FsInv'
  <2>1. DescriptorsOK'
    BY <1>2 DEF DescriptorsOK
  <2> QED BY <1>2, <2>1, TreeKept
<1>3. ASSUME NEW p \in Dirs, NEW arg \in Args, ramfs_create(p, arg),
             UNCHANGED <<mounts, cwd, fd_table, cmd>>
      PROVE  FsInv'
  <2>1. NodesOK' /\ ParentsOK' /\ Len(nodes') >= m
    BY <1>1, <1>3, CreateKeeps
  <2>2. halted' \in BOOLEAN
    BY <1>3 DEF ramfs_create, DescriptorsOK
  <2>3. Len(nodes') \in Nat
    BY <2>1 DEF NodesOK
  <2>4. DescriptorsOK'
    BY <1>1, <1>3, <2>1, <2>2, <2>3 DEF DescriptorsOK
  <2> QED BY <2>1, <2>4
<1>4. CASE CdRoot
  BY <1>2, <1>4 DEF CdRoot, vfs_root, Dirs
<1>5. ASSUME NEW arg \in Args, cmd_cd(arg) PROVE FsInv'
  <2>1. FromCwd(arg) \in Targets /\ cwd \in Dirs
    BY ArgsLead DEF DescriptorsOK
  <2>2. cwd' \in Dirs
    <3>1. CASE FromCwd(arg) # NONE /\ nodes[FromCwd(arg)].dir
      <4>1. FromCwd(arg) \in 1 .. m /\ FromCwd(arg) # 2
        BY <1>1, <2>1, <3>1 DEF Targets
      <4>2. nodes[FromCwd(arg)].dir = (FromCwd(arg) <= 3)
        BY <1>1, <4>1 DEF NodesOK
      <4>3. FromCwd(arg) <= 3
        BY <3>1, <4>2, Zenon
      <4>4. cwd' = FromCwd(arg)
        BY <1>5, <3>1 DEF cmd_cd
      <4> QED BY <4>1, <4>3, <4>4 DEF Dirs
    <3>2. CASE ~ (FromCwd(arg) # NONE /\ nodes[FromCwd(arg)].dir)
      BY <1>5, <2>1, <3>2 DEF cmd_cd
    <3> QED BY <3>1, <3>2
  <2> QED BY <1>2, <1>5, <2>2 DEF cmd_cd
<1>6. ASSUME NEW arg \in Args, cmd_mk(arg) PROVE FsInv'
  BY <1>3, <1>6 DEF cmd_mk, DescriptorsOK
<1>7. ASSUME NEW arg \in Args, cmd_mkr(arg) PROVE FsInv'
  <2>1. vfs_lookup(Plain(TMP)) = 3 /\ 3 \in Dirs
    BY TmpLeads DEF Dirs
  <2> QED BY <1>3, <1>7, <2>1 DEF cmd_mkr
<1>8. ASSUME NEW arg \in Args, NotFound(arg) PROVE FsInv'
  BY <1>2, <1>8 DEF NotFound, DescriptorsOK
<1>9. ASSUME NEW arg \in Args, Idle, Opens(arg)
      PROVE  /\ cmd = NoCommand /\ fd_alloc \in Fd /\ fd_alloc # FAIL
             /\ vfs_lookup(arg) \in 1 .. m /\ vfs_lookup(arg) # 2
             /\ \A f \in Fd : fd_table[f].used = FALSE
  <2>1. cmd = NoCommand
    BY <1>9 DEF Idle
  <2>2. vfs_lookup(arg) \in Targets
    BY ArgsLead DEF DescriptorsOK
  <2> QED BY <1>1, <1>9, <2>1, <2>2, AllocIs DEF Opens, Targets
<1>10. ASSUME NEW arg \in Args, cmd_rd(arg) PROVE FsInv'
  <2>1. Idle /\ Opens(arg)
    BY <1>10 DEF cmd_rd
  <2>2. /\ cmd = NoCommand /\ fd_alloc \in Fd /\ vfs_lookup(arg) \in 1 .. m
        /\ \A f \in Fd : fd_table[f].used = FALSE
    BY <1>9, <2>1
  <2>3. PICK r : r = Len(ramfs_read(vfs_lookup(arg), 0, READ_MAX))
    OBVIOUS
  <2>4. r \in Nat
    <3>1. ramfs_read(vfs_lookup(arg), 0, READ_MAX) \in Seq(Byte)
      <4>1. nodes[vfs_lookup(arg)].data \in Seq(Byte) /\ nodes[vfs_lookup(arg)].size \in Nat
            /\ nodes[vfs_lookup(arg)].size <= Len(nodes[vfs_lookup(arg)].data)
        BY <1>1, <2>2, NodeFields DEF NodesOK
      <4>2. READ_MAX \in Nat
        BY FileSystemAssumption
      <4> QED BY <4>1, <4>2 DEF ramfs_read
    <3> QED BY <2>3, <3>1
  <2>5. PICK x \in Nat : x = vfs_lookup(arg)
    BY <2>2
  <2>6. PICK d \in [used : BOOLEAN, node : Nat, offset : Nat] :
           d = Released(arg, r) /\ d.used = FALSE
    <3>1. Released(arg, r) \in [used : BOOLEAN, node : Nat, offset : Nat]
      BY <2>4, <2>5 DEF Released, Opened
    <3>2. Released(arg, r).used = FALSE
      BY <2>4, <2>5 DEF Released, Opened
    <3> QED BY <3>1, <3>2, Zenon
  <2>7. /\ fd_table' \in [Fd -> [used : BOOLEAN, node : Nat, offset : Nat]]
        /\ \A f \in Fd : fd_table'[f].used = FALSE
    <3>1. fd_table' = [fd_table EXCEPT ![fd_alloc] = d]
      BY <1>10, <2>3, <2>6 DEF cmd_rd
    <3> QED BY <2>2, <2>6, <3>1 DEF DescriptorsOK
  <2>8. DescriptorsOK'
    BY <1>10, <2>2, <2>7 DEF DescriptorsOK, cmd_rd
  <2> QED BY <1>10, <2>8, TreeKept DEF cmd_rd
<1>11. ASSUME NEW arg \in Args, NEW text \in Texts, cmd_write(arg, text) PROVE FsInv'
  <2>1. Idle /\ Opens(arg)
    BY <1>11 DEF cmd_write
  <2>2. /\ cmd = NoCommand /\ fd_alloc \in Fd /\ fd_alloc # FAIL
        /\ vfs_lookup(arg) \in 1 .. m /\ vfs_lookup(arg) # 2
        /\ \A f \in Fd : fd_table[f].used = FALSE
    BY <1>9, <2>1
  <2>3. fd_table' = [fd_table EXCEPT ![fd_alloc] =
                        [used |-> TRUE, node |-> vfs_lookup(arg), offset |-> 0]]
    BY <1>11 DEF cmd_write, Opened
  <2>4. fd_table' \in [Fd -> [used : BOOLEAN, node : Nat, offset : Nat]]
    BY <2>2, <2>3 DEF DescriptorsOK
  <2>5. PICK b \in Seq(Seq(Byte)) : b = Buffers(text)
    BY BuffersAre
  <2>6. PICK fd \in Fd : fd = fd_alloc /\ fd # FAIL
    BY <2>2
  <2>7. cmd' = [fd |-> fd, left |-> b]
    BY <1>11, <2>5, <2>6 DEF cmd_write
  <2>8. cmd' \in [fd : Fd \cup {FAIL}, left : Seq(Seq(Byte))] /\ cmd'.fd = fd
    BY <2>7
  <2>9. \A f \in Fd : /\ fd_table'[f].used <=> f = fd
                      /\ f = fd => fd_table'[f].node = vfs_lookup(arg)
    BY <2>2, <2>3, <2>6 DEF DescriptorsOK
  <2>10. DescriptorsOK'
    BY <1>1, <1>11, <2>2, <2>4, <2>6, <2>8, <2>9 DEF DescriptorsOK, cmd_write
  <2> QED BY <1>11, <2>10, TreeKept DEF cmd_write
<1>12. CASE sys_write
  <2>1. cmd.left # <<>> /\ cmd # NoCommand
    BY <1>12 DEF sys_write, NoCommand
  <2>2. /\ cmd.fd \in Fd /\ cmd.fd # FAIL /\ Desc.node \in 1 .. m /\ Desc.node # 2
        /\ Desc.offset \in Nat /\ Desc.used
    BY <1>1, <2>1, DescIs
  <2>3. cmd \in [fd : Fd \cup {FAIL}, left : Seq(Seq(Byte))] /\ cmd.left \in Seq(Seq(Byte))
    BY DEF DescriptorsOK
  <2>4. PICK buf \in Seq(Byte) : buf = Head(cmd.left)
    <3>1. \A S, q : q \in Seq(S) /\ q # <<>> => Head(q) \in S
      OBVIOUS
    <3> QED BY <2>1, <2>3, <3>1
  <2>5. PICK rest \in Seq(Seq(Byte)) : rest = Tail(cmd.left)
    <3>1. \A S, q : q \in Seq(S) /\ q # <<>> => Tail(q) \in Seq(S)
      OBVIOUS
    <3> QED BY <2>1, <2>3, <3>1
  <2>6. cmd' = [cmd EXCEPT !.left = rest]
    BY <1>12, <2>5 DEF sys_write
  <2>7. cmd' \in [fd : Fd \cup {FAIL}, left : Seq(Seq(Byte))] /\ cmd'.fd = cmd.fd
    BY <2>3, <2>6
  <2>8. CASE nodes[Desc.node].dir
    <3>1. UNCHANGED <<nodes, mounts, cwd, fd_table, halted>>
      BY <1>12, <2>8 DEF sys_write
    <3>2. DescriptorsOK'
      BY <2>2, <2>7, <3>1 DEF DescriptorsOK
    <3> QED BY <3>1, <3>2, TreeKept
  <2>9. CASE ~ nodes[Desc.node].dir
    <3>1. /\ nodes' = [nodes EXCEPT ![Desc.node] = Written(Desc.node, Desc.offset, buf)]
          /\ fd_table' = [fd_table EXCEPT ![cmd.fd].offset = @ + Len(buf)]
          /\ UNCHANGED <<mounts, cwd, halted>>
      BY <1>12, <2>4, <2>9 DEF sys_write
    <3>2. NodesOK' /\ ParentsOK' /\ Len(nodes') = m
      BY <1>1, <2>2, <3>1, WriteKeeps
    <3>3. Len(buf) \in Nat /\ fd_table[cmd.fd].offset \in Nat
      BY <2>2 DEF Desc
    <3>4. /\ fd_table' \in [Fd -> [used : BOOLEAN, node : Nat, offset : Nat]]
          /\ \A f \in Fd : /\ fd_table'[f].used = fd_table[f].used
                           /\ fd_table'[f].node = fd_table[f].node
      <4>1. PICK o \in Nat : o = fd_table[cmd.fd].offset + Len(buf)
        BY <3>3
      <4>2. fd_table' = [fd_table EXCEPT ![cmd.fd] = [fd_table[cmd.fd] EXCEPT !.offset = o]]
        BY <3>1, <4>1
      <4>3. fd_table \in [Fd -> [used : BOOLEAN, node : Nat, offset : Nat]]
        BY DEF DescriptorsOK
      <4>4. PICK c \in [used : BOOLEAN, node : Nat, offset : Nat] : c = fd_table[cmd.fd]
        BY <2>2, <4>3
      <4>5. PICK d \in [used : BOOLEAN, node : Nat, offset : Nat] :
               d = [c EXCEPT !.offset = o] /\ d.used = c.used /\ d.node = c.node
        <5>1. [c EXCEPT !.offset = o] \in [used : BOOLEAN, node : Nat, offset : Nat]
          OBVIOUS
        <5>2. [c EXCEPT !.offset = o].used = c.used
          OBVIOUS
        <5>3. [c EXCEPT !.offset = o].node = c.node
          OBVIOUS
        <5> QED BY <5>1, <5>2, <5>3, Zenon
      <4> QED BY <2>2, <4>2, <4>3, <4>4, <4>5
    <3>5. DescriptorsOK'
      BY <1>1, <2>2, <2>7, <3>1, <3>2, <3>4 DEF DescriptorsOK
    <3> QED BY <3>2, <3>5
  <2> QED BY <2>8, <2>9
<1>13. CASE WriteFaults
  <2>1. DescriptorsOK'
    BY <1>13 DEF WriteFaults, DescriptorsOK
  <2> QED BY <1>13, <2>1, TreeKept DEF WriteFaults
<1>14. CASE WriteCloses
  <2>1. cmd.fd \in Fd
    BY <1>14, DescIs DEF WriteCloses
  <2>2. fd_table' = [fd_table EXCEPT ![cmd.fd].used = FALSE] /\ cmd' = NoCommand
        /\ UNCHANGED <<nodes, mounts, cwd, halted>>
    BY <1>14 DEF WriteCloses
  <2>3. fd_table' \in [Fd -> [used : BOOLEAN, node : Nat, offset : Nat]]
    BY <2>1, <2>2 DEF DescriptorsOK
  <2>4. \A f \in Fd : fd_table'[f].used = FALSE
    BY <2>1, <2>2 DEF DescriptorsOK
  <2>5. FAIL \notin Fd
    BY DEF FAIL, Fd
  <2>6. PICK none \in Seq(Seq(Byte)) : none = <<>>
    <3>1. <<>> \in Seq(Seq(Byte))
      OBVIOUS
    <3> QED BY <3>1, Zenon
  <2>7. cmd' \in [fd : Fd \cup {FAIL}, left : Seq(Seq(Byte))] /\ cmd'.fd = FAIL
    BY <2>2, <2>6 DEF NoCommand
  <2>8. DescriptorsOK'
    BY <2>2, <2>3, <2>4, <2>5, <2>7 DEF DescriptorsOK
  <2> QED BY <2>2, <2>8, TreeKept
<1>15. CASE UNCHANGED fs_vars
  BY <1>2, <1>15 DEF fs_vars, DescriptorsOK
<1> QED BY <1>4, <1>5, <1>6, <1>7, <1>8, <1>10, <1>11, <1>12, <1>13, <1>14, <1>15 DEF FsNext

(* The invariant of the file system. *)
THEOREM FsInvariant == FsSpec => []FsInv
BY FsStart, FsStep, PTL DEF FsSpec
-----------------------------------------------------------------------------
(* The properties that are states. *)

(* What the invariant says of the nodes and the descriptors. *)
THEOREM FsTypeCorrect == FsSpec => []FsTypeOK
<1>1. FsInv => FsTypeOK
  <2> SUFFICES ASSUME FsInv PROVE FsTypeOK
    OBVIOUS
  <2>1. NodesOK /\ DescriptorsOK
    BY DEF FsInv
  <2>2. PICK m \in Nat : m = Len(nodes) /\ DOMAIN nodes = 1 .. m /\ m >= 3
    BY <2>1, NodesRange
  <2>3. ASSUME NEW n \in 1 .. m
        PROVE  /\ nodes[n].dir \in BOOLEAN
               /\ Children(n) \subseteq 1 .. m
               /\ Len(nodes[n].children) <= MAX_CHILDREN
               /\ nodes[n].size \in 0 .. Len(nodes[n].data)
    <3>1. nodes[n].dir \in BOOLEAN
      BY <2>1, <2>2, NodeFields DEF NodeType
    <3>2. Children(n) \subseteq 1 .. m
      BY <2>1, <2>2, NodeFields DEF Children, NodesOK
    <3>3. nodes[n].size \in 0 .. Len(nodes[n].data)
      BY <2>1, <2>2, NodeFields DEF NodesOK
    <3> QED BY <2>1, <2>2, <3>1, <3>2, <3>3 DEF NodesOK
  <2>4. cwd \in DOMAIN nodes
    BY <2>1, <2>2 DEF DescriptorsOK, Dirs
  <2>5. cmd.fd \in Fd \cup {FAIL}
    BY <2>1 DEF DescriptorsOK
  <2> QED BY <2>1, <2>2, <2>3, <2>4, <2>5 DEF FsTypeOK, DescriptorsOK
<1> QED BY <1>1, FsInvariant, PTL

(* Descriptors are given back (fd_alloc, fd_free): the one in use is that  *)
(* of the write in progress, and sys_open finds one for every command.     *)
THEOREM FsDescriptorsClosed == FsSpec => []DescriptorsClosed
<1>1. FsInv => DescriptorsClosed
  <2> SUFFICES ASSUME FsInv PROVE DescriptorsClosed
    OBVIOUS
  <2>1. DescriptorsOK /\ FAIL \notin Fd
    BY DEF FsInv, FAIL, Fd
  <2>2. {f \in Fd : fd_table[f].used} = {cmd.fd} \ {FAIL}
    BY <2>1 DEF DescriptorsOK
  <2> QED BY <2>1, <2>2, AllocIs DEF DescriptorsClosed
<1> QED BY <1>1, FsInvariant, PTL

(* Every file is in exactly one directory, an older one, whatever is made  *)
(* in the root and in the mounted file system (ramfs_create).              *)
THEOREM FsTreeSound == FsSpec => []TreeSound
<1>1. FsInv => TreeSound
  <2> SUFFICES ASSUME FsInv PROVE TreeSound
    OBVIOUS
  <2>1. NodesOK /\ ParentsOK
    BY DEF FsInv
  <2>2. PICK m \in Nat : m = Len(nodes) /\ DOMAIN nodes = 1 .. m /\ m >= 3
    BY <2>1, NodesRange
  <2>3. {vfs_root} \cup {mounts[i].root : i \in DOMAIN mounts} = Dirs
    <3>1. DOMAIN mounts = {1} /\ mounts[1].root = 3
      BY <2>1 DEF NodesOK
    <3> QED BY <3>1 DEF vfs_root, Dirs
  <2>4. ASSUME NEW n \in (1 .. m) \ Dirs
        PROVE  /\ Cardinality({p \in 1 .. m : n \in Children(p)}) = 1
               /\ \A p \in 1 .. m : n \in Children(p) => p < n /\ nodes[p].dir
    <3>1. PICK d \in Dirs : d < n /\ \A q \in 1 .. m : n \in Children(q) <=> q = d
      BY <2>1, <2>2 DEF ParentsOK
    <3>2. d \in 1 .. m /\ d <= 3
      BY <2>2, <3>1 DEF Dirs
    <3>3. {p \in 1 .. m : n \in Children(p)} = {d}
      BY <3>1, <3>2
    <3>4. nodes[d].dir
      <4>1. nodes[d].dir = (d <= 3)
        BY <2>1, <2>2, <3>2 DEF NodesOK
      <4> QED BY <3>2, <4>1, Zenon
    <3> QED BY <3>1, <3>3, <3>4, FS_Singleton
  <2> QED BY <2>2, <2>3, <2>4 DEF TreeSound
<1> QED BY <1>1, FsInvariant, PTL

(* Nothing leads to the directory under the mount (vfs_check_mount): no    *)
(* path, no working directory and no descriptor, and it stays empty.       *)
THEOREM FsCoveredUnreachable == FsSpec => []CoveredUnreachable
<1>1. FsInv => CoveredUnreachable
  <2> SUFFICES ASSUME FsInv PROVE CoveredUnreachable
    OBVIOUS
  <2>1. NodesOK /\ DescriptorsOK
    BY DEF FsInv
  <2>2. PICK m \in Nat : m = Len(nodes) /\ m >= 3
    BY <2>1 DEF NodesOK
  <2>3. Covered = {2}
    <3>1. DOMAIN mounts = {1} /\ mounts[1].mountpoint = 2
      BY <2>1 DEF NodesOK
    <3> QED BY <3>1 DEF Covered
  <2>4. nodes[2].children = <<>>
    BY <2>1, <2>2 DEF NodesOK, Dirs
  <2>5. cwd \in Dirs /\ cwd # 2
    BY <2>1 DEF DescriptorsOK, Dirs
  <2>6. nodes[cwd].dir
    <3>1. cwd \in 1 .. m /\ cwd <= 3
      BY <2>2, <2>5 DEF Dirs
    <3>2. nodes[cwd].dir = (cwd <= 3)
      BY <2>1, <2>2, <3>1 DEF NodesOK
    <3> QED BY <3>1, <3>2, Zenon
  <2>7. \A arg \in Args : FromCwd(arg) # 2 /\ vfs_lookup(arg) # 2
    BY <2>1, <2>5, ArgsLead DEF Targets, NONE
  <2>8. \A f \in Fd : fd_table[f].used => fd_table[f].node # 2
    BY <2>1 DEF DescriptorsOK
  <2> QED BY <2>3, <2>4, <2>5, <2>6, <2>7, <2>8 DEF CoveredUnreachable
<1> QED BY <1>1, FsInvariant, PTL
-----------------------------------------------------------------------------
(* A path that leads to a file goes on leading to it. *)

\* The tree only grows: nodes keep their names, and the children of a
\* directory their places.
TreeGrows ==
    /\ Len(nodes') >= Len(nodes) /\ mounts' = mounts
    /\ \A n \in 1 .. Len(nodes) :
          /\ nodes'[n].name = nodes[n].name
          /\ Len(nodes'[n].children) >= Len(nodes[n].children)
          /\ \A i \in 1 .. Len(nodes[n].children) : nodes'[n].children[i] = nodes[n].children[i]

(* Nothing that the shell does takes a node away, renames it or moves it   *)
(* in its directory.                                                       *)
LEMMA FsGrows == FsInv /\ [FsNext]_fs_vars => TreeGrows
<1> SUFFICES ASSUME FsInv, [FsNext]_fs_vars PROVE TreeGrows
  OBVIOUS
<1>1. NodesOK /\ ParentsOK /\ DescriptorsOK
  BY DEF FsInv
<1>2. PICK m \in Nat : m = Len(nodes) /\ m >= 3
  BY <1>1 DEF NodesOK
<1>3. \A n \in 1 .. m : nodes[n].children \in Seq(Nat) /\ Len(nodes[n].children) \in Nat
  BY <1>1, <1>2, NodeFields
<1>4. ASSUME UNCHANGED <<nodes, mounts>> PROVE TreeGrows
  BY <1>2, <1>3, <1>4 DEF TreeGrows
<1>5. ASSUME NEW p \in Dirs, NEW arg \in Args, ramfs_create(p, arg), UNCHANGED mounts
      PROVE  TreeGrows
  <2>1. CASE UNCHANGED nodes
    BY <1>4, <1>5, <2>1
  <2>2. CASE nodes' = WithChild(p, arg)
    <3>1. /\ Len(nodes') = m + 1
          /\ \A n \in 1 .. m :
                /\ nodes'[n].name = nodes[n].name
                /\ nodes'[n].children = IF n = p THEN Append(nodes[n].children, m + 1)
                                        ELSE nodes[n].children
      BY <1>1, <1>2, <2>2, ChildAdded
    <3>2. ASSUME NEW n \in 1 .. m
          PROVE  /\ Len(nodes'[n].children) >= Len(nodes[n].children)
                 /\ \A i \in 1 .. Len(nodes[n].children) :
                       nodes'[n].children[i] = nodes[n].children[i]
      <4>1. PICK q \in Seq(Nat) : q = nodes[n].children
        BY <1>3
      <4>2. PICK l \in Nat : l = Len(q)
        OBVIOUS
      <4>3. PICK x \in Nat : x = m + 1
        BY <1>2
      <4>4. Len(Append(q, x)) = l + 1 /\ \A i \in 1 .. l : Append(q, x)[i] = q[i]
        BY <4>2, AppendIs
      <4>5. nodes'[n].children = Append(q, x) \/ nodes'[n].children = q
        BY <3>1, <4>1, <4>3
      <4>6. CASE nodes'[n].children = q
        BY <4>1, <4>2, <4>6
      <4>7. CASE nodes'[n].children = Append(q, x)
        <5> DEFINE qx == Append(q, x)
        <5> HIDE DEF qx
        <5>1. Len(qx) = l + 1 /\ (\A i \in 1 .. l : qx[i] = q[i]) /\ nodes'[n].children = qx
          BY <4>4, <4>7 DEF qx
        <5> QED BY <4>1, <4>2, <5>1
      <4> QED BY <4>5, <4>6, <4>7
    <3> QED BY <1>2, <1>5, <3>1, <3>2 DEF TreeGrows
  <2> QED BY <1>5, <2>1, <2>2 DEF ramfs_create
<1>6. CASE sys_write
  <2>1. cmd.left # <<>> /\ cmd # NoCommand
    BY <1>6 DEF sys_write, NoCommand
  <2>2. Desc.node \in 1 .. m /\ Desc.offset \in Nat
    BY <1>1, <1>2, <2>1, DescIs
  <2>3. PICK buf \in Seq(Byte) : buf = Head(cmd.left)
    <3>1. cmd.left \in Seq(Seq(Byte))
      BY <1>1 DEF DescriptorsOK
    <3>2. \A S, q : q \in Seq(S) /\ q # <<>> => Head(q) \in S
      OBVIOUS
    <3> QED BY <2>1, <3>1, <3>2
  <2>4. CASE nodes[Desc.node].dir
    BY <1>4, <1>6, <2>4 DEF sys_write
  <2>5. CASE ~ nodes[Desc.node].dir
    <3>1. nodes' = [nodes EXCEPT ![Desc.node] = Written(Desc.node, Desc.offset, buf)]
          /\ UNCHANGED mounts
      BY <1>6, <2>3, <2>5 DEF sys_write
    <3>2. /\ Len(nodes') = m
          /\ \A i \in 1 .. m : /\ nodes'[i].name = nodes[i].name
                               /\ nodes'[i].children = nodes[i].children
      BY <1>1, <1>2, <2>2, <3>1, WriteKeeps
    <3> QED BY <1>2, <1>3, <3>1, <3>2 DEF TreeGrows
  <2> QED BY <2>4, <2>5
<1>7. ASSUME NEW arg \in Args, cmd_mk(arg) PROVE TreeGrows
  BY <1>1, <1>5, <1>7 DEF cmd_mk, DescriptorsOK
<1>8. ASSUME NEW arg \in Args, cmd_mkr(arg) PROVE TreeGrows
  <2>1. vfs_lookup(Plain(TMP)) = 3 /\ 3 \in Dirs
    BY <1>1, TmpLeads DEF Dirs
  <2> QED BY <1>5, <1>8, <2>1 DEF cmd_mkr
<1>9. CASE CdRoot
  BY <1>4, <1>9 DEF CdRoot
<1>10. ASSUME NEW arg \in Args, cmd_cd(arg) \/ NotFound(arg) \/ cmd_rd(arg) PROVE TreeGrows
  BY <1>4, <1>10 DEF cmd_cd, NotFound, cmd_rd
<1>11. ASSUME NEW arg \in Args, NEW text \in Texts, cmd_write(arg, text) PROVE TreeGrows
  BY <1>4, <1>11 DEF cmd_write
<1>12. CASE WriteFaults \/ WriteCloses
  BY <1>4, <1>12 DEF WriteFaults, WriteCloses
<1>13. CASE UNCHANGED fs_vars
  BY <1>4, <1>13 DEF fs_vars
<1> QED BY <1>6, <1>7, <1>8, <1>9, <1>10, <1>11, <1>12, <1>13 DEF FsNext

\* What LookupIs says, of every node and name.
LookupFirst ==
    NodesOK => \A name : \A n \in 1 .. Len(nodes) :
        /\ Hits(n, name) # {} =>
              /\ ramfs_lookup(n, name) = nodes[n].children[Min(Hits(n, name))]
              /\ Min(Hits(n, name)) \in Hits(n, name)
              /\ \A i \in Hits(n, name) : Min(Hits(n, name)) <= i
        /\ Hits(n, name) \subseteq 1 .. Len(nodes[n].children)

(* LookupIs in the state after a step. *)
LEMMA LookupNext == LookupFirst'
<1>1. LookupFirst
  BY LookupIs DEF LookupFirst
<1> QED BY <1>1, PTL

(* One name of a path that leads to a node leads to the same node later. *)
LEMMA StepStable ==
    ASSUME NodesOK, NodesOK', TreeGrows, NEW x \in Targets, NEW name, StepTo(x, name) # NONE
    PROVE  StepTo(x, name)' = StepTo(x, name)
<1>1. PICK m \in Nat : m = Len(nodes) /\ m >= 3
  BY DEF NodesOK
<1>2. x # NONE /\ x \in 1 .. m
  BY <1>1 DEF StepTo, Targets
<1>3. PICK k \in Nat : Len(nodes') = k /\ x \in 1 .. k
  <2>1. Len(nodes') \in Nat
    BY DEF NodesOK
  <2> QED BY <1>1, <1>2, <2>1 DEF TreeGrows
<1>4. PICK l \in Nat : l = Len(nodes[x].children)
  BY <1>1, <1>2, NodeFields
<1>5. Hits(x, name) # {}
  BY <1>1, <1>2, LookupIs, MountIs DEF StepTo, NONE
<1>6. PICK a \in 1 .. l : /\ a = Min(Hits(x, name)) /\ a \in Hits(x, name)
                          /\ \A i \in Hits(x, name) : a <= i
                          /\ ramfs_lookup(x, name) = nodes[x].children[a]
  BY <1>1, <1>2, <1>4, <1>5, LookupIs
<1>7. DOMAIN nodes[x].children = 1 .. l
  BY <1>1, <1>2, <1>4, NodeFields
<1>8. PICK c \in Nat : DOMAIN nodes'[x].children = 1 .. c /\ c = Len(nodes'[x].children)
  <2>1. nodes' \in Seq(NodeType)
    BY DEF NodesOK
  <2>2. nodes'[x] \in NodeType
    BY <1>3, <2>1
  <2>3. nodes'[x].children \in Seq(Nat)
    BY <2>2 DEF NodeType
  <2> QED BY <2>3
<1>9. l <= c /\ \A i \in 1 .. l : nodes'[x].children[i] = nodes[x].children[i]
  BY <1>1, <1>2, <1>4, <1>8 DEF TreeGrows
<1>10. \A i \in 1 .. l : nodes'[nodes[x].children[i]].name = nodes[nodes[x].children[i]].name
  <2>1. \A i \in 1 .. l : nodes[x].children[i] \in 1 .. m
    BY <1>1, <1>2, <1>4 DEF NodesOK
  <2> QED BY <1>1, <2>1 DEF TreeGrows
<1>11. \A i \in 1 .. l : i \in Hits(x, name)' <=> i \in Hits(x, name)
  BY <1>7, <1>8, <1>9, <1>10 DEF Hits, Plain
<1>12. Hits(x, name)' # {}
  BY <1>6, <1>11
<1>13. PICK b \in 1 .. c : /\ b \in Hits(x, name)'
                           /\ \A i \in Hits(x, name)' : b <= i
                           /\ ramfs_lookup(x, name)' = nodes'[x].children[b]
  BY <1>3, <1>8, <1>12, LookupNext DEF LookupFirst
<1>14. b = a
  <2>1. b <= a
    BY <1>6, <1>11, <1>13
  <2>2. b \in 1 .. l
    BY <2>1
  <2>3. a <= b
    BY <1>6, <1>11, <1>13, <2>2
  <2> QED BY <2>1, <2>3
<1>15. ramfs_lookup(x, name)' = ramfs_lookup(x, name)
  BY <1>6, <1>9, <1>13, <1>14
<1>16. mounts' = mounts
  BY DEF TreeGrows
<1> QED BY <1>2, <1>15, <1>16 DEF StepTo, vfs_check_mount

(* Nor does a whole path. *)
LEMMA PathStable ==
    ASSUME NodesOK, NodesOK', TreeGrows, NEW n \in Targets, NEW parts, Len(parts) \in Nat,
           path_resolve(n, parts) # NONE
    PROVE  path_resolve(n, parts)' = path_resolve(n, parts)
<1>1. PICK m \in Nat : m = Len(parts)
  OBVIOUS
<1>2. PICK w : IsWalk(w, n, parts, m) /\ path_resolve(n, parts) = w[m]
  BY <1>1, Walks DEF WalksExist
<1>3. PICK v : IsWalk(v, n, parts, m)' /\ path_resolve(n, parts)' = v[m]
  BY <1>1, WalksNext DEF WalksExist
<1>4. \A k \in 0 .. m : w[k] = IF k = 0 THEN n ELSE StepTo(w[k - 1], parts[k])
  BY <1>2 DEF IsWalk
<1>5. \A k \in 0 .. m : v[k] = IF k = 0 THEN n ELSE StepTo(v[k - 1], parts[k])'
  BY <1>3 DEF IsWalk
<1> DEFINE T == {k \in 0 .. m : w[k] \notin Targets \/ (w[k] # NONE /\ v[k] # w[k])}
<1>6. T = {}
  <2> SUFFICES ASSUME T # {} PROVE FALSE
    OBVIOUS
  <2>1. T \subseteq Nat
    OBVIOUS
  <2>2. PICK k \in T : \A y \in T : k <= y
    <3> HIDE DEF T
    <3> QED BY <2>1, LeastNat
  <2>3. CASE k = 0
    BY <1>4, <1>5, <2>3
  <2>4. CASE k # 0
    <3>1. k - 1 \in 0 .. m /\ k - 1 \notin T /\ k \in 0 .. m
      BY <2>2, <2>4
    <3>2. w[k - 1] \in Targets /\ (w[k - 1] # NONE => v[k - 1] = w[k - 1])
      BY <3>1
    <3>3. w[k] = StepTo(w[k - 1], parts[k]) /\ v[k] = StepTo(v[k - 1], parts[k])'
      BY <1>4, <1>5, <2>4, <3>1
    <3>4. w[k] \in Targets
      BY <3>2, <3>3, StepStays
    <3>5. w[k] # NONE /\ v[k] # w[k]
      BY <3>4
    <3>6. w[k - 1] # NONE
      BY <3>3, <3>5 DEF StepTo
    <3>7. PICK x \in Targets : x = w[k - 1] /\ x = v[k - 1]
      BY <3>2, <3>6
    <3>8. StepTo(x, parts[k])' = StepTo(x, parts[k])
      BY <3>3, <3>5, <3>7, StepStable
    <3> QED BY <3>3, <3>5, <3>7, <3>8
  <2> QED BY <2>3, <2>4
<1> QED BY <1>2, <1>3, <1>6

(* A file that is made, whatever its name, takes the place of no other:    *)
(* a path that leads somewhere leads there ever after (ramfs_lookup takes  *)
(* the first child, ramfs_create adds at the end).                         *)
THEOREM FsLookupStable == FsSpec => LookupStable
<1>1. FsInv /\ FsInv' /\ [FsNext]_fs_vars
      => [\A arg \in Args : vfs_lookup(arg) # NONE => vfs_lookup(arg)' = vfs_lookup(arg)]_fs_vars
  <2> SUFFICES ASSUME FsInv, FsInv', [FsNext]_fs_vars, NEW arg \in Args, vfs_lookup(arg) # NONE
               PROVE  vfs_lookup(arg)' = vfs_lookup(arg)
    OBVIOUS
  <2>1. NodesOK /\ NodesOK'
    BY DEF FsInv
  <2>2. Len(arg.parts) \in Nat
    BY FileSystemAssumption
  <2>3. 1 \in Targets
    BY <2>1, NodeFields DEF Targets, NodesOK
  <2> QED BY <2>1, <2>2, <2>3, FsGrows, PathStable DEF vfs_lookup, vfs_root
<1> QED BY <1>1, FsInvariant, PTL DEF FsSpec, LookupStable
-----------------------------------------------------------------------------
(* Texts as sequences of bytes. *)

\* One buffer after another.
Joint(s, t) == s \o t

(* The order of joining does not matter. *)
LEMMA JointAssociative ==
    ASSUME NEW S, NEW r \in Seq(S), NEW s \in Seq(S), NEW t \in Seq(S)
    PROVE  Joint(Joint(r, s), t) = Joint(r, Joint(s, t))
BY ConcatAssociative DEF Joint

\* w[n] is the first n buffers as one.
IsJoin(w, bufs, m) ==
    w = [n \in 0 .. m |-> IF n = 0 THEN <<>> ELSE Joint(w[n - 1], bufs[n])]

(* Joined is what its recursion says, for any number of buffers. *)
LEMMA Joins ==
    ASSUME NEW bufs, NEW len \in Nat, len = Len(bufs)
    PROVE  \E w : IsJoin(w, bufs, len) /\ Joined(bufs) = w[len]
<1> DEFINE T == {m \in Nat : ~ \E w : IsJoin(w, bufs, m)}
<1>1. T = {}
  <2> SUFFICES ASSUME T # {} PROVE FALSE
    OBVIOUS
  <2>1. T \subseteq Nat
    OBVIOUS
  <2>2. PICK m \in T : \A y \in T : m <= y
    <3> HIDE DEF T
    <3> QED BY <2>1, LeastNat
  <2>3. m \in Nat /\ ~ \E w : IsJoin(w, bufs, m)
    OBVIOUS
  <2>4. CASE m = 0
    <3>1. IsJoin([n \in 0 .. 0 |-> <<>>], bufs, 0)
      BY DEF IsJoin
    <3> QED BY <2>3, <2>4, <3>1
  <2>5. CASE m # 0
    <3>1. m - 1 \in Nat /\ m - 1 \notin T
      BY <2>2, <2>3, <2>5
    <3>2. PICK v : IsJoin(v, bufs, m - 1)
      BY <3>1
    <3> DEFINE w == [n \in 0 .. m |-> IF n = m THEN Joint(v[m - 1], bufs[m]) ELSE v[n]]
    <3>3. \A n \in 0 .. m - 1 : w[n] = v[n]
      BY <2>3
    <3>4. \A n \in 0 .. m - 1 : v[n] = IF n = 0 THEN <<>> ELSE Joint(v[n - 1], bufs[n])
      BY <3>2 DEF IsJoin
    <3>5. w[m] = Joint(v[m - 1], bufs[m])
      BY <2>3
    <3>6. \A n \in 0 .. m : w[n] = IF n = 0 THEN <<>> ELSE Joint(w[n - 1], bufs[n])
      <4> HIDE DEF w
      <4> TAKE n \in 0 .. m
      <4>1. CASE n = m
        BY <2>3, <2>5, <3>3, <3>5, <4>1
      <4>2. CASE n # m
        <5>1. n \in 0 .. m - 1 /\ (n # 0 => n - 1 \in 0 .. m - 1)
          BY <2>3, <4>2
        <5> QED BY <3>3, <3>4, <5>1
      <4> QED BY <4>1, <4>2
    <3>7. IsJoin(w, bufs, m)
      <4>1. w = [n \in 0 .. m |-> w[n]]
        OBVIOUS
      <4> HIDE DEF w
      <4> QED BY <3>6, <4>1 DEF IsJoin
    <3> QED BY <2>3, <3>7
  <2> QED BY <2>4, <2>5
<1>2. \E w : IsJoin(w, bufs, len)
  BY <1>1
<1> DEFINE Upto == CHOOSE w : IsJoin(w, bufs, len)
<1>3. IsJoin(Upto, bufs, len)
  <2> HIDE DEF T
  <2> QED BY <1>2
<1>4. Joined(bufs) = Upto[len]
  BY Zenon DEF Joined, IsJoin, Joint
<1> QED BY <1>3, <1>4

(* The first buffer and the others, joined, are all of them joined. *)
LEMMA JoinedIs ==
    ASSUME NEW S, NEW bufs \in Seq(Seq(S))
    PROVE  /\ Joined(bufs) \in Seq(S)
           /\ bufs = <<>> => Joined(bufs) = <<>>
           /\ bufs # <<>> => Joined(bufs) = Head(bufs) \o Joined(Tail(bufs))
<1>1. PICK len \in Nat : len = Len(bufs)
  OBVIOUS
<1>2. PICK w : IsJoin(w, bufs, len) /\ Joined(bufs) = w[len]
  BY <1>1, Joins
<1>3. \A n \in 0 .. len : w[n] = IF n = 0 THEN <<>> ELSE Joint(w[n - 1], bufs[n])
  BY <1>2 DEF IsJoin
<1>4. \A n \in 1 .. len : bufs[n] \in Seq(S)
  BY <1>1
<1>5. <<>> \in Seq(S)
  OBVIOUS
<1>6. \A n \in 0 .. len : w[n] \in Seq(S)
  <2> DEFINE T == {n \in 0 .. len : w[n] \notin Seq(S)}
  <2> SUFFICES ASSUME T # {} PROVE FALSE
    OBVIOUS
  <2>1. T \subseteq Nat
    OBVIOUS
  <2>2. PICK n \in T : \A y \in T : n <= y
    <3> HIDE DEF T
    <3> QED BY <2>1, LeastNat
  <2>3. n # 0
    BY <1>3, <1>5, Zenon
  <2>4. n - 1 \in 0 .. len /\ n - 1 \notin T /\ n \in 1 .. len
    BY <2>2, <2>3
  <2>5. w[n - 1] \in Seq(S) /\ bufs[n] \in Seq(S) /\ w[n] = Joint(w[n - 1], bufs[n])
    BY <1>3, <1>4, <2>3, <2>4
  <2>6. w[n] \in Seq(S)
    BY <2>5, ConcatProperties, Zenon DEF Joint
  <2> QED BY <2>6
<1>7. bufs = <<>> => Joined(bufs) = <<>>
  BY <1>1, <1>2, <1>3
<1>8. ASSUME bufs # <<>> PROVE Joined(bufs) = Head(bufs) \o Joined(Tail(bufs))
  <2>1. PICK rest \in Seq(Seq(S)) : rest = Tail(bufs)
    BY <1>8, HeadTailProperties
  <2>2. PICK k \in Nat : k = Len(rest) /\ len = k + 1
    BY <1>1, <1>8, <2>1, HeadTailProperties
  <2>3. \A n \in 1 .. k : rest[n] = bufs[n + 1]
    BY <1>8, <2>1, <2>2, HeadTailProperties
  <2>4. PICK first \in Seq(S) : first = bufs[1] /\ first = Head(bufs)
    BY <1>4, <1>8, <2>2
  <2>5. PICK v : IsJoin(v, rest, k) /\ Joined(rest) = v[k]
    BY <2>2, Joins
  <2>6. \A n \in 0 .. k : v[n] = IF n = 0 THEN <<>> ELSE Joint(v[n - 1], rest[n])
    BY <2>5 DEF IsJoin
  <2> DEFINE T == {n \in 0 .. k : ~ (v[n] \in Seq(S) /\ w[n + 1] = Joint(first, v[n]))}
  <2>7. T = {}
    <3> SUFFICES ASSUME T # {} PROVE FALSE
      OBVIOUS
    <3>1. T \subseteq Nat
      OBVIOUS
    <3>2. PICK n \in T : \A y \in T : n <= y
      <4> HIDE DEF T
      <4> QED BY <3>1, LeastNat
    <3>3. CASE n = 0
      <4>1. v[0] = <<>> /\ w[0] = <<>> /\ w[1] = Joint(w[0], bufs[1])
        BY <1>3, <2>2, <2>6
      <4>2. w[1] = first /\ Joint(first, v[0]) = first
        BY <2>4, <4>1, ConcatEmptySeq, Zenon DEF Joint
      <4>3. v[0] \in Seq(S) /\ w[1] = Joint(first, v[0])
        BY <1>5, <4>1, <4>2, Zenon
      <4>4. n + 1 = 1
        BY <3>3
      <4> QED BY <3>2, <3>3, <4>3, <4>4, Zenon
    <3>4. CASE n # 0
      <4>1. n - 1 \in 0 .. k /\ n - 1 \notin T /\ n \in 1 .. k /\ n + 1 \in 1 .. len
        BY <2>2, <3>2, <3>4
      <4>2. v[n - 1] \in Seq(S) /\ w[n] = Joint(first, v[n - 1])
        BY <4>1
      <4>3. PICK b \in Seq(S) : b = rest[n] /\ b = bufs[n + 1]
        BY <1>4, <2>3, <4>1
      <4>4. v[n] = Joint(v[n - 1], b) /\ w[n + 1] = Joint(w[n], b)
        <5>1. v[n] = Joint(v[n - 1], rest[n])
          BY <2>6, <4>1
        <5>2. n + 1 \in 0 .. len /\ n + 1 # 0 /\ (n + 1) - 1 = n
          BY <4>1
        <5>3. w[n + 1] = Joint(w[n], bufs[n + 1])
          BY <1>3, <5>2
        <5> QED BY <4>3, <5>1, <5>3, Zenon
      <4>5. v[n] \in Seq(S)
        BY <4>2, <4>3, <4>4, ConcatProperties, Zenon DEF Joint
      <4>6. w[n + 1] = Joint(first, v[n])
        <5>1. PICK x \in Seq(S) : x = v[n - 1]
          BY <4>2
        <5>2. Joint(Joint(first, x), b) = Joint(first, Joint(x, b))
          BY <2>4, <4>3, <5>1, JointAssociative
        <5> QED BY <4>2, <4>4, <5>1, <5>2, Zenon
      <4> QED BY <4>5, <4>6
    <3> QED BY <3>3, <3>4
  <2>8. w[k + 1] = Joint(first, v[k])
    BY <2>2, <2>7
  <2> QED BY <1>2, <2>1, <2>2, <2>4, <2>5, <2>8 DEF Joint
<1> QED BY <1>2, <1>6, <1>7, <1>8

\* What concatenation, subsequences and patches are, byte by byte.
IsConcat(S, r, s, m, t, l) ==
    /\ r \in Seq(S) /\ Len(r) = m + l
    /\ \A i \in 1 .. m + l : r[i] = IF i <= m THEN s[i] ELSE t[i - m]

IsSub(S, r, s, a, b) ==
    /\ r \in Seq(S) /\ Len(r) = IF a <= b THEN b - a + 1 ELSE 0
    /\ \A i \in 1 .. b - a + 1 : r[i] = s[a + i - 1]

IsPatched(S, r, s, m, o, t, l) ==
    /\ r \in Seq(S) /\ Len(r) = IF o + l > m THEN o + l ELSE m
    /\ \A i \in 1 .. Len(r) : r[i] = IF o < i /\ i <= o + l THEN t[i - o] ELSE s[i]

\* The bytes s with t over those that follow the first o of them.
Patched(s, o, t) == SubSeq(s, 1, o) \o t \o SubSeq(s, o + Len(t) + 1, Len(s))

(* Concatenation. *)
LEMMA ConcatIs ==
    ASSUME NEW S, NEW s \in Seq(S), NEW t \in Seq(S), NEW m \in Nat, NEW l \in Nat,
           m = Len(s), l = Len(t), NEW r, r = s \o t
    PROVE  IsConcat(S, r, s, m, t, l)
<1>1. /\ s \o t \in Seq(S) /\ Len(s \o t) = m + l
      /\ \A i \in 1 .. m + l : (s \o t)[i] = IF i <= m THEN s[i] ELSE t[i - m]
  BY ConcatProperties
<1> QED BY <1>1, Zenon DEF IsConcat

(* The bytes from a to b, none when b is before a. *)
LEMMA SubSeqIs ==
    ASSUME NEW S, NEW s \in Seq(S), NEW a \in Nat, a # 0, NEW b \in Nat, b <= Len(s),
           NEW r, r = SubSeq(s, a, b)
    PROVE  IsSub(S, r, s, a, b)
<1>1. \A i \in a .. b : s[i] \in S
  OBVIOUS
<1>2. /\ SubSeq(s, a, b) \in Seq(S)
      /\ Len(SubSeq(s, a, b)) = IF a <= b THEN b - a + 1 ELSE 0
      /\ \A i \in 1 .. b - a + 1 : SubSeq(s, a, b)[i] = s[a + i - 1]
  BY <1>1, SubSeqProperties
<1> QED BY <1>2, Zenon DEF IsSub

(* The bytes of a patched sequence. *)
LEMMA PatchedIs ==
    ASSUME NEW S, NEW s \in Seq(S), NEW t \in Seq(S), NEW o \in Nat, NEW m \in Nat,
           NEW l \in Nat, m = Len(s), l = Len(t), o <= m, NEW p, p = Patched(s, o, t)
    PROVE  IsPatched(S, p, s, m, o, t, l)
<1>1. PICK a : a = SubSeq(s, 1, o)
  OBVIOUS
<1>2. a \in Seq(S) /\ Len(a) = o /\ \A i \in 1 .. o : a[i] = s[i]
  <2>1. PICK one \in Nat : one = 1 /\ one # 0 /\ o <= Len(s)
    OBVIOUS
  <2>2. IsSub(S, a, s, one, o)
    BY <1>1, <2>1, SubSeqIs, Zenon
  <2> QED BY <2>1, <2>2 DEF IsSub
<1>3. PICK from \in Nat : from = o + l + 1 /\ from # 0 /\ m <= Len(s)
  OBVIOUS
<1>4. PICK c : c = SubSeq(s, from, m)
  OBVIOUS
<1>5. IsSub(S, c, s, from, m)
  BY <1>3, <1>4, SubSeqIs, Zenon
<1>6. PICK b : b = a \o t
  OBVIOUS
<1>7. IsConcat(S, b, a, o, t, l)
  BY <1>2, <1>6, ConcatIs
<1>8. PICK ol \in Nat : ol = Len(b) /\ ol = o + l /\ b \in Seq(S)
  BY <1>7 DEF IsConcat
<1>9. PICK k \in Nat : k = Len(c) /\ c \in Seq(S)
  <2>1. c \in Seq(S)
    BY <1>5 DEF IsSub
  <2>2. Len(c) \in Nat
    BY <2>1
  <2> QED BY <2>1, <2>2, Zenon
<1>10. PICK r : r = b \o c
  OBVIOUS
<1>11. IsConcat(S, r, b, ol, c, k)
  BY <1>8, <1>9, <1>10, ConcatIs
<1>12. p = r
  BY <1>1, <1>3, <1>4, <1>6, <1>10, Zenon DEF Patched
<1>13. k = IF from <= m THEN m - from + 1 ELSE 0
  BY <1>5, <1>9 DEF IsSub
<1>14. r \in Seq(S) /\ Len(r) = ol + k
  BY <1>11 DEF IsConcat
<1>15. Len(r) = IF o + l > m THEN o + l ELSE m
  <2>1. CASE from <= m
    BY <1>3, <1>8, <1>13, <1>14, <2>1
  <2>2. CASE ~ (from <= m)
    BY <1>3, <1>8, <1>13, <1>14, <2>2
  <2> QED BY <2>1, <2>2
<1>16. ASSUME NEW i \in 1 .. Len(r)
       PROVE  r[i] = IF o < i /\ i <= o + l THEN t[i - o] ELSE s[i]
  <2>1. i \in 1 .. ol + k
    BY <1>14
  <2>2. r[i] = IF i <= ol THEN b[i] ELSE c[i - ol]
    BY <1>11, <2>1 DEF IsConcat
  <2>3. i <= ol => b[i] = IF i <= o THEN a[i] ELSE t[i - o]
    BY <1>7, <1>8, <2>1 DEF IsConcat
  <2>4. CASE i <= o
    BY <1>2, <1>8, <2>1, <2>2, <2>3, <2>4
  <2>5. CASE o < i /\ i <= o + l
    BY <1>8, <2>1, <2>2, <2>3, <2>5
  <2>6. CASE o + l < i
    <3>1. ~ (i <= ol) /\ from + (i - ol) - 1 = i /\ i - ol \in 1 .. m - from + 1
          /\ ~ (o < i /\ i <= o + l)
      <4>1. from <= m
        <5> SUFFICES ASSUME ~ (from <= m) PROVE FALSE
          OBVIOUS
        <5>1. k = 0
          BY <1>13
        <5>2. i \in 1 .. ol
          BY <1>8, <2>1, <5>1
        <5> QED BY <1>8, <2>6, <5>2
      <4> QED BY <1>3, <1>8, <1>13, <2>1, <2>6, <4>1
    <3>2. c[i - ol] = s[from + (i - ol) - 1]
      BY <1>5, <3>1 DEF IsSub
    <3> QED BY <2>2, <3>1, <3>2, Zenon
  <2> QED BY <2>1, <2>4, <2>5, <2>6
<1> QED BY <1>12, <1>14, <1>15, <1>16, Zenon DEF IsPatched

(* Two patches, one behind the other, are one. *)
LEMMA PatchedTwice ==
    ASSUME NEW S, NEW s \in Seq(S), NEW t \in Seq(S), NEW u \in Seq(S), NEW o \in Nat,
           NEW l \in Nat, l = Len(t), o <= Len(s), NEW ol \in Nat, ol = o + l
    PROVE  Patched(Patched(s, o, t), ol, u) = Patched(s, o, t \o u)
<1>1. PICK m \in Nat : m = Len(s) /\ o <= m
  OBVIOUS
<1>2. PICK k \in Nat : k = Len(u)
  OBVIOUS
<1>3. PICK p : p = Patched(s, o, t)
  OBVIOUS
<1>4. IsPatched(S, p, s, m, o, t, l)
  BY <1>1, <1>3, PatchedIs
<1>5. PICK n \in Nat : n = Len(p) /\ ol <= n /\ p \in Seq(S)
  BY <1>1, <1>4 DEF IsPatched
<1>6. PICK q : q = Patched(p, ol, u)
  OBVIOUS
<1>7. IsPatched(S, q, p, n, ol, u, k)
  BY <1>2, <1>5, <1>6, PatchedIs
<1>8. PICK v : v = t \o u
  OBVIOUS
<1>9. IsConcat(S, v, t, l, u, k)
  BY <1>2, <1>8, ConcatIs
<1>10. PICK lk \in Nat : lk = Len(v) /\ lk = l + k /\ v \in Seq(S)
  BY <1>2, <1>9 DEF IsConcat
<1>11. PICK r : r = Patched(s, o, v)
  OBVIOUS
<1>12. IsPatched(S, r, s, m, o, v, lk)
  BY <1>1, <1>10, <1>11, PatchedIs
<1>13. n = (IF ol > m THEN ol ELSE m) /\ Len(q) = (IF ol + k > n THEN ol + k ELSE n)
       /\ Len(r) = (IF o + lk > m THEN o + lk ELSE m) /\ q \in Seq(S) /\ r \in Seq(S)
  BY <1>4, <1>5, <1>7, <1>12 DEF IsPatched
<1>14. PICK e \in Nat : e = Len(q) /\ e = Len(r) /\ n <= e
  <2>1. ol + k = o + lk
    BY <1>2, <1>10
  <2>2. Len(q) = Len(r) /\ n <= Len(q)
    <3>1. CASE ol > m
      <4>1. n = ol /\ Len(r) = ol + k
        BY <1>1, <1>2, <1>13, <2>1, <3>1
      <4>2. Len(q) = ol + k
        <5>1. \A a, b \in Nat : a + b > a \/ a + b = a
          OBVIOUS
        <5>2. ol + k > n \/ ol + k = n
          BY <1>2, <4>1, <5>1, Zenon
        <5> QED BY <1>13, <5>2, Zenon
      <4> QED BY <1>2, <4>1, <4>2
    <3>2. CASE ~ (ol > m)
      BY <1>1, <1>2, <1>10, <1>13, <2>1, <3>2
    <3> QED BY <3>1, <3>2
  <2>3. Len(q) \in Nat
    BY <1>13
  <2> QED BY <2>2, <2>3, Zenon
<1>15. ASSUME NEW i \in 1 .. Len(q) PROVE q[i] = r[i]
  <2>1. i \in Nat /\ 1 <= i /\ i <= e
    BY <1>14
  <2>2. q[i] = IF ol < i /\ i <= ol + k THEN u[i - ol] ELSE p[i]
    BY <1>7 DEF IsPatched
  <2>3. r[i] = IF o < i /\ i <= o + lk THEN v[i - o] ELSE s[i]
    BY <1>12, <1>14 DEF IsPatched
  <2>4. i <= n => p[i] = IF o < i /\ i <= ol THEN t[i - o] ELSE s[i]
    BY <1>4, <1>5, <2>1 DEF IsPatched
  <2>5. i - o \in 1 .. lk => v[i - o] = IF i - o <= l THEN t[i - o] ELSE u[i - o - l]
    BY <1>9, <1>10 DEF IsConcat
  <2>6. CASE i <= o
    <3>1. ~ (ol < i /\ i <= ol + k) /\ ~ (o < i /\ i <= o + lk) /\ i <= n /\ ~ (o < i /\ i <= ol)
      BY <1>5, <2>1, <2>6
    <3> QED BY <2>2, <2>3, <2>4, <3>1, Zenon
  <2>7. CASE o < i /\ i <= ol
    <3>1. ~ (ol < i /\ i <= ol + k) /\ (o < i /\ i <= o + lk) /\ i <= n
          /\ i - o \in 1 .. lk /\ i - o <= l
      BY <1>2, <1>5, <1>10, <2>1, <2>7
    <3> QED BY <2>2, <2>3, <2>4, <2>5, <2>7, <3>1, Zenon
  <2>8. CASE ol < i /\ i <= ol + k
    <3>1. (o < i /\ i <= o + lk) /\ i - o \in 1 .. lk /\ ~ (i - o <= l) /\ i - o - l = i - ol
      BY <1>2, <1>10, <2>1, <2>8
    <3> QED BY <2>2, <2>3, <2>5, <2>8, <3>1, Zenon
  <2>9. CASE ol + k < i
    <3>1. ~ (ol < i /\ i <= ol + k) /\ ~ (o < i /\ i <= o + lk) /\ i <= n /\ ~ (o < i /\ i <= ol)
      BY <1>2, <1>10, <1>13, <1>14, <2>1, <2>9
    <3> QED BY <2>2, <2>3, <2>4, <3>1, Zenon
  <2> QED BY <1>2, <2>1, <2>6, <2>7, <2>8, <2>9
<1>16. q = r
  BY <1>13, <1>14, <1>15, SeqEqual
<1> QED BY <1>3, <1>6, <1>8, <1>11, <1>16, Zenon

(* A patch of nothing changes nothing. *)
LEMMA PatchedByNone ==
    ASSUME NEW S, NEW s \in Seq(S), NEW o \in Nat, o <= Len(s)
    PROVE  Patched(s, o, <<>>) = s
<1>1. PICK none \in Seq(S) : none = <<>> /\ Len(none) = 0
  <2>1. <<>> \in Seq(S) /\ Len(<<>>) = 0
    OBVIOUS
  <2> QED BY <2>1, Zenon
<1>2. PICK m \in Nat, z \in Nat : m = Len(s) /\ o <= m /\ z = 0 /\ z = Len(none)
  BY <1>1
<1>3. PICK p : p = Patched(s, o, none)
  OBVIOUS
<1>4. IsPatched(S, p, s, m, o, none, z)
  BY <1>1, <1>2, <1>3, PatchedIs
<1>5. p \in Seq(S) /\ Len(p) = Len(s) /\ \A i \in 1 .. Len(p) : p[i] = s[i]
  BY <1>2, <1>4 DEF IsPatched
<1>6. p = s
  BY <1>5, SeqEqual
<1> QED BY <1>1, <1>3, <1>6, Zenon
-----------------------------------------------------------------------------
(* What the files hold. *)

\* The bytes that rd would show of file n.
Now(n) == SubSeq(nodes[n].data, 1, nodes[n].size)

\* File n while a write to it is in progress.
Writing(n) == ~ (cmd = NoCommand \/ nodes[n].dir \/ Desc.node # n)

NowIsBytes ==
    NodesOK => \A n \in 1 .. Len(nodes) :
        /\ Now(n) \in Seq(Byte) /\ Len(Now(n)) = nodes[n].size
        /\ \A i \in 1 .. nodes[n].size : Now(n)[i] = nodes[n].data[i]

(* The bytes of a file are as many as its size says. *)
LEMMA NowIs == NowIsBytes
<1> SUFFICES ASSUME NodesOK, NEW n \in 1 .. Len(nodes)
             PROVE  /\ Now(n) \in Seq(Byte) /\ Len(Now(n)) = nodes[n].size
                    /\ \A i \in 1 .. nodes[n].size : Now(n)[i] = nodes[n].data[i]
  BY DEF NowIsBytes
<1>1. PICK data \in Seq(Byte) : data = nodes[n].data
  BY NodeFields
<1>2. PICK size \in Nat : size = nodes[n].size /\ size <= Len(data)
  BY <1>1, NodeFields DEF NodesOK
<1>3. PICK one \in Nat : one = 1 /\ one # 0
  OBVIOUS
<1>4. PICK r : r = SubSeq(data, one, size)
  OBVIOUS
<1>5. IsSub(Byte, r, data, one, size)
  BY <1>1, <1>2, <1>3, <1>4, SubSeqIs, Zenon
<1>6. r \in Seq(Byte) /\ Len(r) = size /\ \A i \in 1 .. size : r[i] = data[i]
  BY <1>2, <1>3, <1>5 DEF IsSub
<1>7. Now(n) = r
  BY <1>1, <1>2, <1>3, <1>4, Zenon DEF Now
<1> QED BY <1>1, <1>2, <1>6, <1>7, Zenon

(* The same of the state after a step. *)
LEMMA NowNext == NowIsBytes'
BY NowIs, PTL

ContentIsPatched ==
    NodesOK => \A n \in 1 .. Len(nodes) :
        Content(n) = IF Writing(n) THEN Patched(Now(n), Desc.offset, Joined(cmd.left))
                     ELSE Now(n)

(* What a file will hold is what it holds, with the rest of the text over  *)
(* the bytes at the descriptor's offset.                                   *)
LEMMA ContentIs == ContentIsPatched
<1> SUFFICES ASSUME NodesOK, NEW n \in 1 .. Len(nodes)
             PROVE  Content(n) = IF Writing(n)
                                 THEN Patched(Now(n), Desc.offset, Joined(cmd.left))
                                 ELSE Now(n)
  BY DEF ContentIsPatched
<1>1. Len(Now(n)) = nodes[n].size
  BY NowIs DEF NowIsBytes
<1>2. CASE Writing(n)
  BY <1>1, <1>2, Zenon DEF Content, Writing, Patched, Now
<1>3. CASE ~ Writing(n)
  BY <1>3, Zenon DEF Content, Writing, Now
<1> QED BY <1>2, <1>3

(* The same of the state after a step. *)
LEMMA ContentNext == ContentIsPatched'
BY ContentIs, PTL

(* The file after a sys_write: the buffer over its bytes, and no byte of   *)
(* fresh memory among them, if the offset is not behind the end.           *)
LEMMA WrittenBytes ==
    ASSUME NodesOK, NEW n \in 1 .. Len(nodes), NEW offset \in Nat, NEW buf \in Seq(Byte),
           offset <= nodes[n].size, NEW end \in Nat, end = offset + Len(buf)
    PROVE  /\ Written(n, offset, buf).size = IF end > nodes[n].size THEN end ELSE nodes[n].size
           /\ \A i \in 1 .. Written(n, offset, buf).size :
                 Written(n, offset, buf).data[i] =
                    IF offset < i /\ i <= end THEN buf[i - offset] ELSE nodes[n].data[i]
<1>1. /\ nodes[n] \in NodeType /\ nodes[n].data \in Seq(Byte) /\ nodes[n].size \in Nat
      /\ nodes[n].size <= Len(nodes[n].data)
  BY NodeFields DEF NodesOK
<1>2. PICK cap \in Nat : cap = Len(nodes[n].data) /\ nodes[n].size <= cap
  BY <1>1
<1>3. PICK old \in Nat : old = nodes[n].size /\ offset <= old /\ old <= cap
  BY <1>1, <1>2
<1> DEFINE data == Grown(n, end)
           size == Max({end, nodes[n].size})
           new == [i \in DOMAIN data |->
                      IF offset < i /\ i <= end THEN buf[i - offset] ELSE data[i]]
<1>4. size = IF end > old THEN end ELSE old
  <2>1. \A a, b \in Nat : Max({a, b}) = IF a > b THEN a ELSE b
    BY DEF Max
  <2> QED BY <1>3, <2>1
<1>5. PICK top \in Nat : top = IF end > cap THEN end ELSE cap
  OBVIOUS
<1>6. DOMAIN data = 1 .. top /\ \A i \in 1 .. old : data[i] = nodes[n].data[i]
  <2>1. CASE end > cap
    <3>1. data = [i \in 1 .. top |-> IF i <= old THEN nodes[n].data[i] ELSE GARBAGE]
      BY <1>2, <1>3, <1>5, <2>1 DEF Grown
    <3> HIDE DEF data
    <3> QED BY <1>3, <1>5, <2>1, <3>1
  <2>2. CASE ~ (end > cap)
    <3>1. data = nodes[n].data /\ top = cap
      BY <1>2, <1>5, <2>2 DEF Grown
    <3> HIDE DEF data
    <3> QED BY <1>1, <1>2, <3>1
  <2> QED BY <2>1, <2>2
<1> HIDE DEF data
<1>7. Written(n, offset, buf) = [nodes[n] EXCEPT !.data = new, !.size = size]
  BY DEF Written, data
<1>8. \A i \in 1 .. top : new[i] = IF offset < i /\ i <= end THEN buf[i - offset] ELSE data[i]
  BY <1>6
<1> HIDE DEF new, size
<1>9. Written(n, offset, buf).size = size /\ Written(n, offset, buf).data = new
  BY <1>1, <1>7 DEF NodeType
<1>10. ASSUME NEW i \in 1 .. size
       PROVE  new[i] = IF offset < i /\ i <= end THEN buf[i - offset] ELSE nodes[n].data[i]
  <2>1. i \in 1 .. top
    BY <1>3, <1>4, <1>5
  <2>2. CASE offset < i /\ i <= end
    BY <1>8, <2>1, <2>2
  <2>3. CASE ~ (offset < i /\ i <= end)
    <3>1. i \in 1 .. old
      BY <1>3, <1>4, <2>3
    <3> QED BY <1>6, <1>8, <2>1, <2>3, <3>1
  <2> QED BY <2>2, <2>3
<1> QED BY <1>3, <1>4, <1>9, <1>10

(* A sys_write patches the file it is for and leaves the others alone. *)
LEMMA WritePatches ==
    ASSUME NodesOK, NodesOK', NEW n \in 1 .. Len(nodes), NEW offset \in Nat,
           NEW buf \in Seq(Byte), offset <= nodes[n].size,
           nodes' = [nodes EXCEPT ![n] = Written(n, offset, buf)]
    PROVE  /\ Now(n)' = Patched(Now(n), offset, buf)
           /\ \A k \in 1 .. Len(nodes) : nodes'[k].dir = nodes[k].dir
                                         /\ (k # n => nodes'[k] = nodes[k])
           /\ Len(nodes') = Len(nodes)
<1>1. PICK m \in Nat : m = Len(nodes) /\ n \in 1 .. m /\ DOMAIN nodes = 1 .. m
  BY DEF NodesOK
<1>2. PICK l \in Nat : l = Len(buf)
  OBVIOUS
<1>3. PICK end \in Nat : end = offset + l
  BY <1>2
<1>4. PICK old \in Nat : old = nodes[n].size /\ offset <= old
  BY NodeFields
<1>5. PICK w : w = Written(n, offset, buf) /\ w \in NodeType /\ w.dir = nodes[n].dir
  BY WrittenIs
<1>6. /\ w.size = IF end > old THEN end ELSE old
      /\ \A i \in 1 .. w.size :
            w.data[i] = IF offset < i /\ i <= end THEN buf[i - offset] ELSE nodes[n].data[i]
  BY <1>2, <1>3, <1>4, <1>5, WrittenBytes
<1>7. /\ Len(nodes') = m
      /\ \A k \in 1 .. m : nodes'[k] = IF k = n THEN w ELSE nodes[k]
  <2>1. nodes \in Seq(NodeType)
    BY DEF NodesOK
  <2> QED BY <1>1, <1>5, <2>1
<1>8. nodes'[n] = w
  BY <1>1, <1>7
<1>9. /\ Now(n) \in Seq(Byte) /\ Len(Now(n)) = old
      /\ \A i \in 1 .. old : Now(n)[i] = nodes[n].data[i]
  BY <1>4, NowIs DEF NowIsBytes
<1>10. /\ Now(n)' \in Seq(Byte) /\ Len(Now(n)') = w.size
       /\ \A i \in 1 .. w.size : Now(n)'[i] = w.data[i]
  BY <1>1, <1>7, <1>8, NowNext DEF NowIsBytes
<1>11. PICK p : p = Patched(Now(n), offset, buf)
  OBVIOUS
<1>12. IsPatched(Byte, p, Now(n), old, offset, buf, l)
  BY <1>2, <1>4, <1>9, <1>11, PatchedIs
<1>13. PICK q : q = Now(n)'
  OBVIOUS
<1>14. /\ p \in Seq(Byte) /\ Len(p) = w.size
       /\ \A i \in 1 .. w.size : p[i] = IF offset < i /\ i <= end THEN buf[i - offset]
                                        ELSE Now(n)[i]
  BY <1>3, <1>6, <1>12 DEF IsPatched
<1>15. ASSUME NEW i \in 1 .. w.size PROVE q[i] = p[i]
  <2>1. q[i] = IF offset < i /\ i <= end THEN buf[i - offset] ELSE nodes[n].data[i]
    BY <1>6, <1>10, <1>13, Zenon
  <2>2. p[i] = IF offset < i /\ i <= end THEN buf[i - offset] ELSE Now(n)[i]
    BY <1>14, Zenon
  <2>3. CASE offset < i /\ i <= end
    BY <2>1, <2>2, <2>3, Zenon
  <2>4. CASE ~ (offset < i /\ i <= end)
    <3>1. i \in 1 .. old
      BY <1>4, <1>6, <2>4
    <3> QED BY <1>9, <2>1, <2>2, <2>4, <3>1, Zenon
  <2> QED BY <2>3, <2>4
<1>16. q \in Seq(Byte) /\ Len(q) = w.size
  BY <1>10, <1>13, Zenon
<1>17. q = p
  <2>1. Len(q) = Len(p) /\ \A i \in 1 .. Len(q) : q[i] = p[i]
    BY <1>14, <1>15, <1>16, Zenon
  <2> QED BY <1>14, <1>16, <2>1, SeqEqual
<1>18. \A k \in 1 .. m : nodes'[k].dir = nodes[k].dir /\ (k # n => nodes'[k] = nodes[k])
  BY <1>5, <1>7
<1> QED BY <1>1, <1>7, <1>11, <1>13, <1>17, <1>18, Zenon
-----------------------------------------------------------------------------
(* The file system implements FileStore. *)

\* The write in progress: it starts inside the file and will end before the
\* limit of rd.
WriteInv ==
    /\ \A n \in 1 .. Len(nodes) : nodes[n].size <= READ_MAX
    /\ cmd # NoCommand /\ ~ nodes[Desc.node].dir =>
          /\ Desc.offset <= nodes[Desc.node].size
          /\ Desc.offset + Len(Joined(cmd.left)) <= READ_MAX

(* What a sys_write to a file does, from the invariants. *)
LEMMA SysWriteDoes ==
    ASSUME FsInv, FsInv', WriteInv, sys_write, ~ nodes[Desc.node].dir
    PROVE  \E n \in 1 .. Len(nodes), o \in Nat, buf \in Seq(Byte), rest \in Seq(Seq(Byte)) :
              /\ n = Desc.node /\ o = Desc.offset /\ o <= nodes[n].size
              /\ rest = cmd'.left /\ cmd'.fd = cmd.fd
              /\ Joined(cmd.left) = buf \o Joined(rest)
              /\ nodes' = [nodes EXCEPT ![n] = Written(n, o, buf)]
              /\ Desc'.node = n /\ Desc'.offset = o + Len(buf)
              /\ cmd # NoCommand /\ cmd' # NoCommand
<1>1. NodesOK /\ DescriptorsOK /\ NodesOK' /\ DescriptorsOK'
  BY DEF FsInv
<1>2. cmd.left # <<>> /\ cmd # NoCommand
  BY DEF sys_write, NoCommand
<1>3. /\ cmd.fd \in Fd /\ cmd.fd # FAIL /\ Desc.node \in 1 .. Len(nodes)
      /\ Desc.offset \in Nat
  BY <1>1, <1>2, DescIs
<1>4. cmd \in [fd : Fd \cup {FAIL}, left : Seq(Seq(Byte))] /\ cmd.left \in Seq(Seq(Byte))
  BY <1>1 DEF DescriptorsOK
<1>5. PICK left \in Seq(Seq(Byte)) : left = cmd.left /\ left # <<>>
  BY <1>2, <1>4
<1>6. PICK buf \in Seq(Byte) : buf = Head(left)
  BY <1>5, HeadTailProperties
<1>7. PICK rest \in Seq(Seq(Byte)) : rest = Tail(left)
  BY <1>5, HeadTailProperties
<1>8. Joined(cmd.left) = buf \o Joined(rest)
  BY <1>5, <1>6, <1>7, JoinedIs
<1>9. cmd' = [cmd EXCEPT !.left = rest]
  BY <1>5, <1>7 DEF sys_write
<1>10. cmd'.left = rest /\ cmd'.fd = cmd.fd
  BY <1>4, <1>9
<1>11. cmd' # NoCommand
  BY <1>3, <1>10 DEF NoCommand
<1>12. nodes' = [nodes EXCEPT ![Desc.node] = Written(Desc.node, Desc.offset, buf)]
  BY <1>5, <1>6 DEF sys_write
<1>13. Desc'.node = Desc.node /\ Desc'.offset = Desc.offset + Len(buf)
  <2>1. fd_table' = [fd_table EXCEPT ![cmd.fd].offset = @ + Len(buf)]
    BY <1>5, <1>6 DEF sys_write
  <2>2. fd_table \in [Fd -> [used : BOOLEAN, node : Nat, offset : Nat]]
    BY <1>1 DEF DescriptorsOK
  <2>3. PICK d \in [used : BOOLEAN, node : Nat, offset : Nat] : d = fd_table[cmd.fd]
    BY <1>3, <2>2
  <2>4. PICK o : o = d.offset + Len(buf)
    OBVIOUS
  <2>5. fd_table'[cmd.fd] = [d EXCEPT !.offset = o]
    BY <1>3, <2>1, <2>2, <2>3, <2>4
  <2>6. [d EXCEPT !.offset = o].node = d.node /\ [d EXCEPT !.offset = o].offset = o
    BY <2>3
  <2> QED BY <1>10, <2>3, <2>4, <2>5, <2>6, Zenon DEF Desc
<1>14. Desc.offset <= nodes[Desc.node].size
  BY <1>2 DEF WriteInv
<1> QED BY <1>2, <1>3, <1>6, <1>7, <1>8, <1>10, <1>11, <1>12, <1>13, <1>14, Zenon

(* The descriptor that cmd_write opens. *)
LEMMA OpenedIs ==
    ASSUME FsInv, NEW arg \in Args, NEW text \in Texts, cmd_write(arg, text)
    PROVE  /\ cmd = NoCommand /\ cmd' # NoCommand /\ cmd'.left = Buffers(text)
           /\ Desc'.node = vfs_lookup(arg) /\ Desc'.offset = 0
           /\ vfs_lookup(arg) \in 1 .. Len(nodes) /\ UNCHANGED <<nodes, shown>>
<1>1. NodesOK /\ DescriptorsOK
  BY DEF FsInv
<1>2. cmd = NoCommand /\ Opens(arg)
  BY DEF cmd_write, Idle
<1>3. fd_alloc \in Fd /\ fd_alloc # FAIL
  BY <1>1, <1>2, AllocIs
<1>4. vfs_lookup(arg) \in 1 .. Len(nodes)
  BY <1>1, <1>2, ArgsLead DEF Opens, Targets, DescriptorsOK
<1>5. PICK fd \in Fd : fd = fd_alloc /\ fd # FAIL
  BY <1>3
<1>6. PICK b : b = Buffers(text)
  OBVIOUS
<1>7. cmd' = [fd |-> fd, left |-> b]
  BY <1>5, <1>6 DEF cmd_write
<1>8. cmd'.fd = fd /\ cmd'.left = b /\ cmd' # NoCommand
  BY <1>5, <1>7 DEF NoCommand
<1>9. fd_table'[fd] = Opened(arg)
  BY <1>1, <1>5 DEF cmd_write, DescriptorsOK
<1>10. Opened(arg).node = vfs_lookup(arg) /\ Opened(arg).offset = 0
  BY DEF Opened
<1> QED BY <1>2, <1>4, <1>6, <1>8, <1>9, <1>10 DEF Desc, cmd_write

(* Every step keeps WriteInv. *)
LEMMA WriteStep == FsInv /\ FsInv' /\ WriteInv /\ [FsNext]_fs_vars => WriteInv'
<1> SUFFICES ASSUME FsInv, FsInv', WriteInv, [FsNext]_fs_vars PROVE WriteInv'
  OBVIOUS
<1>1. NodesOK /\ DescriptorsOK /\ NodesOK' /\ DescriptorsOK'
  BY DEF FsInv
<1>2. PICK m \in Nat : m = Len(nodes)
  BY <1>1 DEF NodesOK
<1>3. READ_MAX \in Nat
  BY FileSystemAssumption
<1>4. ASSUME cmd' = NoCommand, UNCHANGED nodes PROVE WriteInv'
  BY <1>4 DEF WriteInv
<1>5. ASSUME UNCHANGED <<nodes, cmd, fd_table>> PROVE WriteInv'
  BY <1>5 DEF WriteInv, Desc
<1>6. ASSUME NEW p \in Dirs, NEW arg \in Args, ramfs_create(p, arg), UNCHANGED cmd,
             cmd = NoCommand
      PROVE  WriteInv'
  <2>1. CASE UNCHANGED nodes
    BY <1>4, <1>6, <2>1
  <2>2. CASE nodes' = WithChild(p, arg)
    <3>1. /\ Len(nodes') = m + 1 /\ nodes'[m + 1] = Node(arg, FALSE)
          /\ \A n \in 1 .. m : nodes'[n].size = nodes[n].size
      BY <1>1, <1>2, <2>2, ChildAdded
    <3>2. nodes'[m + 1].size = 0
      BY <3>1 DEF Node
    <3>3. \A n \in 1 .. m + 1 : n \in 1 .. m \/ n = m + 1
      BY <1>2
    <3>4. \A n \in 1 .. m + 1 : nodes'[n].size <= READ_MAX
      <4>1. 0 <= READ_MAX /\ \A n \in 1 .. m : nodes[n].size <= READ_MAX
        BY <1>2, <1>3 DEF WriteInv
      <4> QED BY <3>1, <3>2, <3>3, <4>1, Zenon
    <3> QED BY <1>6, <3>1, <3>4, Zenon DEF WriteInv
  <2> QED BY <1>6, <2>1, <2>2 DEF ramfs_create
<1>7. ASSUME NEW arg \in Args, cmd_mk(arg) PROVE WriteInv'
  BY <1>1, <1>6, <1>7 DEF cmd_mk, Idle, DescriptorsOK
<1>8. ASSUME NEW arg \in Args, cmd_mkr(arg) PROVE WriteInv'
  <2>1. vfs_lookup(Plain(TMP)) = 3 /\ 3 \in Dirs
    BY <1>1, TmpLeads DEF Dirs
  <2> QED BY <1>6, <1>8, <2>1 DEF cmd_mkr, Idle
<1>9. CASE CdRoot
  BY <1>5, <1>9 DEF CdRoot
<1>10. ASSUME NEW arg \in Args, cmd_cd(arg) \/ NotFound(arg) PROVE WriteInv'
  BY <1>5, <1>10 DEF cmd_cd, NotFound
<1>11. ASSUME NEW arg \in Args, cmd_rd(arg) PROVE WriteInv'
  BY <1>4, <1>11 DEF cmd_rd, Idle
<1>12. ASSUME NEW arg \in Args, NEW text \in Texts, cmd_write(arg, text) PROVE WriteInv'
  <2>1. /\ cmd'.left = Buffers(text) /\ Desc'.node = vfs_lookup(arg) /\ Desc'.offset = 0
        /\ vfs_lookup(arg) \in 1 .. m /\ nodes' = nodes
    BY <1>2, <1>12, OpenedIs
  <2>2. PICK len \in Nat : len = Len(Joined(Buffers(text))) /\ len <= READ_MAX
    <3>1. Joined(Buffers(text)) \in Seq(Byte)
      BY BuffersAre, JoinedIs
    <3> QED BY <3>1, FileSystemAssumption
  <2>3. nodes[vfs_lookup(arg)].size \in Nat
    BY <1>1, <1>2, <2>1, NodeFields
  <2> QED BY <1>3, <2>1, <2>2, <2>3 DEF WriteInv
<1>13. CASE sys_write
  <2>1. CASE nodes[Desc.node].dir
    <3>1. UNCHANGED <<nodes, fd_table>> /\ cmd' = [cmd EXCEPT !.left = Tail(@)]
      BY <1>13, <2>1 DEF sys_write
    <3>2. cmd'.fd = cmd.fd
      BY <1>1, <3>1 DEF DescriptorsOK
    <3> QED BY <2>1, <3>1, <3>2 DEF WriteInv, Desc
  <2>2. CASE ~ nodes[Desc.node].dir
    <3>1. PICK n \in 1 .. Len(nodes), o \in Nat, buf \in Seq(Byte), rest \in Seq(Seq(Byte)) :
              /\ n = Desc.node /\ o = Desc.offset /\ o <= nodes[n].size
              /\ rest = cmd'.left
              /\ Joined(cmd.left) = buf \o Joined(rest)
              /\ nodes' = [nodes EXCEPT ![n] = Written(n, o, buf)]
              /\ Desc'.node = n /\ Desc'.offset = o + Len(buf)
              /\ cmd # NoCommand
      BY <1>13, <2>2, SysWriteDoes
    <3>2. PICK l \in Nat, k \in Nat : /\ l = Len(buf) /\ k = Len(Joined(rest))
                                      /\ Len(Joined(cmd.left)) = l + k
      <4>1. Joined(rest) \in Seq(Byte)
        BY <3>1, JoinedIs
      <4>2. PICK u \in Seq(Byte) : u = Joined(rest)
        BY <4>1
      <4>3. Len(buf \o u) = Len(buf) + Len(u) /\ Len(buf) \in Nat /\ Len(u) \in Nat
        BY <3>1, <4>2
      <4> QED BY <3>1, <4>2, <4>3
    <3>3. o + (l + k) <= READ_MAX
      BY <2>2, <3>1, <3>2 DEF WriteInv
    <3>4. PICK end \in Nat : end = o + l
      OBVIOUS
    <3>5. PICK w \in NodeType : w = Written(n, o, buf)
      BY <1>1, <3>1, WrittenIs
    <3>6. nodes[n].size \in Nat /\ w.size = IF end > nodes[n].size THEN end ELSE nodes[n].size
      BY <1>1, <3>1, <3>2, <3>4, <3>5, NodeFields, WrittenBytes
    <3>7. /\ Len(nodes') = m /\ nodes'[n] = w
          /\ \A i \in 1 .. m : nodes'[i] = IF i = n THEN w ELSE nodes[i]
      <4>1. nodes \in Seq(NodeType)
        BY <1>1 DEF NodesOK
      <4> QED BY <1>2, <3>1, <3>5, <4>1
    <3>8. w.size <= READ_MAX /\ end <= w.size
      <4>1. nodes[n].size <= READ_MAX
        BY <3>1 DEF WriteInv
      <4> QED BY <1>3, <3>2, <3>3, <3>4, <3>6, <4>1
    <3>9. \A i \in 1 .. m : nodes'[i].size <= READ_MAX
      BY <1>2, <3>7, <3>8 DEF WriteInv
    <3>10. Desc'.offset = end /\ end + k <= READ_MAX
      <4>1. Desc'.offset = end
        BY <3>1, <3>2, <3>4, Zenon
      <4>2. end + k <= READ_MAX
        BY <1>3, <3>2, <3>3, <3>4
      <4> QED BY <4>1, <4>2
    <3> QED BY <3>1, <3>2, <3>7, <3>8, <3>9, <3>10 DEF WriteInv
  <2> QED BY <2>1, <2>2
<1>14. CASE WriteFaults
  BY <1>5, <1>14 DEF WriteFaults
<1>15. CASE WriteCloses
  BY <1>4, <1>15 DEF WriteCloses
<1>16. CASE UNCHANGED fs_vars
  BY <1>5, <1>16 DEF fs_vars
<1> QED BY <1>7, <1>8, <1>9, <1>10, <1>11, <1>12, <1>13, <1>14, <1>15, <1>16 DEF FsNext

\* All files, as FileStore sees them.
Files == [n \in DOMAIN nodes |-> Content(n)]

(* Between two commands a file holds what rd would show of it. *)
LEMMA IdleContent ==
    ASSUME NodesOK, cmd = NoCommand, NEW n \in 1 .. Len(nodes)
    PROVE  Content(n) = Now(n)
BY ContentIs, Zenon DEF ContentIsPatched, Writing

(* The same of the state after a step. *)
LEMMA IdleContentNext ==
    ASSUME NodesOK', cmd' = NoCommand, NEW n \in 1 .. Len(nodes')
    PROVE  Content(n)' = Now(n)'
BY ContentNext, Zenon DEF ContentIsPatched, Writing

(* mk and mkr add an empty file. *)
LEMMA CreateAdds ==
    ASSUME FsInv, FsInv', cmd = NoCommand, UNCHANGED <<cmd, fd_table, shown>>,
           NEW p \in Dirs, NEW arg \in Args, ramfs_create(p, arg)
    PROVE  Store!Create \/ UNCHANGED <<Files, shown>>
<1>1. NodesOK /\ NodesOK'
  BY DEF FsInv
<1>2. CASE UNCHANGED nodes
  BY <1>2 DEF Files, Content, Desc
<1>3. CASE nodes' = WithChild(p, arg)
  <2>1. PICK m \in Nat : m = Len(nodes) /\ DOMAIN nodes = 1 .. m
    BY <1>1, NodesRange
  <2>2. /\ Len(nodes') = m + 1 /\ nodes'[m + 1] = Node(arg, FALSE)
        /\ \A n \in 1 .. m : nodes'[n].data = nodes[n].data /\ nodes'[n].size = nodes[n].size
    BY <1>1, <1>3, <2>1, ChildAdded
  <2>3. DOMAIN nodes' = 1 .. m + 1
    BY <1>1, <2>2 DEF NodesOK
  <2>4. \A n \in 1 .. m : Content(n) = Now(n) /\ Now(n) \in Seq(Byte)
    BY <1>1, <2>1, IdleContent, NowIs DEF NowIsBytes
  <2>5. \A n \in 1 .. m + 1 : Content(n)' = Now(n)'
    BY <1>1, <2>2, IdleContentNext
  <2>6. \A n \in 1 .. m : Now(n)' = Now(n)
    BY <2>2, Zenon DEF Now
  <2>7. Now(m + 1)' = <<>>
    <3>1. nodes'[m + 1].data = <<>> /\ nodes'[m + 1].size = 0
      BY <2>2 DEF Node
    <3>2. SubSeq(<<>>, 1, 0) = <<>>
      OBVIOUS
    <3> QED BY <2>1, <3>1, <3>2, Zenon DEF Now
  <2>8. PICK files : files = Files
    OBVIOUS
  <2>9. files = [n \in 1 .. m |-> Content(n)]
    BY <2>1, <2>8, Zenon DEF Files
  <2>10. files \in Seq(Seq(Byte)) /\ Len(files) = m /\ \A n \in 1 .. m : files[n] = Now(n)
    BY <2>4, <2>9
  <2>11. PICK none \in Seq(Byte) : none = <<>>
    <3>1. <<>> \in Seq(Byte)
      OBVIOUS
    <3> QED BY <3>1, Zenon
  <2>12. PICK more : more = Append(files, none)
    OBVIOUS
  <2>13. /\ more \in Seq(Seq(Byte)) /\ Len(more) = m + 1 /\ more[m + 1] = none
         /\ \A n \in 1 .. m : more[n] = files[n]
    BY <2>10, <2>11, <2>12, AppendIs
  <2>14. more = [n \in 1 .. m + 1 |-> more[n]]
    BY <2>13
  <2>15. ASSUME NEW n \in 1 .. m + 1 PROVE more[n] = Content(n)'
    <3>1. CASE n = m + 1
      BY <2>5, <2>7, <2>11, <2>13, <3>1, Zenon
    <3>2. CASE n # m + 1
      <4>1. n \in 1 .. m
        BY <2>1, <3>2
      <4> QED BY <2>5, <2>6, <2>10, <2>13, <4>1, Zenon
    <3> QED BY <3>1, <3>2
  <2>16. Files' = [n \in 1 .. m + 1 |-> Content(n)']
    BY <2>3, Zenon DEF Files
  <2>17. Files' = more
    BY <2>14, <2>15, <2>16, Zenon
  <2>18. Files' = Append(Files, <<>>)
    BY <2>8, <2>11, <2>12, <2>17, Zenon
  <2> QED BY <2>18 DEF Store!Create, Files
<1> QED BY <1>2, <1>3 DEF ramfs_create

(* A step that keeps what each file will hold. *)
LEMMA FilesKept ==
    ASSUME NodesOK, NEW m \in Nat, m = Len(nodes), DOMAIN nodes' = 1 .. m,
           \A n \in 1 .. m : Content(n)' = Content(n)
    PROVE  Files' = Files
<1>1. DOMAIN nodes = 1 .. m
  BY DEF NodesOK
<1> QED BY <1>1, Zenon DEF Files

(* rd shows all of a file, since no file is longer than what it asks for. *)
LEMMA ReadShows ==
    ASSUME FsInv, FsInv', WriteInv, NEW arg \in Args, cmd_rd(arg)
    PROVE  \E n \in DOMAIN Files : Store!Show(n)
<1>1. NodesOK /\ DescriptorsOK /\ NodesOK'
  BY DEF FsInv
<1>2. PICK m \in Nat : m = Len(nodes) /\ DOMAIN nodes = 1 .. m
  BY <1>1, NodesRange
<1>3. cmd = NoCommand /\ cmd' = NoCommand /\ nodes' = nodes /\ Opens(arg)
  BY DEF cmd_rd, Idle
<1>4. PICK n \in 1 .. m : n = vfs_lookup(arg)
  BY <1>1, <1>2, <1>3, ArgsLead DEF Opens, Targets, DescriptorsOK
<1>5. \A k \in 1 .. m : Content(k) = Now(k)
  BY <1>1, <1>2, <1>3, IdleContent
<1>6. \A k \in 1 .. m : Content(k)' = Now(k)
  <2>1. \A k \in 1 .. m : Content(k)' = Now(k)'
    BY <1>1, <1>2, <1>3, IdleContentNext
  <2>2. \A k \in 1 .. m : Now(k)' = Now(k)
    BY <1>3, Zenon DEF Now
  <2> QED BY <2>1, <2>2, Zenon
<1>7. Files' = Files
  BY <1>1, <1>2, <1>3, <1>5, <1>6, FilesKept
<1>8. shown' = ramfs_read(n, 0, READ_MAX)
  BY <1>4 DEF cmd_rd
<1>9. PICK size \in Nat : size = nodes[n].size /\ size <= READ_MAX
  BY <1>1, <1>2, NodeFields DEF WriteInv
<1>10. ramfs_read(n, 0, READ_MAX) = Now(n)
  <2>1. READ_MAX \in Nat
    BY FileSystemAssumption
  <2>2. CASE size = 0
    <3>1. 0 >= nodes[n].size
      BY <1>9, <2>2
    <3>2. SubSeq(nodes[n].data, 1, 0) = <<>>
      BY SubSeqEmpty
    <3> QED BY <1>9, <2>2, <3>1, <3>2, Zenon DEF ramfs_read, Now
  <2>3. CASE size # 0
    <3>1. ~ (0 >= nodes[n].size) /\ 0 + 1 = 1
      BY <1>9, <2>3
    <3>2. (IF 0 + READ_MAX > nodes[n].size THEN nodes[n].size ELSE 0 + READ_MAX) = nodes[n].size
      BY <1>9, <2>1
    <3> QED BY <3>1, <3>2, Zenon DEF ramfs_read, Now
  <2> QED BY <2>2, <2>3
<1>11. n \in DOMAIN Files /\ Files[n] = Now(n)
  BY <1>2, <1>5, Zenon DEF Files
<1>12. shown' = Files[n]
  BY <1>8, <1>10, <1>11, Zenon
<1> QED BY <1>7, <1>11, <1>12 DEF Store!Show, Files

(* From the moment it is opened, a file counts as having its new text. *)
LEMMA OpenWrites ==
    ASSUME FsInv, FsInv', NEW arg \in Args, NEW text \in Texts, cmd_write(arg, text)
    PROVE  \/ \E n \in DOMAIN Files : Store!Write(n)
           \/ UNCHANGED <<Files, shown>>
<1>1. NodesOK /\ DescriptorsOK /\ NodesOK'
  BY DEF FsInv
<1>2. PICK m \in Nat : m = Len(nodes) /\ DOMAIN nodes = 1 .. m
  BY <1>1, NodesRange
<1>3. /\ cmd = NoCommand /\ cmd' # NoCommand /\ cmd'.left = Buffers(text)
      /\ Desc'.node = vfs_lookup(arg) /\ Desc'.offset = 0
      /\ vfs_lookup(arg) \in 1 .. m /\ nodes' = nodes /\ shown' = shown
  BY <1>2, OpenedIs
<1>4. PICK x \in 1 .. m : x = vfs_lookup(arg)
  BY <1>3
<1>5. PICK t \in Seq(Byte) : t = Joined(Buffers(text))
  BY BuffersAre, JoinedIs
<1>6. \A k \in 1 .. m : Content(k) = Now(k) /\ Now(k)' = Now(k)
  <2>1. \A k \in 1 .. m : Content(k) = Now(k)
    BY <1>1, <1>2, <1>3, IdleContent
  <2>2. \A k \in 1 .. m : Now(k)' = Now(k)
    BY <1>3, Zenon DEF Now
  <2> QED BY <2>1, <2>2
<1>7. \A k \in 1 .. m : Writing(k)' <=> k = x /\ ~ nodes[k].dir
  BY <1>3, <1>4, Zenon DEF Writing
<1>8. \A k \in 1 .. m : Content(k)' = IF k = x /\ ~ nodes[k].dir
                                      THEN Patched(Now(k), 0, t) ELSE Now(k)
  <2>1. \A k \in 1 .. m : Content(k)' = IF Writing(k)'
                                        THEN Patched(Now(k)', Desc'.offset, Joined(cmd'.left))
                                        ELSE Now(k)'
    BY <1>1, <1>2, <1>3, ContentNext, Zenon DEF ContentIsPatched
  <2> QED BY <1>3, <1>5, <1>6, <1>7, <2>1, Zenon
<1>9. DOMAIN nodes' = 1 .. m
  BY <1>2, <1>3, Zenon
<1>10. CASE nodes[x].dir
  <2>1. \A k \in 1 .. m : Content(k)' = Content(k)
    BY <1>6, <1>8, <1>10, Zenon
  <2> QED BY <1>1, <1>2, <1>3, <1>9, <2>1, FilesKept
<1>11. CASE ~ nodes[x].dir
  <2>1. Now(x) \in Seq(Byte)
    BY <1>1, <1>2, NowIs DEF NowIsBytes
  <2>2. Patched(Now(x), 0, t) = Store!Over(t, Now(x))
    <3>1. PICK now \in Seq(Byte) : now = Now(x)
      BY <2>1
    <3>2. SubSeq(now, 1, 0) = <<>>
      BY SubSeqEmpty
    <3>3. <<>> \o t = t
      BY <1>5, ConcatEmptySeq
    <3>4. Len(t) \in Nat
      BY <1>5
    <3>5. 0 + Len(t) + 1 = Len(t) + 1
      BY <3>4
    <3>6. Patched(now, 0, t) = t \o SubSeq(now, Len(t) + 1, Len(now))
      BY <3>2, <3>3, <3>5, Zenon DEF Patched
    <3> QED BY <3>1, <3>6, Zenon DEF Store!Over
  <2>3. \A k \in 1 .. m : Content(k)' = IF k = x THEN Store!Over(t, Content(k)) ELSE Content(k)
    BY <1>6, <1>8, <1>11, <2>2, Zenon
  <2>4. Files' = [n \in 1 .. m |-> Content(n)'] /\ Files = [n \in 1 .. m |-> Content(n)]
    BY <1>2, <1>9, Zenon DEF Files
  <2>5. Files' = [Files EXCEPT ![x] = Store!Over(t, Files[x])]
    BY <2>3, <2>4, Zenon
  <2>6. x \in DOMAIN Files /\ t \in {Joined(Buffers(u)) : u \in Texts}
    BY <1>4, <1>5, <2>4, Zenon
  <2>7. Store!Write(x)
    BY <1>3, <2>5, <2>6 DEF Store!Write, Files
  <2> QED BY <2>6, <2>7
<1> QED BY <1>10, <1>11

(* A sys_write changes nothing of what the file will hold. *)
LEMMA SysWriteKeeps ==
    ASSUME FsInv, FsInv', WriteInv, sys_write
    PROVE  UNCHANGED <<Files, shown>>
<1>1. NodesOK /\ DescriptorsOK /\ NodesOK' /\ DescriptorsOK'
  BY DEF FsInv
<1>2. PICK m \in Nat : m = Len(nodes) /\ DOMAIN nodes = 1 .. m
  BY <1>1, NodesRange
<1>3. shown' = shown
  BY DEF sys_write
<1>4. CASE nodes[Desc.node].dir
  <2>1. UNCHANGED <<nodes, fd_table>> /\ cmd' = [cmd EXCEPT !.left = Tail(@)]
    BY <1>4 DEF sys_write
  <2>2. cmd'.fd = cmd.fd
    BY <1>1, <2>1 DEF DescriptorsOK
  <2>3. Desc' = Desc /\ nodes' = nodes
    BY <2>1, <2>2 DEF Desc
  <2>4. \A n \in 1 .. m : ~ Writing(n) /\ ~ Writing(n)'
    BY <1>4, <2>3, Zenon DEF Writing
  <2>5. \A n \in 1 .. m : Content(n) = Now(n) /\ Content(n)' = Now(n)'
    BY <1>1, <1>2, <2>3, <2>4, ContentIs, ContentNext, Zenon DEF ContentIsPatched
  <2>6. \A n \in 1 .. m : Now(n)' = Now(n)
    BY <2>3, Zenon DEF Now
  <2>7. \A n \in 1 .. m : Content(n)' = Content(n)
    BY <2>5, <2>6, Zenon
  <2> QED BY <1>1, <1>2, <1>3, <2>3, <2>7, FilesKept
<1>5. CASE ~ nodes[Desc.node].dir
  <2>1. PICK x \in 1 .. Len(nodes), o \in Nat, buf \in Seq(Byte), rest \in Seq(Seq(Byte)) :
            /\ x = Desc.node /\ o = Desc.offset /\ o <= nodes[x].size
            /\ rest = cmd'.left
            /\ Joined(cmd.left) = buf \o Joined(rest)
            /\ nodes' = [nodes EXCEPT ![x] = Written(x, o, buf)]
            /\ Desc'.node = x /\ Desc'.offset = o + Len(buf)
            /\ cmd # NoCommand /\ cmd' # NoCommand
    BY <1>5, SysWriteDoes
  <2>2. /\ Now(x)' = Patched(Now(x), o, buf)
        /\ \A k \in 1 .. m : nodes'[k].dir = nodes[k].dir /\ (k # x => nodes'[k] = nodes[k])
        /\ Len(nodes') = m
    BY <1>1, <1>2, <2>1, WritePatches
  <2>3. \A n \in 1 .. m : (Writing(n) <=> n = x) /\ (Writing(n)' <=> n = x)
    BY <1>2, <1>5, <2>1, <2>2, Zenon DEF Writing
  <2>4. \A n \in 1 .. m :
           /\ Content(n) = IF n = x THEN Patched(Now(n), Desc.offset, Joined(cmd.left)) ELSE Now(n)
           /\ Content(n)' = IF n = x THEN Patched(Now(n)', Desc'.offset, Joined(cmd'.left))
                            ELSE Now(n)'
    BY <1>1, <1>2, <2>2, <2>3, ContentIs, ContentNext, Zenon DEF ContentIsPatched
  <2>5. ASSUME NEW n \in 1 .. m PROVE Content(n)' = Content(n)
    <3>1. CASE n = x
      <4>1. PICK now \in Seq(Byte) : now = Now(x) /\ o <= Len(now)
        BY <1>1, <2>1, NowIs DEF NowIsBytes
      <4>2. PICK u \in Seq(Byte) : u = Joined(rest)
        BY <2>1, JoinedIs
      <4>3. PICK l \in Nat, ol \in Nat : l = Len(buf) /\ ol = o + l
        BY <2>1
      <4>4. Patched(Patched(now, o, buf), ol, u) = Patched(now, o, buf \o u)
        BY <2>1, <4>1, <4>2, <4>3, PatchedTwice
      <4>5. Content(n)' = Patched(Patched(now, o, buf), ol, u)
        BY <2>1, <2>2, <2>4, <3>1, <4>1, <4>2, <4>3, Zenon
      <4>6. Content(n) = Patched(now, o, buf \o u)
        BY <2>1, <2>4, <3>1, <4>1, <4>2, Zenon
      <4> QED BY <4>4, <4>5, <4>6, Zenon
    <3>2. CASE n # x
      <4>1. Now(n)' = Now(n)
        BY <2>2, <3>2, Zenon DEF Now
      <4> QED BY <2>4, <3>2, <4>1, Zenon
    <3> QED BY <3>1, <3>2
  <2>6. DOMAIN nodes' = 1 .. m
    BY <1>1, <2>2 DEF NodesOK
  <2> QED BY <1>1, <1>2, <1>3, <2>5, <2>6, FilesKept
<1> QED BY <1>4, <1>5

(* Nor does closing it: when no text is left, the file holds what it was   *)
(* to hold.                                                                *)
LEMMA CloseKeeps ==
    ASSUME FsInv, FsInv', WriteInv, WriteCloses
    PROVE  UNCHANGED <<Files, shown>>
<1>1. NodesOK /\ DescriptorsOK /\ NodesOK'
  BY DEF FsInv
<1>2. PICK m \in Nat : m = Len(nodes) /\ DOMAIN nodes = 1 .. m
  BY <1>1, NodesRange
<1>3. /\ cmd # NoCommand /\ cmd.left = <<>> /\ cmd' = NoCommand
      /\ nodes' = nodes /\ shown' = shown
  BY DEF WriteCloses
<1>4. ASSUME NEW n \in 1 .. m PROVE Content(n)' = Content(n)
  <2>1. Content(n)' = Now(n)' /\ Now(n)' = Now(n)
    <3>1. Content(n)' = Now(n)'
      BY <1>1, <1>2, <1>3, IdleContentNext
    <3>2. Now(n)' = Now(n)
      BY <1>3, Zenon DEF Now
    <3> QED BY <3>1, <3>2
  <2>2. CASE ~ Writing(n)
    BY <1>1, <1>2, <2>1, <2>2, ContentIs, Zenon DEF ContentIsPatched
  <2>3. CASE Writing(n)
    <3>1. Content(n) = Patched(Now(n), Desc.offset, Joined(cmd.left))
      BY <1>1, <1>2, <2>3, ContentIs, Zenon DEF ContentIsPatched
    <3>2. Joined(cmd.left) = <<>>
      <4>1. cmd.left \in Seq(Seq(Byte))
        BY <1>1 DEF DescriptorsOK
      <4> QED BY <1>3, <4>1, JoinedIs
    <3>3. PICK now \in Seq(Byte), o \in Nat : now = Now(n) /\ o = Desc.offset /\ o <= Len(now)
      <4>1. Desc.offset \in Nat
        BY <1>1, <1>3, DescIs
      <4>2. Now(n) \in Seq(Byte) /\ Len(Now(n)) = nodes[n].size
        BY <1>1, <1>2, NowIs DEF NowIsBytes
      <4>3. Desc.offset <= nodes[n].size
        BY <1>3, <2>3 DEF WriteInv, Writing
      <4> QED BY <4>1, <4>2, <4>3, Zenon
    <3>4. Patched(now, o, <<>>) = now
      BY <3>3, PatchedByNone
    <3> QED BY <2>1, <3>1, <3>2, <3>3, <3>4, Zenon
  <2> QED BY <2>2, <2>3
<1> QED BY <1>1, <1>2, <1>3, <1>4, FilesKept

(* The start: every file is empty. *)
LEMMA StoreStart == FsInit => WriteInv /\ Store!StoreInit
<1> SUFFICES ASSUME FsInit PROVE WriteInv /\ Store!StoreInit
  OBVIOUS
<1>1. NodesOK
  BY FsStart DEF FsInv
<1>2. cmd = NoCommand /\ shown = <<>>
  BY DEF FsInit
<1>3. Len(nodes) = 3 /\ DOMAIN nodes = 1 .. 3
  BY DEF FsInit
<1>4. \A n \in 1 .. 3 : nodes[n].size = 0
  BY DEF FsInit, Node
<1>5. \A n \in 1 .. 3 : Content(n) = <<>>
  <2> TAKE n \in 1 .. 3
  <2>1. Content(n) = Now(n)
    BY <1>1, <1>2, <1>3, IdleContent
  <2>2. SubSeq(nodes[n].data, 1, 0) = <<>>
    BY SubSeqEmpty
  <2> QED BY <1>4, <2>1, <2>2, Zenon DEF Now
<1>6. WriteInv
  BY <1>2, <1>3, <1>4, FileSystemAssumption DEF WriteInv
<1>7. \A n \in DOMAIN Files : Files[n] = <<>>
  BY <1>3, <1>5, Zenon DEF Files
<1> QED BY <1>2, <1>6, <1>7 DEF Store!StoreInit, Files

(* The file system implements FileStore, whatever the arguments, the texts *)
(* and the limits: a write, however many sys_writes it takes and however   *)
(* often the file's memory grows meanwhile, replaces the beginning of one  *)
(* file and nothing else, and rd shows all of a file.                      *)
THEOREM FsImplementsStore == FsSpec => FileStoreRefinement
<1>1. FsInit => Store!StoreInit /\ WriteInv
  BY StoreStart
<1>2. FsInv /\ FsInv' /\ WriteInv /\ [FsNext]_fs_vars => [Store!StoreNext]_<<Files, shown>>
  <2> SUFFICES ASSUME FsInv, FsInv', WriteInv, [FsNext]_fs_vars
               PROVE  Store!StoreNext \/ UNCHANGED <<Files, shown>>
    OBVIOUS
  <2>1. ASSUME UNCHANGED <<nodes, cmd, fd_table, shown>> PROVE UNCHANGED <<Files, shown>>
    BY <2>1 DEF Files, Content, Desc
  <2>2. ASSUME NEW arg \in Args, cmd_mk(arg) PROVE Store!Create \/ UNCHANGED <<Files, shown>>
    <3>1. cwd \in Dirs
      BY DEF FsInv, DescriptorsOK
    <3> QED BY <2>2, <3>1, CreateAdds DEF cmd_mk, Idle
  <2>3. ASSUME NEW arg \in Args, cmd_mkr(arg) PROVE Store!Create \/ UNCHANGED <<Files, shown>>
    <3>1. vfs_lookup(Plain(TMP)) = 3 /\ 3 \in Dirs
      BY TmpLeads DEF Dirs, FsInv
    <3> QED BY <2>3, <3>1, CreateAdds DEF cmd_mkr, Idle
  <2>4. CASE CdRoot
    BY <2>1, <2>4 DEF CdRoot
  <2>5. ASSUME NEW arg \in Args, cmd_cd(arg) \/ NotFound(arg) PROVE UNCHANGED <<Files, shown>>
    BY <2>1, <2>5 DEF cmd_cd, NotFound
  <2>6. ASSUME NEW arg \in Args, cmd_rd(arg) PROVE Store!StoreNext
    BY <2>6, ReadShows DEF Store!StoreNext, Files
  <2>7. ASSUME NEW arg \in Args, NEW text \in Texts, cmd_write(arg, text)
        PROVE  Store!StoreNext \/ UNCHANGED <<Files, shown>>
    BY <2>7, OpenWrites DEF Store!StoreNext, Files
  <2>8. CASE sys_write
    BY <2>8, SysWriteKeeps
  <2>9. CASE WriteFaults
    BY <2>1, <2>9 DEF WriteFaults
  <2>10. CASE WriteCloses
    BY <2>10, CloseKeeps
  <2>11. CASE UNCHANGED fs_vars
    BY <2>1, <2>11 DEF fs_vars
  <2> QED BY <2>2, <2>3, <2>4, <2>5, <2>6, <2>7, <2>8, <2>9, <2>10, <2>11
          DEF FsNext, Store!StoreNext
<1> QED BY <1>1, <1>2, FsInvariant, WriteStep, PTL
        DEF FsSpec, FileStoreRefinement, Store!StoreSpec, Files
=============================================================================
