---------------------------- MODULE Fat32Proofs ----------------------------
(***************************************************************************)
(* The file system, for every size of the volume, of a cluster and of the  *)
(* texts, and every set of paths: whatever the commands, wherever the      *)
(* power fails, the table and the directories agree, and what was written  *)
(* is read back.                                                           *)
(***************************************************************************)
EXTENDS Fat32, FiniteSetTheorems, SequenceTheorems, WellFoundedInduction, TLAPS

-----------------------------------------------------------------------------
(* Types of what is on the disk.                                           *)

FileNames == {path.parts[1] : path \in FilePaths}

Cell ==
    {End, Del, Dot} \cup [kind : {"data"}, data : STRING]
        \cup [kind : {"entry"}, name : STRING, dir : BOOLEAN, first : Clusters, size : Nat]

FatType == [Clusters -> Clusters \cup {FREE, EOC}]
CellType == [Clusters -> [Offsets -> Cell]]
Image == [fat : FatType, cell : CellType, fragile : BOOLEAN]
Disk == [fat : FatType, cell : CellType, log : Seq(Image), fragile : BOOLEAN]

\* Who owns the clusters: the ones in use, the first cluster of the chain that each
\* is part of, its place in that chain, and the clusters of directories.
Layout ==
    [own : SUBSET Clusters, head : [Clusters -> Clusters], idx : [Clusters -> Nat \ {0}],
     dirs : SUBSET Clusters]

\* The table agrees with the layout.
Chained(F, w) ==
    /\ \A c \in w.own : F[c] \in w.own \cup {EOC}
    /\ \A c \in w.own : w.head[c] \in w.own /\ w.idx[w.head[c]] = 1
    /\ \A c \in w.own : F[c] \in w.own => w.head[F[c]] = w.head[c] /\ w.idx[F[c]] = w.idx[c] + 1
    /\ \A c \in w.own : w.idx[c] = 1 => w.head[c] = c
    /\ \A c \in w.own : w.idx[c] # 1 => \E d \in w.own : F[d] = c
    /\ \A c, d \in w.own : w.head[c] = w.head[d] /\ w.idx[c] = w.idx[d] => c = d

EntriesIn(C, S) == {p \in S \X Offsets : IsEntry(C[p[1]][p[2]])}

\* Entry e leads to a chain of its kind, which is long enough.
Described(e, w) ==
    /\ e.first \in w.own /\ w.idx[e.first] = 1 /\ e.first # root_cluster
    /\ e.dir <=> e.first \in w.dirs
    /\ e.dir <=> e.name \notin FileNames
    /\ \E c \in w.own : w.head[c] = e.first /\ e.size <= CellsPerCluster * w.idx[c]

\* The directories agree with the layout: no chain has two entries.
Named(C, w) ==
    /\ w.dirs \subseteq w.own /\ root_cluster \in w.dirs /\ w.idx[root_cluster] = 1
    /\ \A c \in w.own : c \in w.dirs <=> w.head[c] \in w.dirs
    /\ \A p \in EntriesIn(C, w.dirs) : Described(C[p[1]][p[2]], w)
    /\ \A p, q \in EntriesIn(C, w.dirs) : C[p[1]][p[2]].first = C[q[1]][q[2]].first => p = q
    /\ \A c \in w.dirs : \A i, j \in Offsets : i < j /\ C[c][i] = End => ~IsEntry(C[c][j])

Tree(F, C, w) == w \in Layout /\ F \in FatType /\ C \in CellType /\ Chained(F, w) /\ Named(C, w)

On(D, w) == Tree(D.fat, D.cell, w)
DirEntries(D, w) == EntriesIn(D.cell, w.dirs)

\* A directory to work in.
IsDir(w, c) == c \in w.dirs /\ w.idx[c] = 1

Ok(F, C, cwd) == \E w : Tree(F, C, w) /\ IsDir(w, cwd)

Fat32IInv == outage # "fatal" => Ok(fat, cell, fat32_cwd_cluster)

-----------------------------------------------------------------------------
(* Numbers and cells.                                                      *)

\* A set of numbers has a least one.
LEMMA LeastOf ==
    ASSUME NEW S, S \subseteq Nat, S # {}
    PROVE  \E x \in S : \A y \in S : x <= y
<1> DEFINE R == OpToRel(<, Nat)
<1>1. IsWellFoundedOn(R, Nat)
  BY NatLessThanWellFounded
<1>2. R = {ss \in Nat \X Nat : ss[1] < ss[2]}
  BY DEF OpToRel
<1> HIDE DEF R
<1>3. PICK x \in S : \A y \in S : ~(<<y, x>> \in R)
  BY <1>1, WFMin
<1>4. ASSUME NEW y \in S PROVE x <= y
  <2>1. <<y, x>> \in Nat \X Nat /\ y \in Nat /\ x \in Nat
    OBVIOUS
  <2>2. ~(y < x)
    BY <1>2, <1>3, <2>1
  <2>3. QED
    BY <2>1, <2>2
<1>5. QED
  BY <1>4

\* Numbers of clusters and offsets.
LEMMA Sizes ==
    /\ Clusters \subseteq Nat /\ FREE \notin Clusters /\ EOC \notin Clusters /\ FREE # EOC
    /\ NoCluster \notin Clusters /\ root_cluster \in Clusters
    /\ Offsets \subseteq Nat /\ 0 \in Offsets
    /\ FatEntries \in Nat /\ FatEntries >= 1 /\ CellsPerCluster \in Nat /\ CellsPerCluster >= 1
    /\ \A i \in Nat : i < CellsPerCluster => i \in Offsets
    /\ \A i \in Offsets : i < CellsPerCluster
BY Fat32Assumption DEF Clusters, Offsets, FREE, EOC, NoCluster, root_cluster

\* The kinds of cells.
LEMMA Cells ==
    /\ End \in Cell /\ Del \in Cell /\ Dot \in Cell
    /\ ~IsEntry(End) /\ ~IsEntry(Del) /\ ~IsEntry(Dot)
    /\ \A t \in STRING : Data(t) \in Cell /\ ~IsEntry(Data(t))
BY DEF End, Del, Dot, Data, Cell, IsEntry

LEMMA SameSize ==
    ASSUME NEW e \in Cell, IsEntry(e)
    PROVE  [e EXCEPT !.size = e.size] = e
<1>1. e \notin {End, Del, Dot} /\ e \notin [kind : {"data"}, data : STRING]
  BY DEF IsEntry, End, Del, Dot
<1>2. e \in [kind : {"entry"}, name : STRING, dir : BOOLEAN, first : Clusters, size : Nat]
  BY <1>1 DEF Cell
<1>3. QED
  BY <1>2

LEMMA EntryCells ==
    ASSUME NEW name \in STRING, NEW dir \in BOOLEAN, NEW first \in Clusters, NEW size \in Nat
    PROVE  LET e == Entry(name, dir, first, size)
           IN  /\ e \in Cell /\ IsEntry(e)
               /\ e.name = name /\ e.dir = dir /\ e.first = first /\ e.size = size
BY DEF Entry, Cell, IsEntry

LEMMA CellEntries ==
    ASSUME NEW e \in Cell, IsEntry(e)
    PROVE  /\ e.name \in STRING /\ e.dir \in BOOLEAN /\ e.first \in Clusters /\ e.size \in Nat
           /\ e # End /\ e # Del
           /\ \A n \in Nat : LET g == [e EXCEPT !.size = n]
                             IN  /\ g \in Cell /\ IsEntry(g) /\ g.name = e.name /\ g.dir = e.dir
                                 /\ g.first = e.first /\ g.size = n
<1>1. e \notin {End, Del, Dot} /\ e \notin [kind : {"data"}, data : STRING]
  BY DEF IsEntry, End, Del, Dot
<1>2. e \in [kind : {"entry"}, name : STRING, dir : BOOLEAN, first : Clusters, size : Nat]
  BY <1>1 DEF Cell
<1>3. QED
  BY <1>1, <1>2 DEF Cell, IsEntry

-----------------------------------------------------------------------------
(* Chains.                                                                 *)

LEMMA Single ==
    ASSUME NEW S, NEW x \in S
    PROVE  <<x>> \in Seq(S) /\ Len(<<x>>) = 1 /\ <<x>>[1] = x
OBVIOUS

\* The walk along a chain is defined.
LEMMA ChainWalk ==
    ASSUME NEW D, NEW c
    PROVE  \E W : /\ W = [n \in 1 .. FatEntries |-> IF n = 1 THEN <<c>> ELSE Longer(D, W[n - 1])]
                  /\ Chain(D, c) = W[FatEntries]
<1> DEFINE G(f, m) == [n \in 1 .. m |-> IF n = 1 THEN <<c>> ELSE Longer(D, f[n - 1])]
           Bad == {m \in 0 .. FatEntries : ~(\E f : f = G(f, m))}
<1>0. FatEntries \in Nat
  BY Sizes
<1>1. Bad = {}
  <2> SUFFICES ASSUME Bad # {} PROVE FALSE
    OBVIOUS
  <2>1. Bad \subseteq Nat
    OBVIOUS
  <2>2. PICK m \in Bad : \A k \in Bad : m <= k
    BY <2>1, LeastOf
  <2>3. m # 0
    <3> DEFINE f == [n \in 1 .. 0 |-> 0]
    <3>1. f = G(f, 0)
      OBVIOUS
    <3>2. QED
      BY <3>1
  <2>4. m \in Nat /\ m - 1 \in 0 .. FatEntries /\ m - 1 \notin Bad
    <3>1. m \in 0 .. FatEntries
      OBVIOUS
    <3> HIDE DEF Bad
    <3>2. m - 1 \in 0 .. FatEntries /\ ~(m <= m - 1) /\ m \in Nat
      BY <3>1, <2>3, <1>0
    <3>3. QED
      BY <3>2, <2>2
  <2>5. PICK f : f = G(f, m - 1)
    BY <2>4
  <2> DEFINE g == [n \in 1 .. m |-> IF n = m THEN (IF m = 1 THEN <<c>> ELSE Longer(D, f[m - 1])) ELSE f[n]]
  <2>6. ASSUME NEW n \in 1 .. m PROVE g[n] = IF n = 1 THEN <<c>> ELSE Longer(D, g[n - 1])
    <3>1. CASE n = m
      <4>1. m # 1 => g[m - 1] = f[m - 1]
        BY <2>4
      <4>2. QED
        BY <4>1, <3>1
    <3>2. CASE n # m
      <4>1. n \in 1 .. m - 1 /\ g[n] = f[n]
        BY <3>2, <2>4
      <4>2. n # 1 => n - 1 \in 1 .. m /\ n - 1 # m /\ g[n - 1] = f[n - 1]
        BY <4>1, <2>4
      <4>3. f[n] = IF n = 1 THEN <<c>> ELSE Longer(D, f[n - 1])
        BY <4>1, <2>5
      <4>4. QED
        BY <4>1, <4>2, <4>3
    <3>3. QED
      BY <3>1, <3>2
  <2>7. g = G(g, m)
    BY <2>6
  <2>8. QED
    BY <2>2, <2>7
<1>2. \E W : W = G(W, FatEntries)
  <2>1. FatEntries \in 0 .. FatEntries
    BY <1>0
  <2>2. FatEntries \notin Bad
    BY <1>1
  <2>3. QED
    BY <2>1, <2>2
<1> DEFINE X == CHOOSE W : W = G(W, FatEntries)
<1>3. X = G(X, FatEntries)
  BY <1>2
<1>4. Chain(D, c) = X[FatEntries]
  BY DEF Chain
<1> HIDE DEF X
<1>5. QED
  BY <1>3, <1>4

\* A chain that begins at the head of a layout's chain is that chain: its clusters
\* come in the order of their places, none twice, and the last one ends it.
LEMMA ChainOf ==
    ASSUME NEW D, NEW w \in Layout, D.fat \in FatType, Chained(D.fat, w),
           NEW h \in w.own, w.idx[h] = 1
    PROVE  LET ch == Chain(D, h)
           IN  /\ ch \in Seq(w.own) /\ Len(ch) \in 1 .. FatEntries /\ ch[1] = h
               /\ \A k \in 1 .. Len(ch) : w.head[ch[k]] = h /\ w.idx[ch[k]] = k
               /\ D.fat[ch[Len(ch)]] = EOC
               /\ \A x : x \in ToSet(ch) <=> x \in w.own /\ w.head[x] = h
<1> DEFINE Good(n, q) ==
             /\ q \in Seq(w.own) /\ Len(q) \in 1 .. n /\ q[1] = h
             /\ \A k \in 1 .. Len(q) : w.head[q[k]] = h /\ w.idx[q[k]] = k
             /\ Len(q) = n \/ D.fat[q[Len(q)]] = EOC
<1>0. FatEntries \in Nat /\ FatEntries >= 1 /\ w.own \subseteq Clusters /\ EOC \notin Clusters /\ w.head[h] = h
  BY Sizes DEF Layout, Chained
<1>1. PICK W : /\ W = [n \in 1 .. FatEntries |-> IF n = 1 THEN <<h>> ELSE Longer(D, W[n - 1])]
               /\ Chain(D, h) = W[FatEntries]
  BY ChainWalk
<1>2. ASSUME NEW n \in Nat, n >= 1, NEW q, Good(n, q)
      PROVE  Good(n + 1, Longer(D, q))
  <2> DEFINE l == q[Len(q)]
             nx == D.fat[l]
  <2>1. Len(q) \in 1 .. n /\ l \in w.own /\ w.head[l] = h /\ w.idx[l] = Len(q)
    BY <1>2
  <2>2. nx \in w.own \/ nx = EOC
    BY <2>1 DEF Chained
  <2>3. CASE nx = EOC
    <3>1. Longer(D, q) = q
      BY <2>3, <1>0 DEF Longer
    <3>2. QED
      BY <3>1, <2>3, <1>2
  <2>4. CASE nx \in w.own
    <3>1. Longer(D, q) = Append(q, nx)
      BY <2>4, <1>0 DEF Longer
    <3>2. Len(q) = n
      BY <1>2, <2>4, <1>0
    <3>3. w.head[nx] = h /\ w.idx[nx] = n + 1
      BY <2>1, <2>4, <3>2 DEF Chained
    <3>a. q \in Seq(w.own)
      BY <1>2
    <3> HIDE DEF nx, l
    <3>4. Append(q, nx) \in Seq(w.own) /\ Len(Append(q, nx)) = n + 1
      BY <3>a, <2>4, <3>2
    <3>5. \A k \in 1 .. n + 1 : Append(q, nx)[k] = IF k = n + 1 THEN nx ELSE q[k]
      BY <3>a, <3>2
    <3>6. QED
      BY <3>1, <3>2, <3>3, <3>4, <3>5, <1>2
  <2>5. QED
    BY <2>2, <2>3, <2>4
<1>3. \A n \in 1 .. FatEntries : Good(n, W[n])
  <2> DEFINE Bad == {n \in 1 .. FatEntries : ~Good(n, W[n])}
  <2> SUFFICES ASSUME Bad # {} PROVE FALSE
    OBVIOUS
  <2>1. Bad \subseteq Nat
    OBVIOUS
  <2>2. PICK n \in Bad : \A k \in Bad : n <= k
    BY <2>1, LeastOf
  <2>3. n # 1
    <3> HIDE DEF Bad, Good
    <3>0. 1 \in 1 .. FatEntries
      BY <1>0
    <3>1. W[1] = <<h>>
      BY <3>0, <1>1
    <3> DEFINE o == <<h>>
    <3>2. o \in Seq(w.own) /\ Len(o) = 1 /\ o[1] = h
      BY Single
    <3> HIDE DEF o
    <3>3. Good(1, o)
      BY <1>0, <3>2 DEF Good
    <3>4. QED
      BY <3>1, <3>3 DEF o, Bad
  <2>4. n \in Nat /\ n - 1 \in 1 .. FatEntries /\ n - 1 \notin Bad
    <3>1. n \in 1 .. FatEntries
      OBVIOUS
    <3> HIDE DEF Bad
    <3>2. n - 1 \in 1 .. FatEntries /\ ~(n <= n - 1) /\ n \in Nat
      BY <3>1, <2>3, <1>0
    <3>3. QED
      BY <3>2, <2>2
  <2>5. W[n] = Longer(D, W[n - 1])
    BY <1>1, <2>3, <2>4
  <2>6. Good((n - 1) + 1, Longer(D, W[n - 1]))
    <3> HIDE DEF Good
    <3>1. Good(n - 1, W[n - 1]) /\ n - 1 \in Nat /\ n - 1 >= 1
      BY <2>4
    <3>2. QED
      BY <3>1, <1>2
  <2>7. QED
    <3>1. (n - 1) + 1 = n
      BY <2>4
    <3> HIDE DEF Good
    <3>2. QED
      BY <3>1, <2>5, <2>6
<1> DEFINE ch == Chain(D, h)
<1>4. Good(FatEntries, ch)
  <2> HIDE DEF Good
  <2>1. QED
    BY <1>0, <1>1, <1>3
<1> DEFINE L == Len(ch)
<1>5. ch \in Seq(w.own) /\ L \in 1 .. FatEntries /\ \A k \in 1 .. L : ch[k] \in w.own /\ w.head[ch[k]] = h /\ w.idx[ch[k]] = k
  BY <1>4
<1>6. D.fat[ch[L]] = EOC
  <2> SUFFICES ASSUME D.fat[ch[L]] # EOC PROVE FALSE
    OBVIOUS
  <2>1. L = FatEntries
    BY <1>4
  <2> DEFINE nx == D.fat[ch[L]]
  <2>2. nx \in w.own /\ w.idx[nx] = FatEntries + 1
    <3>1. ch[L] \in w.own /\ w.idx[ch[L]] = FatEntries
      BY <1>5, <2>1
    <3>2. QED
      BY <3>1 DEF Chained
  <2> HIDE DEF nx
  <2> DEFINE f == [k \in 1 .. FatEntries + 1 |-> IF k = FatEntries + 1 THEN nx ELSE ch[k]]
  <2>3. f \in [1 .. FatEntries + 1 -> Clusters]
    BY <1>0, <1>5, <2>1, <2>2
  <2>4. IsFiniteSet(Clusters) /\ Cardinality(Clusters) = FatEntries
    BY <1>0, FS_Interval DEF Clusters
  <2>5. IsFiniteSet(1 .. FatEntries + 1) /\ Cardinality(1 .. FatEntries + 1) = FatEntries + 1
    BY <1>0, FS_Interval
  <2>6. PICK x, y \in 1 .. FatEntries + 1 : x # y /\ f[x] = f[y]
    <3> HIDE DEF f
    <3>1. Cardinality(Clusters) < Cardinality(1 .. FatEntries + 1)
      BY <1>0, <2>4, <2>5
    <3> DEFINE S == 1 .. FatEntries + 1
    <3>2. f \in [S -> Clusters] /\ IsFiniteSet(S) /\ Cardinality(Clusters) < Cardinality(S)
      BY <2>3, <2>5, <3>1
    <3> HIDE DEF S
    <3>3. \E x, y \in S : x # y /\ f[x] = f[y]
      BY <2>4, <3>2, FS_PigeonHole
    <3>4. QED
      BY <3>3 DEF S
  <2>7. \A k \in 1 .. FatEntries + 1 : w.idx[f[k]] = k
    BY <1>0, <1>5, <2>1, <2>2
  <2>8. QED
    BY <2>6, <2>7
<1>7. ASSUME NEW x \in w.own, w.head[x] = h PROVE \E k \in 1 .. L : x = ch[k]
  <2>0. w.idx[x] \in Nat /\ w.idx[x] >= 1
    BY <1>0 DEF Layout
  <2>1. CASE w.idx[x] <= L
    <3>1. w.idx[x] \in 1 .. L
      BY <2>0, <2>1, <1>5
    <3>2. x = ch[w.idx[x]]
      BY <3>1, <1>5, <1>7 DEF Chained
    <3>3. QED
      BY <3>1, <3>2
  <2>2. CASE w.idx[x] > L
    <3> DEFINE K == {w.idx[y] : y \in {z \in w.own : w.head[z] = h /\ w.idx[z] > L}}
    <3>1. K \subseteq Nat /\ w.idx[x] \in K
      BY <1>0, <1>7, <2>2 DEF Layout
    <3>2. PICK m \in K : \A n \in K : m <= n
      BY <3>1, LeastOf
    <3>3. PICK y \in w.own : w.head[y] = h /\ w.idx[y] > L /\ m = w.idx[y]
      OBVIOUS
    <3>4. w.idx[y] # 1 /\ m \in Nat
      BY <3>1, <3>2, <3>3, <1>5
    <3>5. PICK d \in w.own : D.fat[d] = y
      BY <3>4 DEF Chained
    <3>6. w.head[d] = h /\ w.idx[y] = w.idx[d] + 1 /\ w.idx[d] \in Nat
      BY <3>3, <3>5, <1>0 DEF Chained, Layout
    <3>7. ~(w.idx[d] > L)
      <4> SUFFICES ASSUME w.idx[d] > L PROVE FALSE
        OBVIOUS
      <4>1. w.idx[d] \in K
        BY <3>6
      <4> HIDE DEF K
      <4>2. QED
        BY <4>1, <3>2, <3>3, <3>6
    <3>8. w.idx[d] = L
      BY <3>3, <3>6, <3>7, <1>5
    <3>9. d = ch[L]
      BY <3>6, <3>8, <1>5 DEF Chained
    <3>10. QED
      BY <3>9, <3>5, <1>6, <1>0
  <2>3. QED
    BY <2>0, <2>1, <2>2, <1>5
<1>8. \A x : x \in ToSet(ch) <=> x \in w.own /\ w.head[x] = h
  <2>1. ToSet(ch) = {ch[k] : k \in 1 .. L}
    BY <1>5 DEF ToSet
  <2>2. QED
    BY <2>1, <1>5, <1>7
<1>9. ch[1] = h
  BY <1>4
<1>10. QED
  BY <1>5, <1>6, <1>8, <1>9

-----------------------------------------------------------------------------
(* Directories.                                                            *)

\* The first of some positions is one of them.
LEMMA FirstOfIn ==
    ASSUME NEW T, NEW ch \in Seq(T), \A j, k \in 1 .. Len(ch) : ch[j] = ch[k] => j = k,
           NEW S, S \subseteq ToSet(ch) \X Offsets, S # {}
    PROVE  /\ FirstOf(ch, S) \in S
           /\ \A q \in S : q[1] = FirstOf(ch, S)[1] => ~(q[2] < FirstOf(ch, S)[2])
<1> DEFINE at(c) == CHOOSE k \in 1 .. Len(ch) : ch[k] = c
<1>1. ASSUME NEW p \in S PROVE at(p[1]) \in 1 .. Len(ch) /\ ch[at(p[1])] = p[1] /\ p[2] \in Nat
  <2>1. p \in ToSet(ch) \X Offsets
    OBVIOUS
  <2>2. p[1] \in ToSet(ch) /\ p[2] \in Offsets
    BY <2>1
  <2>3. \E k \in 1 .. Len(ch) : ch[k] = p[1]
    BY <2>2 DEF ToSet
  <2>4. QED
    BY <2>2, <2>3, Sizes
<1> DEFINE K == {at(p[1]) : p \in S}
<1>2. K \subseteq Nat /\ K # {}
  BY <1>1
<1>3. PICK m \in K : \A n \in K : m <= n
  BY <1>2, LeastOf
<1> DEFINE Q == {p \in S : at(p[1]) = m}
<1> DEFINE O == {p[2] : p \in Q}
<1>4. O \subseteq Nat /\ O # {}
  BY <1>1
<1>5. PICK o \in O : \A n \in O : o <= n
  <2> HIDE DEF O
  <2>1. QED
    BY <1>4, LeastOf
<1>6. PICK p \in Q : p[2] = o
  OBVIOUS
<1>7. p \in S /\ at(p[1]) = m
  BY <1>6
<1>8. ASSUME NEW q \in S \ {p} PROVE Before(ch, p, q)
  <2> HIDE DEF at
  <2>1. at(q[1]) \in K /\ m \in Nat /\ at(q[1]) \in Nat
    BY <1>1, <1>2
  <2>2. CASE at(q[1]) # m
    <3>1. m < at(q[1])
      BY <2>1, <2>2, <1>3
    <3>2. QED
      BY <3>1, <1>7 DEF Before, at
  <2>3. CASE at(q[1]) = m
    <3>1. q \in Q /\ q[2] \in O
      BY <2>3
    <3>2. p[1] = q[1]
      BY <2>3, <1>7, <1>1
    <3>3. p = <<p[1], p[2]>> /\ q = <<q[1], q[2]>>
      BY <1>7
    <3>4. p[2] # q[2]
      BY <3>2, <3>3
    <3>5. p[2] \in Nat /\ q[2] \in Nat /\ p[2] <= q[2]
      BY <3>1, <1>1, <1>5, <1>6, <1>7
    <3>6. p[2] < q[2]
      BY <3>4, <3>5
    <3>7. QED
      BY <3>2, <3>6 DEF Before
  <2>4. QED
    BY <2>2, <2>3
<1>9. \E r \in S : \A q \in S \ {r} : Before(ch, r, q)
  BY <1>7, <1>8
<1> DEFINE z == FirstOf(ch, S)
<1>10. z \in S /\ \A q \in S \ {z} : Before(ch, z, q)
  BY <1>9 DEF FirstOf
<1> HIDE DEF z
<1>11. ASSUME NEW q \in S, q[1] = z[1], q[2] < z[2] PROVE FALSE
  <2>1. at(z[1]) \in Nat /\ z[2] \in Nat /\ q[2] \in Nat
    BY <1>1, <1>10
  <2>2. q # z
    BY <1>11, <2>1
  <2>3. at(z[1]) < at(q[1]) \/ z[2] < q[2]
    BY <2>2, <1>10 DEF Before
  <2> HIDE DEF at
  <2>4. QED
    BY <2>1, <2>3, <1>11
<1>12. QED
  BY <1>10, <1>11 DEF z

\* The parts of a layout that agrees with a disk.
LEMMA OnParts ==
    ASSUME NEW D, NEW w, On(D, w)
    PROVE  /\ w \in Layout /\ D.fat \in FatType /\ D.cell \in CellType /\ Chained(D.fat, w)
           /\ w.own \subseteq Clusters /\ w.dirs \subseteq w.own /\ IsDir(w, root_cluster)
           /\ \A c \in w.own : c \in w.dirs <=> w.head[c] \in w.dirs
           /\ \A p \in DirEntries(D, w) :
                 /\ p \in w.dirs \X Offsets /\ IsEntry(At(D, p)) /\ At(D, p) \in Cell /\ Described(At(D, p), w)
                 /\ \A q \in DirEntries(D, w) : At(D, p).first = At(D, q).first => p = q
<1>1. /\ w \in Layout /\ D.fat \in FatType /\ D.cell \in CellType /\ Chained(D.fat, w)
      /\ w.own \subseteq Clusters /\ w.dirs \subseteq w.own /\ IsDir(w, root_cluster)
      /\ \A c \in w.own : c \in w.dirs <=> w.head[c] \in w.dirs
  BY DEF On, Tree, Named, IsDir, Layout
<1>2. ASSUME NEW p \in DirEntries(D, w)
      PROVE  /\ p \in w.dirs \X Offsets /\ IsEntry(At(D, p)) /\ At(D, p) \in Cell /\ Described(At(D, p), w)
             /\ \A q \in DirEntries(D, w) : At(D, p).first = At(D, q).first => p = q
  <2>1. p \in w.dirs \X Offsets /\ IsEntry(At(D, p))
    BY DEF DirEntries, EntriesIn, At
  <2>2. At(D, p) \in Cell
    BY <1>1, <2>1 DEF CellType, At
  <2>3. Described(At(D, p), w) /\ \A q \in DirEntries(D, w) : At(D, p).first = At(D, q).first => p = q
    BY DEF DirEntries, On, Tree, Named, At
  <2>4. QED
    BY <2>1, <2>2, <2>3
<1>3. QED
  BY <1>1, <1>2

\* The entries of a directory: none lies behind an end mark.
LEMMA ListedIn ==
    ASSUME NEW D, NEW w, On(D, w), NEW dir, IsDir(w, dir)
    PROVE  /\ \A p : p \in Listed(D, dir) <=> p \in DirEntries(D, w) /\ w.head[p[1]] = dir
           /\ \A x : x \in ToSet(Chain(D, dir)) <=> x \in w.dirs /\ w.head[x] = dir
<1>1. /\ w \in Layout /\ D.fat \in FatType /\ Chained(D.fat, w) /\ dir \in w.own /\ w.idx[dir] = 1
      /\ w.dirs \subseteq w.own /\ \A c \in w.own : c \in w.dirs <=> w.head[c] \in w.dirs
  BY DEF On, Tree, IsDir, Named
<1>2. \A x : x \in ToSet(Chain(D, dir)) <=> x \in w.own /\ w.head[x] = dir
  BY <1>1, ChainOf
<1>3. \A x : x \in ToSet(Chain(D, dir)) <=> x \in w.dirs /\ w.head[x] = dir
  BY <1>1, <1>2 DEF IsDir
<1>4. ASSUME NEW p \in DirEntries(D, w)
      PROVE  \A i \in 0 .. p[2] - 1 : At(D, <<p[1], i>>) # End
  <2>1. p[1] \in w.dirs /\ p[2] \in Offsets /\ IsEntry(D.cell[p[1]][p[2]])
    BY DEF EntriesIn, DirEntries
  <2> TAKE i \in 0 .. p[2] - 1
  <2>2. i \in Offsets /\ i < p[2]
    <3>1. p[2] \in Nat /\ p[2] < CellsPerCluster /\ CellsPerCluster \in Nat
      BY <2>1, Sizes
    <3>2. i \in Nat /\ i < p[2] /\ i < CellsPerCluster
      BY <3>1
    <3>3. QED
      BY <3>2, Sizes
  <2>3. D.cell[p[1]][i] # End
    BY <2>1, <2>2 DEF On, Tree, Named
  <2>4. QED
    BY <2>3 DEF At
<1>5. ASSUME NEW p \in Listed(D, dir) PROVE p \in DirEntries(D, w) /\ w.head[p[1]] = dir
  BY <1>3 DEF Listed, EntriesIn, DirEntries, At
<1>6. ASSUME NEW p \in DirEntries(D, w), w.head[p[1]] = dir PROVE p \in Listed(D, dir)
  <2>1. p \in w.dirs \X Offsets /\ IsEntry(At(D, p))
    BY DEF EntriesIn, DirEntries, At
  <2>2. p \in ToSet(Chain(D, dir)) \X Offsets
    BY <2>1, <1>6, <1>3
  <2>3. QED
    BY <2>1, <2>2, <1>4 DEF Listed
<1>7. QED
  BY <1>5, <1>6, <1>3

\* The order of a directory's clusters.
LEMMA DirChain ==
    ASSUME NEW D, NEW w, On(D, w), NEW dir, IsDir(w, dir), NEW S, S # {},
           \A p \in S : p \in w.dirs \X Offsets /\ w.head[p[1]] = dir
    PROVE  /\ FirstOf(Chain(D, dir), S) \in S
           /\ \A q \in S : q[1] = FirstOf(Chain(D, dir), S)[1] => ~(q[2] < FirstOf(Chain(D, dir), S)[2])
<1>1. w \in Layout /\ D.fat \in FatType /\ Chained(D.fat, w) /\ dir \in w.own /\ w.idx[dir] = 1
  BY DEF On, Tree, IsDir, Named
<1> DEFINE ch == Chain(D, dir)
<1>2. ch \in Seq(w.own) /\ \A k \in 1 .. Len(ch) : w.idx[ch[k]] = k
  BY <1>1, ChainOf
<1>3. S \subseteq ToSet(ch) \X Offsets
  <2>1. \A x : x \in ToSet(Chain(D, dir)) <=> x \in w.dirs /\ w.head[x] = dir
    BY ListedIn
  <2>2. QED
    BY <2>1
<1> HIDE DEF ch
<1>4. \A j, k \in 1 .. Len(ch) : ch[j] = ch[k] => j = k
  BY <1>2
<1>5. FirstOf(ch, S) \in S /\ \A q \in S : q[1] = FirstOf(ch, S)[1] => ~(q[2] < FirstOf(ch, S)[2])
  BY <1>2, <1>3, <1>4, FirstOfIn
<1>6. QED
  BY <1>5 DEF ch

\* NoPos is no position in a directory.
LEMMA NoPosOutside ==
    ASSUME NEW D, NEW w, On(D, w)
    PROVE  NoPos \notin w.dirs \X Offsets /\ NoPos \notin DirEntries(D, w)
<1>1. NoPos[1] \notin w.dirs
  BY Sizes, OnParts DEF NoPos, NoCluster
<1>2. QED
  BY <1>1 DEF EntriesIn, DirEntries

\* The entry of a name in a directory.
LEMMA FindIn ==
    ASSUME NEW D, NEW w, On(D, w), NEW dir, IsDir(w, dir), NEW name
    PROVE  /\ Find(D, dir, name) # NoPos =>
                 /\ Find(D, dir, name) \in DirEntries(D, w) /\ w.head[Find(D, dir, name)[1]] = dir
                 /\ At(D, Find(D, dir, name)).name = name
           /\ Find(D, dir, name) = NoPos =>
                 \A q \in DirEntries(D, w) : w.head[q[1]] = dir => At(D, q).name # name
<1> DEFINE S == {q \in Listed(D, dir) : At(D, q).name = name}
<1>1. \A p : p \in Listed(D, dir) <=> p \in DirEntries(D, w) /\ w.head[p[1]] = dir
  BY ListedIn
<1>2. Find(D, dir, name) = FirstOf(Chain(D, dir), S)
  BY DEF Find
<1>3. \A p \in S : p \in w.dirs \X Offsets /\ w.head[p[1]] = dir
  BY <1>1 DEF EntriesIn, DirEntries
<1>4. NoPos \notin S
  BY <1>1, NoPosOutside
<1>5. S = {} => Find(D, dir, name) = NoPos
  <2> HIDE DEF S
  <2>1. QED
    BY <1>2 DEF FirstOf
<1>6. S # {} => Find(D, dir, name) \in S
  <2> HIDE DEF S
  <2>1. QED
    BY <1>2, <1>3, DirChain
<1>7. QED
  BY <1>1, <1>4, <1>5, <1>6

\* What a name leads to.
LEMMA LookupIn ==
    ASSUME NEW D, NEW w, On(D, w), NEW dir, IsDir(w, dir), NEW name, Lookup(D, dir, name) # NoCluster
    PROVE  /\ Find(D, dir, name) # NoPos /\ Find(D, dir, name) \in DirEntries(D, w)
           /\ w.head[Find(D, dir, name)[1]] = dir
           /\ At(D, Find(D, dir, name)).name = name
           /\ Lookup(D, dir, name) = At(D, Find(D, dir, name)).first
           /\ name \notin FileNames => IsDir(w, Lookup(D, dir, name))
<1> DEFINE p == Find(D, dir, name)
<1>1. p # NoPos /\ Lookup(D, dir, name) = At(D, p).first
  BY DEF Lookup
<1>2. p \in DirEntries(D, w) /\ w.head[p[1]] = dir /\ At(D, p).name = name
  BY <1>1, FindIn
<1> HIDE DEF p
<1>3. Described(At(D, p), w)
  BY <1>2, OnParts
<1>4. name \notin FileNames => IsDir(w, Lookup(D, dir, name))
  BY <1>1, <1>2, <1>3 DEF Described, IsDir
<1>5. QED
  BY <1>1, <1>2, <1>4 DEF p

\* A path is followed one component after the other.
Stepwise(D, cwd, path) ==
    /\ Resolved(D, cwd, path, 0) = IF path.abs THEN root_cluster ELSE cwd
    /\ \A n \in 1 .. Len(path.parts) :
          Resolved(D, cwd, path, n) = Lookup(D, Resolved(D, cwd, path, n - 1), path.parts[n])

LEMMA ResolvedSteps ==
    ASSUME NEW D, NEW cwd, NEW path, path.parts \in Seq(STRING)
    PROVE  Stepwise(D, cwd, path)
<1> DEFINE N == Len(path.parts)
           base == IF path.abs THEN root_cluster ELSE cwd
           G(f, m) == [n \in 0 .. m |-> IF n = 0 THEN base ELSE Lookup(D, f[n - 1], path.parts[n])]
           Bad == {m \in 0 .. N : ~(\E f : f = G(f, m))}
<1> HIDE DEF base
<1>1. Bad = {}
  <2> SUFFICES ASSUME Bad # {} PROVE FALSE
    OBVIOUS
  <2>1. Bad \subseteq Nat
    OBVIOUS
  <2>2. PICK m \in Bad : \A k \in Bad : m <= k
    BY <2>1, LeastOf
  <2>3. m # 0
    <3> DEFINE f == [n \in 0 .. 0 |-> base]
    <3>1. f = G(f, 0)
      OBVIOUS
    <3>2. QED
      BY <3>1
  <2>4. m \in Nat /\ m - 1 \in 0 .. N /\ m - 1 \notin Bad
    <3>1. m \in 0 .. N
      OBVIOUS
    <3> HIDE DEF Bad
    <3>2. m - 1 \in 0 .. N /\ ~(m <= m - 1) /\ m \in Nat
      BY <3>1, <2>3
    <3>3. QED
      BY <3>2, <2>2
  <2>5. PICK f : f = G(f, m - 1)
    BY <2>4
  <2> DEFINE g == [n \in 0 .. m |-> IF n = m THEN Lookup(D, f[m - 1], path.parts[m]) ELSE f[n]]
  <2>6. ASSUME NEW n \in 0 .. m PROVE g[n] = IF n = 0 THEN base ELSE Lookup(D, g[n - 1], path.parts[n])
    <3>1. CASE n = m
      <4>1. g[m - 1] = f[m - 1]
        BY <2>4
      <4>2. QED
        BY <4>1, <3>1, <2>3
    <3>2. CASE n # m
      <4>1. n \in 0 .. m - 1 /\ g[n] = f[n]
        BY <3>2, <2>4
      <4>2. n # 0 => n - 1 \in 0 .. m /\ n - 1 # m /\ g[n - 1] = f[n - 1]
        BY <4>1, <2>4
      <4>3. f[n] = IF n = 0 THEN base ELSE Lookup(D, f[n - 1], path.parts[n])
        BY <4>1, <2>5
      <4>4. QED
        BY <4>1, <4>2, <4>3
    <3>3. QED
      BY <3>1, <3>2
  <2>7. g = G(g, m)
    BY <2>6
  <2>8. QED
    BY <2>2, <2>7
<1>2. \E W : W = G(W, N)
  <2>1. N \in 0 .. N /\ N \notin Bad
    BY <1>1
  <2>2. QED
    BY <2>1
<1> DEFINE X == CHOOSE W : W = G(W, N)
<1>3. X = G(X, N)
  BY <1>2
<1>4. \A n : Resolved(D, cwd, path, n) = X[n]
  BY DEF Resolved, base
<1> HIDE DEF X
<1>5. Resolved(D, cwd, path, 0) = base
  <2>1. 0 \in 0 .. N
    OBVIOUS
  <2>2. X[0] = base
    BY <2>1, <1>3
  <2>3. QED
    BY <2>2, <1>4
<1>6. ASSUME NEW n \in 1 .. N PROVE Resolved(D, cwd, path, n) = Lookup(D, Resolved(D, cwd, path, n - 1), path.parts[n])
  <2>1. X[n] = Lookup(D, X[n - 1], path.parts[n])
    BY <1>3
  <2>2. QED
    BY <2>1, <1>4
<1>7. QED
  BY <1>5, <1>6 DEF base, Stepwise

\* Paths of directories lead to directories.
LEMMA ResolvedIn ==
    ASSUME NEW D, NEW w, On(D, w), NEW cwd, IsDir(w, cwd),
           NEW path, path.parts \in Seq(STRING), \A k \in DOMAIN path.parts : path.parts[k] \notin FileNames
    PROVE  \A n \in 0 .. Len(path.parts) :
              Resolved(D, cwd, path, n) # NoCluster => IsDir(w, Resolved(D, cwd, path, n))
<1>0. Len(path.parts) \in Nat
  OBVIOUS
<1>s. Stepwise(D, cwd, path)
  BY ResolvedSteps
<1> DEFINE N == Len(path.parts)
           Bad == {n \in 0 .. N : Resolved(D, cwd, path, n) # NoCluster /\ ~IsDir(w, Resolved(D, cwd, path, n))}
<1> SUFFICES ASSUME Bad # {} PROVE FALSE
  OBVIOUS
<1>1. Bad \subseteq Nat
  OBVIOUS
<1>2. PICK n \in Bad : \A k \in Bad : n <= k
  BY <1>1, LeastOf
<1>3. n \in 0 .. N /\ Resolved(D, cwd, path, n) # NoCluster /\ ~IsDir(w, Resolved(D, cwd, path, n))
  OBVIOUS
<1>a. \A k \in 0 .. N : k < n => k \notin Bad
  <2> HIDE DEF Bad
  <2>1. QED
    BY <1>2, <1>3
<1>b. \A k \in 0 .. N : k < n => Resolved(D, cwd, path, k) = NoCluster \/ IsDir(w, Resolved(D, cwd, path, k))
  BY <1>a
<1> HIDE DEF Bad
<1>4. n # 0
  BY <1>0, <1>3, <1>s, OnParts DEF Stepwise
<1>5. n \in 1 .. N /\ n - 1 \in 0 .. N /\ n - 1 < n
  BY <1>0, <1>3, <1>4
<1>6. Resolved(D, cwd, path, n) = Lookup(D, Resolved(D, cwd, path, n - 1), path.parts[n])
  BY <1>5, <1>s DEF Stepwise
<1>7. Resolved(D, cwd, path, n - 1) # NoCluster
  BY <1>3, <1>6 DEF Lookup
<1>8. IsDir(w, Resolved(D, cwd, path, n - 1))
  BY <1>b, <1>5, <1>7
<1>9. path.parts[n] \notin FileNames
  BY <1>5
<1> DEFINE up == Resolved(D, cwd, path, n - 1)
           name == path.parts[n]
<1>10. Lookup(D, up, name) # NoCluster /\ ~IsDir(w, Lookup(D, up, name)) /\ IsDir(w, up) /\ name \notin FileNames
  BY <1>3, <1>6, <1>8, <1>9
<1> HIDE DEF up, name
<1>11. QED
  BY <1>10, LookupIn

-----------------------------------------------------------------------------
(* Changes of the disk that a layout survives.                             *)

\* Writing to clusters that are not in use, or to the contents of files.
LEMMA SameTree ==
    ASSUME NEW F, NEW C, NEW w, Tree(F, C, w), NEW G \in FatType, NEW E \in CellType,
           \A c \in w.own : G[c] = F[c], \A c \in w.dirs : E[c] = C[c]
    PROVE  Tree(G, E, w)
<1>1. Chained(G, w)
  BY DEF Tree, Chained
<1>2. Named(E, w)
  <2>1. \A p \in EntriesIn(E, w.dirs) : p \in EntriesIn(C, w.dirs) /\ E[p[1]][p[2]] = C[p[1]][p[2]]
    BY DEF EntriesIn
  <2>2. \A p \in EntriesIn(E, w.dirs) : Described(E[p[1]][p[2]], w)
    BY <2>1 DEF Tree, Named
  <2>3. \A p, q \in EntriesIn(E, w.dirs) : E[p[1]][p[2]].first = E[q[1]][q[2]].first => p = q
    BY <2>1 DEF Tree, Named
  <2>4. QED
    BY <2>2, <2>3 DEF Tree, Named
<1>3. QED
  BY <1>1, <1>2 DEF Tree

\* Writing the size of an entry.
LEMMA SizeTree ==
    ASSUME NEW F, NEW C, NEW w, Tree(F, C, w), NEW E \in CellType,
           NEW p \in EntriesIn(C, w.dirs), NEW c \in w.own, w.head[c] = C[p[1]][p[2]].first,
           NEW n \in Nat, n <= CellsPerCluster * w.idx[c],
           E[p[1]][p[2]] = [C[p[1]][p[2]] EXCEPT !.size = n],
           \A q \in w.dirs \X Offsets : q # p => E[q[1]][q[2]] = C[q[1]][q[2]]
    PROVE  Tree(F, E, w)
<1> DEFINE e == C[p[1]][p[2]]
           g == E[p[1]][p[2]]
<1>0. p \in w.dirs \X Offsets /\ IsEntry(e) /\ e \in Cell
  BY DEF EntriesIn, Tree, Named, CellType, Layout
<1>1. IsEntry(g) /\ g.name = e.name /\ g.dir = e.dir /\ g.first = e.first /\ g.size = n /\ g # End /\ g \in Cell
  <2> HIDE DEF e
  <2>1. g = [e EXCEPT !.size = n]
    BY DEF e
  <2> HIDE DEF g
  <2>2. QED
    BY <1>0, <2>1, CellEntries
<1>2. Described(e, w)
  BY DEF Tree, Named
<1>3. Described(g, w)
  <2> HIDE DEF e, g
  <2>1. w.head[c] = e.first
    BY DEF e
  <2>2. QED
    BY <1>1, <1>2, <2>1 DEF Described
<1>4. ASSUME NEW q \in w.dirs \X Offsets, q # p PROVE E[q[1]][q[2]] = C[q[1]][q[2]]
  BY <1>4
<1>a. ASSUME NEW d \in w.dirs, NEW i \in Offsets, <<d, i>> # p PROVE E[d][i] = C[d][i]
  <2> DEFINE q == <<d, i>>
  <2>1. q \in w.dirs \X Offsets /\ q # p /\ q[1] = d /\ q[2] = i
    BY <1>a
  <2> HIDE DEF q
  <2>2. QED
    BY <2>1, <1>4
<1>5. ASSUME NEW q \in EntriesIn(E, w.dirs) PROVE q \in EntriesIn(C, w.dirs) /\ E[q[1]][q[2]].first = C[q[1]][q[2]].first /\ Described(E[q[1]][q[2]], w)
  <2>1. CASE q = p
    BY <2>1, <1>1, <1>3
  <2>2. CASE q # p
    <3>1. q \in w.dirs \X Offsets
      BY DEF EntriesIn
    <3>2. E[q[1]][q[2]] = C[q[1]][q[2]]
      BY <3>1, <2>2
    <3>3. q \in EntriesIn(C, w.dirs)
      BY <3>1, <3>2 DEF EntriesIn
    <3>4. Described(C[q[1]][q[2]], w)
      BY <3>3 DEF Tree, Named
    <3>5. QED
      BY <3>2, <3>3, <3>4
  <2>3. QED
    BY <2>1, <2>2
<1>6. ASSUME NEW d \in w.dirs, NEW i \in Offsets, NEW j \in Offsets, i < j, E[d][i] = End PROVE ~IsEntry(E[d][j])
  <2>1. <<d, i>> # p
    BY <1>1, <1>6
  <2>2. C[d][i] = End
    BY <2>1, <1>a, <1>6
  <2>3. ~IsEntry(C[d][j])
    BY <2>2, <1>6 DEF Tree, Named
  <2>4. <<d, j>> # p
    BY <2>3, <1>0
  <2>5. E[d][j] = C[d][j]
    BY <2>4, <1>a
  <2>6. QED
    BY <2>3, <2>5
<1>7. Named(E, w)
  <2>1. \A q, r \in EntriesIn(E, w.dirs) : E[q[1]][q[2]].first = E[r[1]][r[2]].first => q = r
    BY <1>5 DEF Tree, Named
  <2>2. QED
    BY <1>5, <1>6, <2>1 DEF Tree, Named
<1>8. QED
  BY <1>7 DEF Tree

\* Giving up the chains with the heads S, once no entry leads to them.
LEMMA DropTree ==
    ASSUME NEW F, NEW C, NEW w, Tree(F, C, w), NEW S, root_cluster \notin S,
           NEW v \in Layout, v.head = w.head, v.idx = w.idx,
           \A c : c \in v.own <=> c \in w.own /\ w.head[c] \notin S,
           \A c : c \in v.dirs <=> c \in w.dirs /\ w.head[c] \notin S,
           NEW G \in FatType, \A c \in v.own : G[c] = F[c],
           NEW E \in CellType,
           \A q \in EntriesIn(E, v.dirs) : E[q[1]][q[2]] = C[q[1]][q[2]] /\ E[q[1]][q[2]].first \notin S,
           \A c \in v.dirs : \A i \in Offsets : E[c][i] = End => C[c][i] = End
    PROVE  Tree(G, E, v)
<1>0. /\ w \in Layout /\ Chained(F, w) /\ w.dirs \subseteq w.own /\ root_cluster \in w.dirs /\ w.idx[root_cluster] = 1
      /\ v.own \subseteq w.own /\ v.dirs \subseteq w.dirs
      /\ \A c \in w.own : c \in w.dirs <=> w.head[c] \in w.dirs
  BY DEF Tree, Named
<1>1. Chained(G, v)
  <2>1. ASSUME NEW c \in v.own PROVE v.head[c] \in v.own /\ v.idx[v.head[c]] = 1
    <3>1. w.head[c] \in w.own /\ w.idx[w.head[c]] = 1 /\ w.head[w.head[c]] = w.head[c]
      BY <1>0 DEF Chained
    <3>2. QED
      BY <3>1
  <2>2. ASSUME NEW c \in v.own
        PROVE  /\ G[c] \in v.own \cup {EOC}
               /\ G[c] \in v.own => v.head[G[c]] = v.head[c] /\ v.idx[G[c]] = v.idx[c] + 1
    <3>1. G[c] = F[c] /\ c \in w.own /\ w.head[c] \notin S
      OBVIOUS
    <3>2. F[c] \in w.own \/ F[c] = EOC
      BY <3>1, <1>0 DEF Chained
    <3>3. F[c] \in w.own => w.head[F[c]] = w.head[c] /\ w.idx[F[c]] = w.idx[c] + 1
      BY <3>1, <1>0 DEF Chained
    <3>4. QED
      BY <3>1, <3>2, <3>3
  <2>3. ASSUME NEW c \in v.own, v.idx[c] # 1 PROVE \E d \in v.own : G[d] = c
    <3>1. PICK d \in w.own : F[d] = c
      BY <1>0, <2>3 DEF Chained
    <3>2. w.head[d] = w.head[c]
      BY <3>1, <1>0 DEF Chained
    <3>3. d \in v.own
      BY <3>1, <3>2
    <3>4. QED
      BY <3>1, <3>3
  <2>4. /\ \A c \in v.own : v.idx[c] = 1 => v.head[c] = c
        /\ \A c, d \in v.own : v.head[c] = v.head[d] /\ v.idx[c] = v.idx[d] => c = d
    BY <1>0 DEF Chained
  <2>5. QED
    BY <2>1, <2>2, <2>3, <2>4 DEF Chained
<1>2. ASSUME NEW q \in EntriesIn(E, v.dirs)
      PROVE  q \in EntriesIn(C, w.dirs) /\ E[q[1]][q[2]] = C[q[1]][q[2]] /\ Described(E[q[1]][q[2]], v)
  <2>1. q \in w.dirs \X Offsets /\ E[q[1]][q[2]] = C[q[1]][q[2]] /\ IsEntry(E[q[1]][q[2]])
    BY <1>0 DEF EntriesIn
  <2>2. q \in EntriesIn(C, w.dirs)
    BY <2>1 DEF EntriesIn
  <2> DEFINE e == E[q[1]][q[2]]
  <2>3. Described(e, w) /\ e.first \notin S
    BY <2>1, <2>2 DEF Tree, Named
  <2> HIDE DEF e
  <2>4. Described(e, v)
    <3>1. e.first \in w.own /\ w.idx[e.first] = 1 /\ w.head[e.first] = e.first
      BY <2>3, <1>0 DEF Described, Chained
    <3>2. PICK c \in w.own : w.head[c] = e.first /\ e.size <= CellsPerCluster * w.idx[c]
      BY <2>3 DEF Described
    <3>3. c \in v.own /\ e.first \in v.own
      BY <3>1, <3>2, <2>3
    <3>4. e.first \in v.dirs <=> e.first \in w.dirs
      BY <3>1, <2>3
    <3>5. QED
      BY <3>1, <3>2, <3>3, <3>4, <2>3 DEF Described
  <2>5. QED
    BY <2>1, <2>2, <2>4 DEF e
<1>3. Named(E, v)
  <2>1. \A q, r \in EntriesIn(E, v.dirs) : E[q[1]][q[2]].first = E[r[1]][r[2]].first => q = r
    BY <1>2 DEF Tree, Named
  <2>2. ASSUME NEW c \in v.dirs, NEW i \in Offsets, NEW j \in Offsets, i < j, E[c][i] = End PROVE ~IsEntry(E[c][j])
    <3>1. ~IsEntry(C[c][j])
      BY <2>2, <1>0 DEF Tree, Named
    <3> SUFFICES ASSUME IsEntry(E[c][j]) PROVE FALSE
      OBVIOUS
    <3> DEFINE q == <<c, j>>
    <3>2. q \in v.dirs \X Offsets /\ q[1] = c /\ q[2] = j
      OBVIOUS
    <3> HIDE DEF q
    <3>3. q \in EntriesIn(E, v.dirs)
      BY <3>2 DEF EntriesIn
    <3>4. QED
      BY <3>1, <3>2, <3>3, <1>2
  <2>3. root_cluster \in v.dirs /\ v.idx[root_cluster] = 1 /\ v.dirs \subseteq v.own
    BY <1>0 DEF Chained
  <2>4. \A c \in v.own : c \in v.dirs <=> v.head[c] \in v.dirs
    <3>1. ASSUME NEW c \in v.own PROVE c \in v.dirs <=> v.head[c] \in v.dirs
      <4>1. c \in w.own /\ w.head[c] \notin S /\ w.head[w.head[c]] = w.head[c]
        BY <1>0 DEF Chained
      <4>2. QED
        BY <4>1, <1>0
    <3>2. QED
      BY <3>1
  <2>5. QED
    BY <1>2, <2>1, <2>2, <2>3, <2>4 DEF Named
<1>4. QED
  BY <1>1, <1>3 DEF Tree

\* Linking a cluster that is not in use behind the last one of a chain.
LEMMA ExtendTree ==
    ASSUME NEW F, NEW C, NEW w, Tree(F, C, w), NEW last \in w.own, F[last] = EOC,
           NEW x \in Clusters, x \notin w.own,
           NEW v \in Layout, \A c : c \in v.own <=> c \in w.own \/ c = x,
           \A c : c \in v.dirs <=> c \in w.dirs \/ (c = x /\ last \in w.dirs),
           \A c \in w.own : v.head[c] = w.head[c] /\ v.idx[c] = w.idx[c],
           v.head[x] = w.head[last], v.idx[x] = w.idx[last] + 1,
           NEW G \in FatType, G[last] = x, G[x] = EOC, \A c \in w.own : c # last => G[c] = F[c],
           NEW E \in CellType, \A c \in w.dirs : E[c] = C[c],
           last \in w.dirs => \A i \in Offsets : ~IsEntry(E[x][i])
    PROVE  Tree(G, E, v)
<1>0. /\ w \in Layout /\ Chained(F, w) /\ w.dirs \subseteq w.own /\ root_cluster \in w.dirs /\ w.idx[root_cluster] = 1
      /\ \A c \in w.own : c \in w.dirs <=> w.head[c] \in w.dirs
      /\ w.idx[last] \in Nat /\ w.idx[last] >= 1 /\ \A c \in w.own : w.idx[c] \in Nat /\ w.idx[c] >= 1
      /\ w.own \subseteq Clusters /\ EOC \notin Clusters /\ x # EOC
  BY Sizes DEF Tree, Named, Layout
<1>1. Chained(G, v)
  <2>1. ASSUME NEW c \in v.own PROVE v.head[c] \in v.own /\ v.idx[v.head[c]] = 1
    <3>1. CASE c = x
      BY <3>1, <1>0 DEF Chained
    <3>2. CASE c \in w.own
      BY <3>2, <1>0 DEF Chained
    <3>3. QED
      BY <3>1, <3>2
  <2>2. ASSUME NEW c \in v.own
        PROVE  /\ G[c] \in v.own \cup {EOC}
               /\ G[c] \in v.own => v.head[G[c]] = v.head[c] /\ v.idx[G[c]] = v.idx[c] + 1
    <3>1. CASE c = x
      BY <3>1, <1>0
    <3>2. CASE c = last
      BY <3>2, <1>0
    <3>3. CASE c \in w.own /\ c # last
      <4>1. G[c] = F[c]
        BY <3>3
      <4>2. F[c] \in w.own \/ F[c] = EOC
        BY <3>3, <1>0 DEF Chained
      <4>3. F[c] \in w.own => w.head[F[c]] = w.head[c] /\ w.idx[F[c]] = w.idx[c] + 1
        BY <3>3, <1>0 DEF Chained
      <4>4. F[c] # x
        BY <4>2, <1>0
      <4>5. QED
        BY <3>3, <4>1, <4>2, <4>3, <4>4
    <3>4. QED
      BY <3>1, <3>2, <3>3
  <2>3. ASSUME NEW c \in v.own, v.idx[c] # 1 PROVE \E d \in v.own : G[d] = c
    <3>1. CASE c = x
      BY <3>1
    <3>2. CASE c \in w.own
      <4>1. PICK d \in w.own : F[d] = c
        BY <1>0, <2>3, <3>2 DEF Chained
      <4>2. d # last
        BY <4>1, <3>2, <1>0
      <4>3. QED
        BY <4>1, <4>2
    <3>3. QED
      BY <3>1, <3>2
  <2>4. ASSUME NEW c \in v.own, v.idx[c] = 1 PROVE v.head[c] = c
    <3>1. c # x
      BY <2>4, <1>0
    <3>2. QED
      BY <2>4, <3>1, <1>0 DEF Chained
  <2>5. ASSUME NEW d \in w.own, w.head[d] = w.head[last], w.idx[d] = w.idx[last] + 1 PROVE FALSE
    <3>1. w.idx[d] # 1
      BY <2>5, <1>0
    <3>2. PICK e \in w.own : F[e] = d
      BY <3>1, <1>0 DEF Chained
    <3>3. w.head[e] = w.head[last] /\ w.idx[d] = w.idx[e] + 1
      BY <3>2, <2>5, <1>0 DEF Chained
    <3>4. w.idx[e] = w.idx[last]
      BY <3>3, <2>5, <1>0
    <3>5. e = last
      BY <3>3, <3>4, <1>0 DEF Chained
    <3>6. QED
      BY <3>2, <3>5, <1>0
  <2>6. ASSUME NEW c \in v.own, NEW d \in v.own, v.head[c] = v.head[d], v.idx[c] = v.idx[d] PROVE c = d
    <3>1. CASE c \in w.own /\ d \in w.own
      BY <3>1, <2>6, <1>0 DEF Chained
    <3>2. CASE c = x /\ d \in w.own
      BY <3>2, <2>6, <2>5
    <3>3. CASE d = x /\ c \in w.own
      BY <3>3, <2>6, <2>5
    <3>4. QED
      BY <3>1, <3>2, <3>3
  <2>7. QED
    BY <2>1, <2>2, <2>3, <2>4, <2>6 DEF Chained
<1>2. ASSUME NEW q \in EntriesIn(E, v.dirs)
      PROVE  q \in EntriesIn(C, w.dirs) /\ E[q[1]][q[2]] = C[q[1]][q[2]] /\ Described(E[q[1]][q[2]], v)
  <2>1. q \in v.dirs \X Offsets /\ IsEntry(E[q[1]][q[2]])
    BY DEF EntriesIn
  <2>a. q[1] \in w.dirs
    BY <2>1
  <2>b. q \in w.dirs \X Offsets /\ E[q[1]][q[2]] = C[q[1]][q[2]]
    BY <2>1, <2>a
  <2>2. q \in EntriesIn(C, w.dirs)
    BY <2>1, <2>b DEF EntriesIn
  <2> DEFINE e == E[q[1]][q[2]]
  <2>3. Described(e, w)
    BY <2>b, <2>2 DEF Tree, Named
  <2> HIDE DEF e
  <2>4. Described(e, v)
    <3>1. e.first \in w.own /\ w.idx[e.first] = 1 /\ e.first # x
      BY <2>3 DEF Described
    <3>2. PICK c \in w.own : w.head[c] = e.first /\ e.size <= CellsPerCluster * w.idx[c]
      BY <2>3 DEF Described
    <3>3. c \in v.own /\ v.head[c] = e.first /\ v.idx[c] = w.idx[c]
      BY <3>2
    <3>4. e.first \in v.dirs <=> e.first \in w.dirs
      BY <3>1
    <3>5. QED
      BY <3>1, <3>2, <3>3, <3>4, <2>3 DEF Described
  <2>5. QED
    BY <2>b, <2>2, <2>4 DEF e
<1>3. Named(E, v)
  <2>1. \A q, r \in EntriesIn(E, v.dirs) : E[q[1]][q[2]].first = E[r[1]][r[2]].first => q = r
    BY <1>2 DEF Tree, Named
  <2>2. ASSUME NEW c \in v.dirs, NEW i \in Offsets, NEW j \in Offsets, i < j, E[c][i] = End PROVE ~IsEntry(E[c][j])
    BY <2>2, <1>0 DEF Tree, Named
  <2>3. root_cluster \in v.dirs /\ v.idx[root_cluster] = 1 /\ v.dirs \subseteq v.own
    BY <1>0
  <2>4. ASSUME NEW c \in v.own PROVE c \in v.dirs <=> v.head[c] \in v.dirs
    <3>1. CASE c = x
      <4>1. v.head[c] = w.head[last] /\ w.head[last] \in w.own /\ w.head[last] # x
        BY <3>1, <1>0 DEF Chained
      <4>2. x \notin w.dirs /\ (last \in w.dirs <=> w.head[last] \in w.dirs)
        BY <1>0
      <4>3. QED
        BY <3>1, <4>1, <4>2
    <3>2. CASE c \in w.own
      <4>1. v.head[c] = w.head[c] /\ w.head[c] \in w.own /\ w.head[c] # x /\ c # x
        BY <3>2, <1>0 DEF Chained
      <4>2. QED
        BY <3>2, <4>1, <1>0
    <3>3. QED
      BY <3>1, <3>2
  <2>5. QED
    BY <1>2, <2>1, <2>2, <2>3, <2>4 DEF Named
<1>4. QED
  BY <1>1, <1>3 DEF Tree

\* Entering a chain of one cluster, which was not in use, in a free place of a directory.
LEMMA LinkTree ==
    ASSUME NEW F, NEW C, NEW w, Tree(F, C, w), NEW p \in w.dirs \X Offsets, ~IsEntry(C[p[1]][p[2]]),
           \A i \in Offsets : i < p[2] => C[p[1]][i] # End,
           NEW x \in Clusters, x \notin w.own, F[x] = EOC,
           NEW e \in Cell, IsEntry(e), e.first = x, e.size = 0, e.dir <=> e.name \notin FileNames,
           e.dir => \A i \in Offsets : ~IsEntry(C[x][i]),
           NEW v \in Layout, \A c : c \in v.own <=> c \in w.own \/ c = x,
           \A c : c \in v.dirs <=> c \in w.dirs \/ (c = x /\ e.dir),
           \A c \in w.own : v.head[c] = w.head[c] /\ v.idx[c] = w.idx[c],
           v.head[x] = x, v.idx[x] = 1,
           NEW E \in CellType, E[p[1]][p[2]] = e,
           \A q \in Clusters \X Offsets : q # p => E[q[1]][q[2]] = C[q[1]][q[2]]
    PROVE  Tree(F, E, v)
<1>0. /\ w \in Layout /\ Chained(F, w) /\ w.dirs \subseteq w.own /\ root_cluster \in w.dirs /\ w.idx[root_cluster] = 1
      /\ \A c \in w.own : c \in w.dirs <=> w.head[c] \in w.dirs
      /\ w.own \subseteq Clusters /\ EOC \notin Clusters /\ x # EOC /\ x \notin w.dirs
      /\ Offsets \subseteq Nat /\ CellsPerCluster \in Nat
  BY Sizes DEF Tree, Named, Layout
<1>1. Chained(F, v)
  <2>1. ASSUME NEW c \in v.own PROVE v.head[c] \in v.own /\ v.idx[v.head[c]] = 1
    <3>1. CASE c = x
      BY <3>1
    <3>2. CASE c \in w.own
      <4>1. w.head[c] \in w.own /\ w.idx[w.head[c]] = 1
        BY <3>2, <1>0 DEF Chained
      <4>2. v.head[c] = w.head[c] /\ v.idx[w.head[c]] = w.idx[w.head[c]] /\ w.head[c] \in v.own
        BY <3>2, <4>1
      <4>3. QED
        BY <4>1, <4>2
    <3>3. QED
      BY <3>1, <3>2
  <2>2. ASSUME NEW c \in v.own
        PROVE  /\ F[c] \in v.own \cup {EOC}
               /\ F[c] \in v.own => v.head[F[c]] = v.head[c] /\ v.idx[F[c]] = v.idx[c] + 1
    <3>1. CASE c = x
      BY <3>1, <1>0
    <3>2. CASE c \in w.own
      <4>1. F[c] \in w.own \/ F[c] = EOC
        BY <3>2, <1>0 DEF Chained
      <4>2. F[c] \in w.own => w.head[F[c]] = w.head[c] /\ w.idx[F[c]] = w.idx[c] + 1
        BY <3>2, <1>0 DEF Chained
      <4>3. QED
        BY <3>2, <4>1, <4>2, <1>0
    <3>3. QED
      BY <3>1, <3>2
  <2>3. ASSUME NEW c \in v.own, v.idx[c] # 1 PROVE \E d \in v.own : F[d] = c
    <3>1. c \in w.own /\ w.idx[c] # 1
      BY <2>3
    <3>2. QED
      BY <3>1, <1>0 DEF Chained
  <2>4. ASSUME NEW c \in v.own, v.idx[c] = 1 PROVE v.head[c] = c
    BY <2>4, <1>0 DEF Chained
  <2>5. ASSUME NEW c \in w.own, w.head[c] = x PROVE FALSE
    BY <2>5, <1>0 DEF Chained
  <2>6. ASSUME NEW c \in v.own, NEW d \in v.own, v.head[c] = v.head[d], v.idx[c] = v.idx[d] PROVE c = d
    <3>1. CASE c \in w.own /\ d \in w.own
      BY <3>1, <2>6, <1>0 DEF Chained
    <3>2. CASE c = x /\ d \in w.own
      BY <3>2, <2>6, <2>5
    <3>3. CASE d = x /\ c \in w.own
      BY <3>3, <2>6, <2>5
    <3>4. QED
      BY <3>1, <3>2, <3>3
  <2>7. QED
    BY <2>1, <2>2, <2>3, <2>4, <2>6 DEF Chained
<1>2. ASSUME NEW d \in v.dirs, NEW i \in Offsets, <<d, i>> # p
      PROVE  E[d][i] = C[d][i] /\ (IsEntry(E[d][i]) => d \in w.dirs)
  <2> DEFINE q == <<d, i>>
  <2>1. q \in Clusters \X Offsets /\ q # p /\ q[1] = d /\ q[2] = i
    BY <1>2, <1>0
  <2> HIDE DEF q
  <2>2. E[d][i] = C[d][i]
    BY <2>1
  <2>3. QED
    BY <2>2
<1>3. ASSUME NEW q \in EntriesIn(E, v.dirs), q # p
      PROVE  q \in EntriesIn(C, w.dirs) /\ E[q[1]][q[2]] = C[q[1]][q[2]] /\ Described(E[q[1]][q[2]], v)
             /\ E[q[1]][q[2]].first # x
  <2>1. q \in v.dirs \X Offsets /\ IsEntry(E[q[1]][q[2]])
    BY DEF EntriesIn
  <2>a. q[1] \in v.dirs /\ q[2] \in Offsets /\ <<q[1], q[2]>> # p
    BY <2>1, <1>3
  <2>b. q \in w.dirs \X Offsets /\ E[q[1]][q[2]] = C[q[1]][q[2]]
    BY <2>1, <2>a, <1>2
  <2>2. q \in EntriesIn(C, w.dirs)
    BY <2>1, <2>b DEF EntriesIn
  <2> DEFINE g == E[q[1]][q[2]]
  <2>3. Described(g, w)
    BY <2>b, <2>2 DEF Tree, Named
  <2> HIDE DEF g
  <2>4. Described(g, v) /\ g.first # x
    <3>1. g.first \in w.own /\ w.idx[g.first] = 1 /\ g.first # x
      BY <2>3 DEF Described
    <3>2. PICK c \in w.own : w.head[c] = g.first /\ g.size <= CellsPerCluster * w.idx[c]
      BY <2>3 DEF Described
    <3>3. c \in v.own /\ v.head[c] = g.first /\ v.idx[c] = w.idx[c]
      BY <3>2
    <3>4. g.first \in v.dirs <=> g.first \in w.dirs
      BY <3>1
    <3>5. QED
      BY <3>1, <3>2, <3>3, <3>4, <2>3 DEF Described
  <2>5. QED
    BY <2>b, <2>2, <2>4 DEF g
<1>4. Described(e, v)
  <2>1. e.first # root_cluster
    BY <1>0
  <2>2. e.dir <=> e.first \in v.dirs
    BY <1>0
  <2>3. e.size <= CellsPerCluster * v.idx[x]
    BY <1>0
  <2>4. QED
    BY <2>1, <2>2, <2>3 DEF Described
<1>5. Named(E, v)
  <2>0. \A q \in EntriesIn(E, v.dirs) : Described(E[q[1]][q[2]], v)
    BY <1>3, <1>4
  <2>1. ASSUME NEW q \in EntriesIn(E, v.dirs), NEW r \in EntriesIn(E, v.dirs), E[q[1]][q[2]].first = E[r[1]][r[2]].first
        PROVE  q = r
    <3>1. CASE q # p /\ r # p
      BY <3>1, <2>1, <1>3 DEF Tree, Named
    <3>2. CASE q = p \/ r = p
      BY <3>2, <2>1, <1>3
    <3>3. QED
      BY <3>1, <3>2
  <2>2. ASSUME NEW c \in v.dirs, NEW i \in Offsets, NEW j \in Offsets, i < j, E[c][i] = End PROVE ~IsEntry(E[c][j])
    <3>1. <<c, i>> # p
      <4>1. e # End
        BY Cells
      <4>2. QED
        BY <4>1, <2>2
    <3>2. C[c][i] = End
      BY <3>1, <1>2, <2>2
    <3>3. <<c, j>> # p
      BY <3>2, <2>2
    <3>4. E[c][j] = C[c][j]
      BY <3>3, <1>2
    <3>5. CASE c \in w.dirs
      BY <3>2, <3>4, <3>5, <2>2 DEF Tree, Named
    <3>6. CASE c = x /\ e.dir
      BY <3>4, <3>6
    <3>7. QED
      BY <3>5, <3>6
  <2>3. root_cluster \in v.dirs /\ v.idx[root_cluster] = 1 /\ v.dirs \subseteq v.own
    BY <1>0
  <2>4. ASSUME NEW c \in v.own PROVE c \in v.dirs <=> v.head[c] \in v.dirs
    <3>1. CASE c = x
      BY <3>1
    <3>2. CASE c \in w.own
      <4>1. v.head[c] = w.head[c] /\ w.head[c] \in w.own /\ w.head[c] # x /\ c # x
        BY <3>2, <1>0 DEF Chained
      <4>2. QED
        BY <3>2, <4>1, <1>0
    <3>3. QED
      BY <3>1, <3>2
  <2>5. QED
    BY <2>0, <2>1, <2>2, <2>3, <2>4 DEF Named
<1>6. QED
  BY <1>1, <1>5 DEF Tree

-----------------------------------------------------------------------------
(* Writes.                                                                 *)

\* The power may fail when this is on the disk.
Bearable(image) == image.fragile \/ Ok(image.fat, image.cell, root_cluster)

\* A disk at any point of a command: the power could have failed after each write.
Sound(D) == D \in Disk /\ \A k \in 1 .. Len(D.log) : Bearable(D.log[k])

\* E is what one more write makes of D.
Follows(D, E) == E \in Disk /\ E.log = Append(D.log, [fat |-> E.fat, cell |-> E.cell, fragile |-> E.fragile])

LEMMA DiskParts ==
    ASSUME NEW D \in Disk
    PROVE  D.fat \in FatType /\ D.cell \in CellType /\ D.fragile \in BOOLEAN /\ D.log \in Seq(Image)
BY DEF Disk

LEMMA OnOk ==
    ASSUME NEW D, NEW w, On(D, w), NEW cwd, IsDir(w, cwd)
    PROVE  Ok(D.fat, D.cell, cwd)
BY DEF Ok, On

LEMMA FollowsSound ==
    ASSUME NEW D, Sound(D), NEW E, Follows(D, E), E.fragile \/ \E w : On(E, w)
    PROVE  Sound(E)
<1> DEFINE i == [fat |-> E.fat, cell |-> E.cell, fragile |-> E.fragile]
<1>1. i.fat = E.fat /\ i.cell = E.cell /\ i.fragile = E.fragile
  OBVIOUS
<1> HIDE DEF i
<1>2. Bearable(i)
  <2>1. CASE E.fragile
    BY <1>1, <2>1 DEF Bearable
  <2>2. ASSUME NEW w, On(E, w) PROVE Ok(E.fat, E.cell, root_cluster)
    BY <2>2, OnParts, OnOk
  <2>3. QED
    BY <1>1, <2>1, <2>2 DEF Bearable
<1>3. D.log \in Seq(Image) /\ E.log = Append(D.log, i) /\ E \in Disk /\ \A k \in 1 .. Len(D.log) : Bearable(D.log[k])
  BY DiskParts DEF Sound, Follows, i
<1>4. \A k \in 1 .. Len(E.log) : Bearable(E.log[k])
  <2> DEFINE L == D.log
             M == E.log
  <2>1. L \in Seq(Image) /\ M = Append(L, i) /\ \A k \in 1 .. Len(L) : Bearable(L[k])
    BY <1>3
  <2> HIDE DEF L, M
  <2>2. Len(M) = Len(L) + 1 /\ Len(L) \in Nat
    BY <2>1
  <2>3. \A k \in 1 .. Len(M) : M[k] = IF k = Len(L) + 1 THEN i ELSE L[k]
    BY <2>1, <2>2
  <2>4. \A k \in 1 .. Len(M) : Bearable(M[k])
    BY <2>1, <2>2, <2>3, <1>2
  <2>5. QED
    BY <2>4 DEF M
<1>5. QED
  BY <1>3, <1>4 DEF Sound

\* ata_write_sectors of a change in memory.
LEMMA WroteDisk ==
    ASSUME NEW D \in Disk, NEW F \in FatType, NEW C \in CellType, NEW E,
           E = Wrote([fat |-> F, cell |-> C, log |-> D.log, fragile |-> D.fragile])
    PROVE  Follows(D, E) /\ E.fat = F /\ E.cell = C /\ E.fragile = D.fragile
<1> DEFINE i == [fat |-> F, cell |-> C, fragile |-> D.fragile]
<1>0. D.log \in Seq(Image) /\ D.fragile \in BOOLEAN
  BY DiskParts
<1>1. i \in Image
  BY <1>0 DEF Image
<1>2. E = [fat |-> F, cell |-> C, log |-> Append(D.log, i), fragile |-> D.fragile]
  BY DEF Wrote
<1>3. Append(D.log, i) \in Seq(Image)
  <2> HIDE DEF i
  <2> DEFINE L == D.log
  <2>1. L \in Seq(Image)
    BY <1>0
  <2> HIDE DEF L
  <2>2. Append(L, i) \in Seq(Image)
    BY <2>1, <1>1
  <2>3. QED
    BY <2>2 DEF L
<1>4. E \in Disk
  BY <1>0, <1>2, <1>3 DEF Disk
<1>5. E.fat = F /\ E.cell = C /\ E.fragile = D.fragile /\ E.log = Append(D.log, i)
  BY <1>2
<1>6. QED
  BY <1>4, <1>5 DEF Follows

LEMMA SetNextDisk ==
    ASSUME NEW D \in Disk, NEW c \in Clusters, NEW next \in Clusters \cup {FREE, EOC}, NEW E,
           E = set_next_cluster(D, c, next)
    PROVE  /\ Follows(D, E) /\ E.cell = D.cell /\ E.fragile = D.fragile
           /\ E.fat[c] = next /\ \A d \in Clusters : d # c => E.fat[d] = D.fat[d]
<1>0. D.fat \in FatType /\ D.cell \in CellType
  BY DiskParts
<1> DEFINE F == [D.fat EXCEPT ![c] = next]
<1>1. F \in FatType
  BY <1>0 DEF FatType
<1>2. [D EXCEPT !.fat[c] = next] = [fat |-> F, cell |-> D.cell, log |-> D.log, fragile |-> D.fragile]
  BY DEF Disk
<1>3. E = Wrote([fat |-> F, cell |-> D.cell, log |-> D.log, fragile |-> D.fragile])
  BY <1>2 DEF set_next_cluster
<1>4. F[c] = next /\ \A d \in Clusters : d # c => F[d] = D.fat[d]
  BY <1>0 DEF FatType
<1> HIDE DEF F
<1>5. Follows(D, E) /\ E.fat = F /\ E.cell = D.cell /\ E.fragile = D.fragile
  BY <1>0, <1>1, <1>3, WroteDisk
<1>6. QED
  BY <1>4, <1>5

LEMMA FilledDisk ==
    ASSUME NEW D \in Disk, NEW c \in Clusters, NEW cells \in [Offsets -> Cell], NEW E,
           E = Filled(D, c, cells)
    PROVE  /\ Follows(D, E) /\ E.fat = D.fat /\ E.fragile = D.fragile
           /\ E.cell[c] = cells /\ \A d \in Clusters : d # c => E.cell[d] = D.cell[d]
<1>0. D.fat \in FatType /\ D.cell \in CellType
  BY DiskParts
<1> DEFINE C == [D.cell EXCEPT ![c] = cells]
<1>1. C \in CellType
  BY <1>0 DEF CellType
<1>2. [D EXCEPT !.cell[c] = cells] = [fat |-> D.fat, cell |-> C, log |-> D.log, fragile |-> D.fragile]
  BY DEF Disk
<1>3. E = Wrote([fat |-> D.fat, cell |-> C, log |-> D.log, fragile |-> D.fragile])
  BY <1>2 DEF Filled
<1>4. C[c] = cells /\ \A d \in Clusters : d # c => C[d] = D.cell[d]
  BY <1>0 DEF CellType
<1> HIDE DEF C
<1>5. Follows(D, E) /\ E.fat = D.fat /\ E.cell = C /\ E.fragile = D.fragile
  BY <1>0, <1>1, <1>3, WroteDisk
<1>6. QED
  BY <1>4, <1>5

LEMMA PutDisk ==
    ASSUME NEW D \in Disk, NEW p \in Clusters \X Offsets, NEW x \in Cell, NEW E, E = Put(D, p, x)
    PROVE  /\ Follows(D, E) /\ E.fat = D.fat /\ E.fragile = D.fragile
           /\ E.cell[p[1]][p[2]] = x
           /\ \A q \in Clusters \X Offsets : q # p => E.cell[q[1]][q[2]] = D.cell[q[1]][q[2]]
           /\ \A c \in Clusters : c # p[1] => E.cell[c] = D.cell[c]
<1>0. D.fat \in FatType /\ D.cell \in CellType /\ p[1] \in Clusters /\ p[2] \in Offsets
  BY DiskParts
<1> DEFINE C == [D.cell EXCEPT ![p[1]][p[2]] = x]
<1>1. C \in CellType
  BY <1>0 DEF CellType
<1>2. [D EXCEPT !.cell[p[1]][p[2]] = x] = [fat |-> D.fat, cell |-> C, log |-> D.log, fragile |-> D.fragile]
  BY DEF Disk
<1>3. E = Wrote([fat |-> D.fat, cell |-> C, log |-> D.log, fragile |-> D.fragile])
  BY <1>2 DEF Put
<1>4. C[p[1]][p[2]] = x
  BY <1>0 DEF CellType
<1>5. ASSUME NEW q \in Clusters \X Offsets, q # p PROVE C[q[1]][q[2]] = D.cell[q[1]][q[2]]
  <2>1. q[1] \in Clusters /\ q[2] \in Offsets /\ (q[1] # p[1] \/ q[2] # p[2])
    BY <1>5
  <2>2. QED
    BY <2>1, <1>0 DEF CellType
<1>a. \A c \in Clusters : c # p[1] => C[c] = D.cell[c]
  BY <1>0 DEF CellType
<1> HIDE DEF C
<1>6. Follows(D, E) /\ E.fat = D.fat /\ E.cell = C /\ E.fragile = D.fragile
  BY <1>0, <1>1, <1>3, WroteDisk
<1>7. QED
  BY <1>4, <1>5, <1>6, <1>a

LEMMA FragileDisk ==
    ASSUME NEW D, Sound(D), NEW yes \in BOOLEAN, NEW E, E = Fragile(D, yes)
    PROVE  Sound(E) /\ E \in Disk /\ E.fat = D.fat /\ E.cell = D.cell /\ E.log = D.log /\ E.fragile = yes
<1>1. D \in Disk
  BY DEF Sound
<1>2. E \in Disk /\ E.fat = D.fat /\ E.cell = D.cell /\ E.log = D.log /\ E.fragile = yes
  BY <1>1 DEF Fragile, Disk
<1>3. QED
  BY <1>2 DEF Sound

-----------------------------------------------------------------------------
(* Taking clusters.                                                        *)

\* A free cluster is not in use.
LEMMA FreeCluster ==
    ASSUME NEW D, find_free_cluster(D) # NoCluster
    PROVE  /\ find_free_cluster(D) \in Clusters /\ D.fat[find_free_cluster(D)] = FREE
           /\ \A w : On(D, w) => find_free_cluster(D) \notin w.own
<1> DEFINE free == {c \in Clusters : D.fat[c] = FREE}
           x == find_free_cluster(D)
<1>1. free # {} /\ x = CHOOSE c \in free : \A d \in free : c <= d
  BY DEF find_free_cluster
<1>2. free \subseteq Nat
  BY Sizes
<1>3. x \in free
  <2> HIDE DEF free
  <2>1. \E c \in free : \A d \in free : c <= d
    BY <1>1, <1>2, LeastOf
  <2>2. QED
    BY <1>1, <2>1
<1> HIDE DEF x
<1>4. ASSUME NEW w, On(D, w) PROVE x \notin w.own
  <2>1. Chained(D.fat, w) /\ w.own \subseteq Clusters
    BY <1>4, OnParts
  <2>2. QED
    BY <2>1, <1>3, Sizes DEF Chained
<1>5. QED
  BY <1>3, <1>4 DEF x

\* A layout with one more cluster.
Grown(w, x, h, n, dir) ==
    [own |-> w.own \cup {x}, head |-> [w.head EXCEPT ![x] = h], idx |-> [w.idx EXCEPT ![x] = n],
     dirs |-> IF dir THEN w.dirs \cup {x} ELSE w.dirs]

Adds(w, v, x, h, n, dir) ==
    /\ v \in Layout /\ \A c : c \in v.own <=> c \in w.own \/ c = x
    /\ \A c : c \in v.dirs <=> c \in w.dirs \/ (c = x /\ dir)
    /\ \A c \in w.own : v.head[c] = w.head[c] /\ v.idx[c] = w.idx[c]
    /\ v.head[x] = h /\ v.idx[x] = n

LEMMA GrownLayout ==
    ASSUME NEW w \in Layout, NEW x \in Clusters, x \notin w.own, NEW h \in Clusters, NEW n \in Nat \ {0}, NEW dir
    PROVE  Adds(w, Grown(w, x, h, n, dir), x, h, n, dir)
BY DEF Grown, Layout, Adds

\* What a new cluster holds.
LEMMA NewCells ==
    /\ Blank \in [Offsets -> Cell] /\ \A i \in Offsets : ~IsEntry(Blank[i]) /\ Blank[i] = End
    /\ NewDir \in [Offsets -> Cell] /\ \A i \in Offsets : ~IsEntry(NewDir[i])
BY Cells DEF Blank, NewDir

\* Linking a free cluster behind a chain, write by write.
Extendable(D, w, last, x, dir) ==
    /\ Sound(D) /\ D.fragile = FALSE /\ On(D, w) /\ last \in w.own /\ D.fat[last] = EOC
    /\ x \in Clusters /\ x \notin w.own /\ dir \in BOOLEAN /\ (dir <=> last \in w.dirs)

Extended(D, w, last, x, dir, E, v) ==
    /\ Sound(E) /\ E.fragile = FALSE /\ On(E, v)
    /\ Adds(w, v, x, w.head[last], w.idx[last] + 1, dir)
    /\ E.cell[x] = Blank /\ \A c \in Clusters : c # x => E.cell[c] = D.cell[c]
    /\ E.fat[last] = x /\ E.fat[x] = EOC /\ \A c \in Clusters : c # x /\ c # last => E.fat[c] = D.fat[c]

LEMMA ExtendDisk ==
    ASSUME NEW D, NEW w, NEW last, NEW x, NEW dir, Extendable(D, w, last, x, dir)
    PROVE  Extended(D, w, last, x, dir, Extend(D, last, x, dir), Grown(w, x, w.head[last], w.idx[last] + 1, dir))
<1> USE DEF Extendable
<1> DEFINE v == Grown(w, x, w.head[last], w.idx[last] + 1, dir)
           E == Extend(D, last, x, dir)
<1>0. w \in Layout /\ w.own \subseteq Clusters /\ w.dirs \subseteq w.own /\ D.fat \in FatType /\ D.cell \in CellType /\ last # x
  BY OnParts
<1>1. /\ v \in Layout /\ \A c : c \in v.own <=> c \in w.own \/ c = x
      /\ \A c : c \in v.dirs <=> c \in w.dirs \/ (c = x /\ dir)
      /\ \A c \in w.own : v.head[c] = w.head[c] /\ v.idx[c] = w.idx[c]
      /\ v.head[x] = w.head[last] /\ v.idx[x] = w.idx[last] + 1
  <2>1. w.head[last] \in Clusters /\ w.idx[last] + 1 \in Nat \ {0}
    BY <1>0 DEF Layout
  <2>2. Adds(w, v, x, w.head[last], w.idx[last] + 1, dir)
    BY <2>1, <1>0, GrownLayout
  <2>3. QED
    BY <2>2 DEF Adds
<1>a. Adds(w, v, x, w.head[last], w.idx[last] + 1, dir)
  BY <1>1 DEF Adds
<1> HIDE DEF v
<1>2. \A c : c \in v.dirs <=> c \in w.dirs \/ (c = x /\ last \in w.dirs)
  BY <1>1
<1> DEFINE a == Fragile(D, TRUE)
           linked == set_next_cluster(a, last, x)
           b == Fragile(linked, dir)
           marked == set_next_cluster(b, x, EOC)
           c0 == Fragile(marked, FALSE)
<1>3. E = Filled(c0, x, Blank)
  BY DEF Extend, Zeroed
<1> HIDE DEF E
<1>4. Sound(a) /\ a \in Disk /\ a.fat = D.fat /\ a.cell = D.cell /\ a.fragile = TRUE
  BY FragileDisk
<1>5. /\ Follows(a, linked) /\ linked.cell = D.cell /\ linked.fragile = TRUE
      /\ linked.fat[last] = x /\ \A d \in Clusters : d # last => linked.fat[d] = D.fat[d]
  <2> HIDE DEF a
  <2>1. QED
    BY <1>0, <1>4, SetNextDisk
<1>6. Sound(linked)
  <2> HIDE DEF a, linked
  <2>1. QED
    BY <1>4, <1>5, FollowsSound
<1>7. Sound(b) /\ b \in Disk /\ b.fat = linked.fat /\ b.cell = D.cell /\ b.fragile = dir
  <2> HIDE DEF a, linked
  <2>1. QED
    BY <1>5, <1>6, FragileDisk
<1> HIDE DEF a, linked
<1>8. /\ Follows(b, marked) /\ marked.cell = D.cell /\ marked.fragile = dir
      /\ marked.fat[x] = EOC /\ \A d \in Clusters : d # x => marked.fat[d] = linked.fat[d]
  <2> HIDE DEF b
  <2>1. EOC \in Clusters \cup {FREE, EOC}
    OBVIOUS
  <2>2. QED
    BY <2>1, <1>7, SetNextDisk
<1> HIDE DEF b, marked
<1>9. marked.fat \in FatType /\ marked.cell \in CellType
  BY <1>8, DiskParts DEF Follows
<1>10. marked.fat[last] = x /\ \A c \in Clusters : c # x /\ c # last => marked.fat[c] = D.fat[c]
  BY <1>0, <1>5, <1>8
<1>11. ~dir => On(marked, v)
  <2>1. Tree(D.fat, D.cell, w)
    BY DEF On
  <2> DEFINE F == D.fat
             C == D.cell
             G == marked.fat
             H == marked.cell
  <2>2. /\ Tree(F, C, w) /\ F[last] = EOC /\ G \in FatType /\ H \in CellType /\ H = C
        /\ G[last] = x /\ G[x] = EOC /\ \A c \in w.own : c # last => G[c] = F[c]
    BY <2>1, <1>0, <1>8, <1>9, <1>10
  <2> HIDE DEF F, C, G, H
  <2>3. ~dir => Tree(G, H, v)
    BY <2>2, <1>1, <1>2, ExtendTree
  <2>4. QED
    BY <2>3 DEF On, G, H
<1>12. Sound(marked)
  <2>1. marked.fragile \/ \E u : On(marked, u)
    BY <1>8, <1>11
  <2>2. QED
    BY <2>1, <1>7, <1>8, FollowsSound
<1>13. Sound(c0) /\ c0 \in Disk /\ c0.fat = marked.fat /\ c0.cell = D.cell /\ c0.fragile = FALSE
  <2>1. c0 = Fragile(marked, FALSE) /\ FALSE \in BOOLEAN
    OBVIOUS
  <2> HIDE DEF c0
  <2>2. Sound(c0) /\ c0 \in Disk /\ c0.fat = marked.fat /\ c0.cell = marked.cell /\ c0.fragile = FALSE
    BY <2>1, <1>12, FragileDisk
  <2>3. QED
    BY <2>2, <1>8
<1> HIDE DEF c0
<1>14. /\ Follows(c0, E) /\ E.fat = marked.fat /\ E.fragile = FALSE
       /\ E.cell[x] = Blank /\ \A d \in Clusters : d # x => E.cell[d] = D.cell[d]
  BY <1>3, <1>13, NewCells, FilledDisk
<1>15. On(E, v)
  <2> DEFINE F == D.fat
             C == D.cell
             G == E.fat
             H == E.cell
  <2>1. H \in CellType /\ \A i \in Offsets : ~IsEntry(H[x][i])
    BY <1>14, NewCells, DiskParts DEF Follows
  <2>2. /\ Tree(F, C, w) /\ F[last] = EOC /\ G \in FatType /\ \A c \in w.dirs : H[c] = C[c]
        /\ G[last] = x /\ G[x] = EOC /\ \A c \in w.own : c # last => G[c] = F[c]
    BY <1>0, <1>8, <1>9, <1>10, <1>14 DEF On
  <2> HIDE DEF F, C, G, H
  <2>3. Tree(G, H, v)
    BY <2>1, <2>2, <1>1, <1>2, ExtendTree
  <2>4. QED
    BY <2>3 DEF On, G, H
<1>16. Sound(E)
  BY <1>13, <1>14, <1>15, FollowsSound
<1>17. QED
  BY <1>a, <1>8, <1>10, <1>14, <1>15, <1>16 DEF Extended, v, E

\* The entries of disk E and layout v are those of D and w, and e.
Gains(D, w, E, v, e) ==
    \A q \in DirEntries(E, v) :
       \/ At(E, q) = e
       \/ q \in DirEntries(D, w) /\ At(E, q) = At(D, q) /\ v.head[q[1]] = w.head[q[1]]

\* Writing the entry of a new file or directory, in a free place.
Linkable(D, w, x, name, dir) ==
    /\ Sound(D) /\ D.fragile = FALSE /\ On(D, w) /\ x \in Clusters /\ x \notin w.own /\ D.fat[x] = EOC
    /\ name \in STRING /\ dir \in BOOLEAN /\ (dir <=> name \notin FileNames)
    /\ dir => \A i \in Offsets : ~IsEntry(D.cell[x][i])

FreeSlot(D, w, p) ==
    /\ p \in w.dirs \X Offsets /\ At(D, p) \in {End, Del}
    /\ \A i \in Offsets : i < p[2] => At(D, <<p[1], i>>) # End

Entered(D, w, p, E, v, e) ==
    /\ Sound(E) /\ E.fragile = FALSE /\ On(E, v) /\ (\A c : IsDir(w, c) => IsDir(v, c)) /\ Gains(D, w, E, v, e)
    /\ p \in DirEntries(E, v) /\ At(E, p) = e /\ v.head[p[1]] = w.head[p[1]]

LEMMA LinkDisk ==
    ASSUME NEW D, NEW w, NEW p, NEW x, NEW name, NEW dir, Linkable(D, w, x, name, dir), FreeSlot(D, w, p)
    PROVE  Entered(D, w, p, Put(D, p, Entry(name, dir, x, 0)), Grown(w, x, x, 1, dir), Entry(name, dir, x, 0))
<1> USE DEF Linkable, FreeSlot
<1> DEFINE e == Entry(name, dir, x, 0)
           E == Put(D, p, e)
           v == Grown(w, x, x, 1, dir)
<1>0. /\ w \in Layout /\ w.own \subseteq Clusters /\ w.dirs \subseteq w.own /\ D.fat \in FatType /\ D.cell \in CellType
      /\ p \in Clusters \X Offsets /\ D \in Disk
  BY OnParts DEF Sound
<1>1. /\ v \in Layout /\ \A c : c \in v.own <=> c \in w.own \/ c = x
      /\ \A c : c \in v.dirs <=> c \in w.dirs \/ (c = x /\ dir)
      /\ \A c \in w.own : v.head[c] = w.head[c] /\ v.idx[c] = w.idx[c]
      /\ v.head[x] = x /\ v.idx[x] = 1
  <2>1. 1 \in Nat \ {0}
    OBVIOUS
  <2>2. Adds(w, v, x, x, 1, dir)
    BY <2>1, <1>0, GrownLayout
  <2>3. QED
    BY <2>2 DEF Adds
<1> HIDE DEF v
<1>2. e \in Cell /\ IsEntry(e) /\ e.first = x /\ e.size = 0 /\ e.dir = dir /\ e.name = name
  BY EntryCells
<1> HIDE DEF e
<1>3. /\ Follows(D, E) /\ E.fat = D.fat /\ E.fragile = FALSE /\ E.cell[p[1]][p[2]] = e
      /\ \A q \in Clusters \X Offsets : q # p => E.cell[q[1]][q[2]] = D.cell[q[1]][q[2]]
  BY <1>0, <1>2, PutDisk
<1> HIDE DEF E
<1>4. On(E, v)
  <2> DEFINE F == D.fat
             C == D.cell
             H == E.cell
  <2>1. H \in CellType
    BY <1>3, DiskParts DEF Follows
  <2>2. ~IsEntry(C[p[1]][p[2]]) /\ \A i \in Offsets : i < p[2] => C[p[1]][i] # End
    BY Cells DEF At
  <2>3. /\ Tree(F, C, w) /\ F[x] = EOC /\ (dir => \A i \in Offsets : ~IsEntry(C[x][i])) /\ H[p[1]][p[2]] = e
        /\ \A q \in Clusters \X Offsets : q # p => H[q[1]][q[2]] = C[q[1]][q[2]]
    BY <1>3 DEF On
  <2> HIDE DEF F, C, H
  <2>4. e.dir <=> e.name \notin FileNames
    BY <1>2
  <2>5. /\ (e.dir => \A i \in Offsets : ~IsEntry(C[x][i]))
        /\ \A c : c \in v.dirs <=> c \in w.dirs \/ (c = x /\ e.dir)
    BY <1>1, <1>2, <2>3
  <2>6. Tree(F, H, v)
    BY <1>1, <1>2, <2>1, <2>2, <2>3, <2>4, <2>5, LinkTree
  <2>7. QED
    BY <2>6, <1>3 DEF On, F, H
<1>5. Sound(E)
  BY <1>3, <1>4, FollowsSound
<1>6. ASSUME NEW c, IsDir(w, c) PROVE IsDir(v, c)
  BY <1>0, <1>1, <1>6 DEF IsDir
<1>7. ASSUME NEW q \in DirEntries(E, v), q # p
      PROVE  q \in DirEntries(D, w) /\ At(E, q) = At(D, q) /\ v.head[q[1]] = w.head[q[1]]
  <2>1. q \in v.dirs \X Offsets /\ IsEntry(E.cell[q[1]][q[2]])
    BY DEF DirEntries, EntriesIn
  <2>2. q \in Clusters \X Offsets
    BY <2>1, <1>1, <1>0
  <2>3. E.cell[q[1]][q[2]] = D.cell[q[1]][q[2]]
    BY <2>2, <1>7, <1>3
  <2>4. q[1] \in w.dirs
    BY <2>1, <2>3, <1>1
  <2>5. q \in DirEntries(D, w)
    BY <2>1, <2>3, <2>4 DEF DirEntries, EntriesIn
  <2>6. QED
    BY <2>3, <2>4, <2>5, <1>0, <1>1 DEF At
<1>8. Gains(D, w, E, v, e)
  BY <1>3, <1>7 DEF Gains, At
<1>9. p \in DirEntries(E, v) /\ At(E, p) = e /\ v.head[p[1]] = w.head[p[1]]
  <2>1. p[1] \in w.dirs /\ p[2] \in Offsets /\ p = <<p[1], p[2]>> /\ p[1] \in v.dirs
    BY <1>1
  <2>2. p \in v.dirs \X Offsets
    BY <2>1
  <2>3. QED
    BY <2>1, <2>2, <1>0, <1>1, <1>2, <1>3 DEF DirEntries, EntriesIn, At
<1>10. QED
  BY <1>3, <1>4, <1>5, <1>6, <1>8, <1>9 DEF Entered, v, e, E

\* The last cluster of a directory.
LEMMA DirEnd ==
    ASSUME NEW D, NEW w, On(D, w), NEW dir, IsDir(w, dir), NEW last, last = Chain(D, dir)[Len(Chain(D, dir))]
    PROVE  last \in w.own /\ last \in w.dirs /\ D.fat[last] = EOC /\ w.head[last] = dir
<1>1. w \in Layout /\ D.fat \in FatType /\ Chained(D.fat, w) /\ dir \in w.own /\ w.idx[dir] = 1
  BY DEF On, Tree, IsDir, Named
<1> DEFINE ch == Chain(D, dir)
<1>2. ch \in Seq(w.own) /\ Len(ch) \in 1 .. FatEntries /\ D.fat[ch[Len(ch)]] = EOC
      /\ \A k \in 1 .. Len(ch) : w.head[ch[k]] = dir
  BY <1>1, ChainOf
<1>3. last = ch[Len(ch)]
  OBVIOUS
<1> HIDE DEF ch
<1>4. last \in w.own /\ w.head[last] = dir /\ D.fat[last] = EOC
  BY <1>2, <1>3
<1>5. QED
  BY <1>4, OnParts DEF IsDir

\* A directory has an entry.
Holds(D, w, dir, e) == \E q \in DirEntries(D, w) : At(D, q) = e /\ w.head[q[1]] = dir

\* create_entry: the disk is whole, with the entry or, for want of space, without it.
Created(D, w, dir, r, e) ==
    /\ Sound(r.D) /\ r.D.fragile = FALSE
    /\ \E v : /\ On(r.D, v) /\ \A c : IsDir(w, c) => IsDir(v, c)
              /\ r.ok => Gains(D, w, r.D, v, e) /\ Holds(r.D, v, dir, e)
    /\ ~r.ok => find_free_cluster(r.D) = NoCluster

LEMMA CreateEntry ==
    ASSUME NEW D, NEW w, NEW x, NEW name, NEW isdir, Linkable(D, w, x, name, isdir), NEW dir, IsDir(w, dir)
    PROVE  Created(D, w, dir, create_entry(D, dir, Entry(name, isdir, x, 0)), Entry(name, isdir, x, 0))
<1> DEFINE r == create_entry(D, dir, Entry(name, isdir, x, 0))
<1> SUFFICES /\ Sound(r.D) /\ r.D.fragile = FALSE
             /\ \E v : /\ On(r.D, v) /\ \A c : IsDir(w, c) => IsDir(v, c)
                       /\ r.ok => Gains(D, w, r.D, v, Entry(name, isdir, x, 0)) /\ Holds(r.D, v, dir, Entry(name, isdir, x, 0))
             /\ ~r.ok => find_free_cluster(r.D) = NoCluster
  BY DEF Created
<1> DEFINE ch == Chain(D, dir)
           S == {p \in ToSet(ch) \X Offsets : At(D, p) \in {End, Del}}
           slot == FirstOf(ch, S)
           extra == find_free_cluster(D)
           last == ch[Len(ch)]
           e == Entry(name, isdir, x, 0)
<1>l. Sound(D) /\ D.fragile = FALSE /\ On(D, w) /\ x \in Clusters /\ x \notin w.own /\ D.fat[x] = EOC
  BY DEF Linkable
<1>0. /\ w \in Layout /\ w.own \subseteq Clusters /\ w.dirs \subseteq w.own
  BY <1>l, OnParts
<1>1. \A y : y \in ToSet(ch) <=> y \in w.dirs /\ w.head[y] = dir
  BY <1>l, ListedIn
<1>2. last \in w.own /\ last \in w.dirs /\ D.fat[last] = EOC
  BY <1>l, DirEnd
<1>3. \A p \in S : p \in w.dirs \X Offsets /\ w.head[p[1]] = dir
  BY <1>1
<1>4. S = {} => slot = NoPos
  <2> HIDE DEF S
  <2>1. QED
    BY DEF FirstOf
<1>5. S # {} => slot \in S /\ \A q \in S : q[1] = slot[1] => ~(q[2] < slot[2])
  <2> HIDE DEF S
  <2>1. QED
    BY <1>l, <1>3, DirChain
<1>6. r = CASE slot # NoPos -> [D |-> Put(D, slot, e), ok |-> TRUE]
            [] slot = NoPos /\ extra # NoCluster ->
                  [D |-> Put(Extend(D, last, extra, TRUE), <<extra, 0>>, e), ok |-> TRUE]
            [] OTHER -> [D |-> D, ok |-> FALSE]
  BY DEF create_entry
<1> HIDE DEF e, r
<1>7. CASE slot # NoPos
  <2>1. slot \in S /\ \A q \in S : q[1] = slot[1] => ~(q[2] < slot[2])
    BY <1>7, <1>4, <1>5
  <2>2. slot \in w.dirs \X Offsets /\ At(D, slot) \in {End, Del} /\ slot \in ToSet(ch) \X Offsets
    BY <2>1, <1>3
  <2>3. ASSUME NEW i \in Offsets, i < slot[2] PROVE At(D, <<slot[1], i>>) # End
    <3> SUFFICES ASSUME At(D, <<slot[1], i>>) = End PROVE FALSE
      OBVIOUS
    <3> DEFINE q == <<slot[1], i>>
    <3> HIDE DEF slot
    <3>1. q \in ToSet(ch) \X Offsets /\ At(D, q) \in {End, Del}
      BY <2>2
    <3>2. q \in S /\ q[1] = slot[1] /\ q[2] = i
      BY <3>1
    <3> HIDE DEF q, S
    <3>3. QED
      BY <3>2, <2>1, <2>3
  <2>a. FreeSlot(D, w, slot)
    BY <2>2, <2>3 DEF FreeSlot
  <2>4. r.D = Put(D, slot, e) /\ r.ok
    BY <1>6, <1>7
  <2> HIDE DEF slot
  <2> DEFINE v == Grown(w, x, x, 1, isdir)
  <2>5. Entered(D, w, slot, Put(D, slot, e), v, e)
    BY <2>a, LinkDisk DEF e
  <2>6. Entered(D, w, slot, r.D, v, e)
    BY <2>4, <2>5
  <2> HIDE DEF v
  <2>7. w.head[slot[1]] = dir
    BY <2>1, <1>3
  <2>8. Holds(r.D, v, dir, e)
    BY <2>6, <2>7 DEF Entered, Holds
  <2>9. QED
    BY <2>4, <2>6, <2>8 DEF Entered, e
<1>8. CASE slot = NoPos /\ extra # NoCluster
  <2> DEFINE B == Extend(D, last, extra, TRUE)
             u == Grown(w, extra, w.head[last], w.idx[last] + 1, TRUE)
             p == <<extra, 0>>
  <2>1. extra \in Clusters /\ D.fat[extra] = FREE /\ extra \notin w.own
    BY <1>8, <1>l, FreeCluster
  <2>2. x # extra /\ x # last
    BY <2>1, <1>l, <1>2, Sizes
  <2>3. r.D = Put(B, p, e) /\ r.ok
    <3>1. r = [D |-> Put(B, p, e), ok |-> TRUE]
      BY <1>6, <1>8
    <3> HIDE DEF B
    <3>2. QED
      BY <3>1
  <2> HIDE DEF last, extra, slot
  <2>4. Extended(D, w, last, extra, TRUE, B, u)
    <3>1. Extendable(D, w, last, extra, TRUE)
      BY <1>l, <1>2, <2>1 DEF Extendable
    <3>2. QED
      BY <3>1, ExtendDisk
  <2> HIDE DEF B, u
  <2>5. /\ Sound(B) /\ B.fragile = FALSE /\ On(B, u)
        /\ B.cell[extra] = Blank /\ \A c \in Clusters : c # extra => B.cell[c] = D.cell[c]
        /\ \A c \in Clusters : c # extra /\ c # last => B.fat[c] = D.fat[c]
        /\ \A c : c \in u.own <=> c \in w.own \/ c = extra
        /\ \A c : c \in u.dirs <=> c \in w.dirs \/ c = extra
        /\ \A c \in w.own : u.head[c] = w.head[c] /\ u.idx[c] = w.idx[c]
        /\ u.head[extra] = w.head[last]
    BY <2>4 DEF Extended, Adds
  <2>b. u.head[p[1]] = dir
    <3>1. w.head[last] = dir
      BY <1>l, DirEnd DEF last
    <3>2. QED
      BY <3>1, <2>5
  <2>6. p \in u.dirs \X Offsets /\ At(B, p) \in {End, Del} /\ p[2] = 0
    BY <2>5, NewCells, Sizes DEF At
  <2>7. FreeSlot(B, u, p)
    <3>1. \A i \in Offsets : ~(i < p[2])
      BY <2>6, Sizes
    <3> HIDE DEF p
    <3>2. QED
      BY <2>6, <3>1 DEF FreeSlot
  <2>8. Linkable(B, u, x, name, isdir)
    <3>1. x \notin u.own /\ B.fat[x] = EOC /\ B.cell[x] = D.cell[x]
      BY <1>l, <2>2, <2>5
    <3>2. QED
      BY <3>1, <2>5 DEF Linkable
  <2> DEFINE v == Grown(u, x, x, 1, isdir)
             E == r.D
  <2>9. Entered(B, u, p, E, v, e)
    <3>1. Entered(B, u, p, Put(B, p, e), v, e)
      BY <2>7, <2>8, LinkDisk DEF e
    <3>2. QED
      BY <3>1, <2>3
  <2> HIDE DEF v, E, p
  <2>10. ASSUME NEW q \in DirEntries(B, u)
         PROVE  q \in DirEntries(D, w) /\ At(B, q) = At(D, q) /\ u.head[q[1]] = w.head[q[1]]
    <3>1. q \in u.dirs \X Offsets /\ IsEntry(B.cell[q[1]][q[2]])
      BY DEF DirEntries, EntriesIn
    <3>2. q[1] # extra
      BY <3>1, <2>5, NewCells
    <3>3. q[1] \in w.dirs /\ B.cell[q[1]] = D.cell[q[1]] /\ q \in w.dirs \X Offsets
      BY <3>1, <3>2, <2>5, <1>0
    <3>4. q \in DirEntries(D, w)
      BY <3>1, <3>3 DEF DirEntries, EntriesIn
    <3>5. QED
      BY <3>3, <3>4, <1>0, <2>5 DEF At
  <2>11. Gains(D, w, E, v, e)
    <3>1. ASSUME NEW q \in DirEntries(E, v)
          PROVE  \/ At(E, q) = e
                 \/ q \in DirEntries(D, w) /\ At(E, q) = At(D, q) /\ v.head[q[1]] = w.head[q[1]]
      BY <2>9, <2>10 DEF Gains, Entered
    <3>2. QED
      BY <3>1 DEF Gains
  <2>12. \A c : IsDir(w, c) => IsDir(v, c)
    <3>1. \A c : IsDir(w, c) => IsDir(u, c)
      BY <1>0, <2>5 DEF IsDir
    <3>2. QED
      BY <3>1, <2>9 DEF Entered
  <2>13. Holds(E, v, dir, e)
    BY <2>9, <2>b DEF Entered, Holds
  <2>14. QED
    BY <2>3, <2>9, <2>11, <2>12, <2>13 DEF Entered, E, e
<1>9. CASE slot = NoPos /\ extra = NoCluster
  <2>1. r = [D |-> D, ok |-> FALSE]
    BY <1>6, <1>9
  <2>2. r.D = D /\ r.ok = FALSE
    BY <2>1
  <2>3. find_free_cluster(r.D) = NoCluster
    BY <2>2, <1>9
  <2> HIDE DEF ch, S, slot, extra, last
  <2>4. QED
    BY <2>2, <2>3, <1>l
<1>10. QED
  BY <1>7, <1>8, <1>9

-----------------------------------------------------------------------------
(* mkdir.                                                                  *)

\* A disk between two commands, with its current directory.
Whole(D, cwd) == Sound(D) /\ D.fragile = FALSE /\ \E w : On(D, w) /\ IsDir(w, cwd)

LEMMA SameDisk ==
    ASSUME NEW D, NEW w, On(D, w), NEW E \in Disk,
           \A c \in w.own : E.fat[c] = D.fat[c], \A c \in w.dirs : E.cell[c] = D.cell[c]
    PROVE  On(E, w)
<1> DEFINE F == D.fat
           C == D.cell
           G == E.fat
           H == E.cell
<1>1. /\ Tree(F, C, w) /\ G \in FatType /\ H \in CellType
      /\ (\A c \in w.own : G[c] = F[c]) /\ (\A c \in w.dirs : H[c] = C[c])
  BY DiskParts DEF On
<1> HIDE DEF F, C, G, H
<1>2. Tree(G, H, w)
  BY <1>1, SameTree
<1>3. QED
  BY <1>2 DEF On, G, H

\* A free cluster that was marked and filled, and is not linked yet.
Fresh(D, w, x, E) ==
    /\ \A name \in STRING : Linkable(E, w, x, name, name \notin FileNames)
    /\ x \in Clusters /\ \A c \in w.own : E.cell[c] = D.cell[c]

LEMMA FreshCluster ==
    ASSUME NEW D, Sound(D), D.fragile = FALSE, NEW w, On(D, w), find_free_cluster(D) # NoCluster,
           NEW cells \in [Offsets -> Cell], \A i \in Offsets : ~IsEntry(cells[i])
    PROVE  Fresh(D, w, find_free_cluster(D),
                 Filled(set_next_cluster(D, find_free_cluster(D), EOC), find_free_cluster(D), cells))
<1> DEFINE x == find_free_cluster(D)
           B == set_next_cluster(D, x, EOC)
           E == Filled(B, x, cells)
<1>1. x \in Clusters /\ x \notin w.own /\ w.own \subseteq Clusters /\ w.dirs \subseteq w.own /\ D \in Disk
  BY FreeCluster, OnParts DEF Sound
<1>2. EOC \in Clusters \cup {FREE, EOC} /\ E = Filled(B, x, cells)
  OBVIOUS
<1> HIDE DEF x, E
<1>3. /\ Follows(D, B) /\ B.cell = D.cell /\ B.fragile = D.fragile
      /\ B.fat[x] = EOC /\ \A d \in Clusters : d # x => B.fat[d] = D.fat[d]
  BY <1>1, <1>2, SetNextDisk
<1> HIDE DEF B
<1>4. B \in Disk /\ On(B, w)
  <2>1. B \in Disk /\ (\A c \in w.own : B.fat[c] = D.fat[c]) /\ (\A c \in w.dirs : B.cell[c] = D.cell[c])
    BY <1>1, <1>3 DEF Follows
  <2>2. QED
    BY <2>1, SameDisk
<1>5. Sound(B)
  BY <1>3, <1>4, FollowsSound
<1>6. /\ Follows(B, E) /\ E.fat = B.fat /\ E.fragile = B.fragile
      /\ E.cell[x] = cells /\ \A d \in Clusters : d # x => E.cell[d] = B.cell[d]
  BY <1>1, <1>2, <1>4, FilledDisk
<1>7. E \in Disk /\ On(E, w)
  <2>1. E \in Disk /\ (\A c \in w.own : E.fat[c] = B.fat[c]) /\ (\A c \in w.dirs : E.cell[c] = B.cell[c])
    BY <1>1, <1>6 DEF Follows
  <2>2. QED
    BY <2>1, <1>4, SameDisk
<1>8. Sound(E)
  BY <1>5, <1>6, <1>7, FollowsSound
<1>9. ASSUME NEW name \in STRING PROVE Linkable(E, w, x, name, name \notin FileNames)
  BY <1>1, <1>3, <1>6, <1>7, <1>8 DEF Linkable
<1>10. \A c \in w.own : E.cell[c] = D.cell[c]
  BY <1>1, <1>3, <1>6
<1>11. QED
  BY <1>1, <1>9, <1>10 DEF Fresh, x, B, E

\* fat32_mkdir leaves a whole disk, whether it succeeds or not.
LEMMA MkdirWhole ==
    ASSUME NEW D, NEW cwd, Whole(D, cwd), NEW path, path.parts \in Seq(STRING),
           \A k \in DOMAIN path.parts : path.parts[k] \notin FileNames
    PROVE  Whole(fat32_mkdir(D, cwd, path).D, cwd)
<1> DEFINE parts == path.parts
           N == Len(parts)
           name == parts[N]
           parent == Parent(D, cwd, path)
           new == find_free_cluster(D)
           made == Filled(set_next_cluster(D, new, EOC), new, NewDir)
           r == create_entry(made, parent, Entry(name, TRUE, new, 0))
           fails == fat32_resolve_path(D, cwd, path) # NoCluster \/ parent = NoCluster \/ new = NoCluster
<1>0. Sound(D) /\ D.fragile = FALSE
  BY DEF Whole
<1>1. PICK w : On(D, w) /\ IsDir(w, cwd)
  BY DEF Whole
<1>2. fat32_mkdir(D, cwd, path) = IF fails THEN Fail(D) ELSE r
  BY DEF fat32_mkdir
<1>3. CASE fails
  <2>1. fat32_mkdir(D, cwd, path) = [D |-> D, ok |-> FALSE]
    BY <1>2, <1>3 DEF Fail
  <2>2. fat32_mkdir(D, cwd, path).D = D
    BY <2>1
  <2>3. QED
    BY <2>2
<1>4. CASE ~fails
  <2>0. parts \in Seq(STRING) /\ N \in Nat
    OBVIOUS
  <2>1. N # 0
    <3> SUFFICES ASSUME N = 0 PROVE FALSE
      OBVIOUS
    <3>1. Stepwise(D, cwd, path)
      BY ResolvedSteps
    <3>2. Resolved(D, cwd, path, 0) = NoCluster
      BY <1>4 DEF fat32_resolve_path
    <3>3. root_cluster # NoCluster /\ cwd # NoCluster
      BY <1>1, OnParts, Sizes DEF IsDir
    <3>4. QED
      BY <3>1, <3>2, <3>3 DEF Stepwise
  <2>2. N \in DOMAIN parts /\ N - 1 \in 0 .. N
    BY <2>0, <2>1
  <2>3. name \in STRING /\ name \notin FileNames
    BY <2>0, <2>2
  <2>4. IsDir(w, parent)
    <3>1. parent = Resolved(D, cwd, path, N - 1) /\ parent # NoCluster
      BY <1>4 DEF Parent
    <3>2. \A n \in 0 .. Len(path.parts) :
             Resolved(D, cwd, path, n) # NoCluster => IsDir(w, Resolved(D, cwd, path, n))
      BY <1>1, ResolvedIn
    <3>3. QED
      BY <3>1, <3>2, <2>2
  <2>5. new # NoCluster
    BY <1>4
  <2>6. Linkable(made, w, new, name, TRUE)
    <3>1. \A n \in STRING : Linkable(made, w, new, n, n \notin FileNames)
      BY <1>0, <1>1, <2>5, NewCells, FreshCluster DEF Fresh
    <3> HIDE DEF made, new, name
    <3>2. Linkable(made, w, new, name, name \notin FileNames)
      BY <3>1, <2>3
    <3>3. (name \notin FileNames) = TRUE
      BY <2>3
    <3>4. QED
      BY <3>2, <3>3
  <2>7. fat32_mkdir(D, cwd, path) = r
    BY <1>2, <1>4
  <2> HIDE DEF made, new, name, parent
  <2>8. /\ Sound(r.D) /\ r.D.fragile = FALSE
        /\ \E v : On(r.D, v) /\ \A c : IsDir(w, c) => IsDir(v, c)
    <3>1. Created(made, w, parent, r, Entry(name, TRUE, new, 0))
      BY <2>4, <2>6, CreateEntry
    <3> HIDE DEF r
    <3>2. QED
      BY <3>1 DEF Created
  <2>9. QED
    BY <1>1, <2>7, <2>8 DEF Whole
<1>5. QED
  BY <1>3, <1>4

-----------------------------------------------------------------------------
(* rm and rmdir.                                                           *)

\* A layout without the chains with the heads S.
Dropped(w, S) ==
    [own |-> {c \in w.own : w.head[c] \notin S}, head |-> w.head, idx |-> w.idx,
     dirs |-> {c \in w.dirs : w.head[c] \notin S}]

LEMMA DroppedLayout ==
    ASSUME NEW w \in Layout, NEW S, NEW v, v = Dropped(w, S)
    PROVE  /\ v \in Layout /\ v.head = w.head /\ v.idx = w.idx
           /\ \A c : c \in v.own <=> c \in w.own /\ w.head[c] \notin S
           /\ \A c : c \in v.dirs <=> c \in w.dirs /\ w.head[c] \notin S
BY DEF Dropped, Layout

\* Deleting an entry and giving up its chain, with all that only leads on from there.
LEMMA DropEntry ==
    ASSUME NEW D, NEW w, On(D, w), NEW p \in DirEntries(D, w), NEW S, root_cluster \notin S,
           \A q \in DirEntries(D, w) : q # p /\ At(D, q).first \in S => w.head[q[1]] \in S,
           NEW E \in Disk, \A c \in w.own : w.head[c] \notin S => E.fat[c] = D.fat[c],
           E.cell[p[1]][p[2]] = Del,
           \A q \in Clusters \X Offsets : q # p => E.cell[q[1]][q[2]] = D.cell[q[1]][q[2]]
    PROVE  On(E, Dropped(w, S)) /\ \A c : IsDir(w, c) /\ c \notin S => IsDir(Dropped(w, S), c)
<1> DEFINE v == Dropped(w, S)
           F == D.fat
           C == D.cell
           G == E.fat
           H == E.cell
<1>0. /\ w \in Layout /\ Tree(F, C, w) /\ G \in FatType /\ H \in CellType /\ Chained(F, w)
      /\ w.own \subseteq Clusters /\ w.dirs \subseteq w.own
  BY OnParts, DiskParts DEF On
<1>1. /\ v \in Layout /\ v.head = w.head /\ v.idx = w.idx
      /\ \A c : c \in v.own <=> c \in w.own /\ w.head[c] \notin S
      /\ \A c : c \in v.dirs <=> c \in w.dirs /\ w.head[c] \notin S
  BY <1>0, DroppedLayout
<1>2. H[p[1]][p[2]] = Del /\ \A q \in Clusters \X Offsets : q # p => H[q[1]][q[2]] = C[q[1]][q[2]]
  OBVIOUS
<1> HIDE DEF v
<1>3. ASSUME NEW q \in EntriesIn(H, v.dirs)
      PROVE  H[q[1]][q[2]] = C[q[1]][q[2]] /\ H[q[1]][q[2]].first \notin S
  <2>1. q \in v.dirs \X Offsets /\ IsEntry(H[q[1]][q[2]])
    BY DEF EntriesIn
  <2>2. q \in w.dirs \X Offsets /\ q \in Clusters \X Offsets /\ w.head[q[1]] \notin S
    BY <2>1, <1>0, <1>1
  <2>3. q # p
    BY <2>1, <1>2, Cells
  <2>4. H[q[1]][q[2]] = C[q[1]][q[2]]
    BY <2>2, <2>3, <1>2
  <2>5. q \in DirEntries(D, w)
    BY <2>1, <2>2, <2>4 DEF DirEntries, EntriesIn
  <2>6. At(D, q).first \notin S
    BY <2>2, <2>3, <2>5
  <2>7. QED
    BY <2>4, <2>6 DEF At
<1>4. ASSUME NEW c \in v.dirs, NEW i \in Offsets, H[c][i] = End PROVE C[c][i] = End
  <2> DEFINE q == <<c, i>>
  <2>1. q \in Clusters \X Offsets /\ q[1] = c /\ q[2] = i
    BY <1>0, <1>1
  <2> HIDE DEF q
  <2>2. q # p
    <3>1. Del # End
      BY DEF Del, End
    <3>2. QED
      BY <3>1, <2>1, <1>2, <1>4
  <2>3. QED
    BY <2>1, <2>2, <1>2, <1>4
<1>5. \A c \in v.own : G[c] = F[c]
  BY <1>1
<1> HIDE DEF F, C, G, H
<1>6. Tree(G, H, v)
  BY <1>0, <1>1, <1>3, <1>4, <1>5, DropTree
<1>7. On(E, v)
  BY <1>6 DEF On, G, H
<1>8. ASSUME NEW c, IsDir(w, c), c \notin S PROVE IsDir(v, c)
  <2>1. c \in w.dirs /\ w.idx[c] = 1 /\ w.head[c] = c
    BY <1>0, <1>8 DEF IsDir, Chained
  <2>2. QED
    BY <2>1, <1>1, <1>8 DEF IsDir
<1>9. QED
  BY <1>7, <1>8 DEF v

\* Freeing clusters that are not in use, one after the other.
LEMMA FreeChainWhole ==
    ASSUME NEW D, Sound(D), D.fragile = FALSE, NEW w, On(D, w), NEW ch \in Seq(Clusters),
           \A k \in 1 .. Len(ch) : ch[k] \notin w.own, NEW E, E = FreeChain(D, ch)
    PROVE  Sound(E) /\ E.fragile = FALSE /\ On(E, w)
<1> DEFINE Freed(n) == [c \in Clusters |-> IF \E k \in 1 .. n : ch[k] = c THEN FREE ELSE D.fat[c]]
           more == [n \in 1 .. Len(ch) |-> [fat |-> Freed(n), cell |-> D.cell, fragile |-> D.fragile]]
           N == Len(ch)
<1>0. D \in Disk /\ D.fat \in FatType /\ D.cell \in CellType /\ D.log \in Seq(Image) /\ N \in Nat /\ D.fragile \in BOOLEAN
  BY DiskParts DEF Sound
<1>1. E = [fat |-> Freed(N), cell |-> D.cell, log |-> D.log \o more, fragile |-> D.fragile]
  BY <1>0 DEF FreeChain, Disk
<1>2. ASSUME NEW n \in 0 .. N
      PROVE  Freed(n) \in FatType /\ Tree(Freed(n), D.cell, w)
  <2> DEFINE G == Freed(n)
             F == D.fat
             C == D.cell
  <2>1. G \in FatType
    BY <1>0 DEF FatType
  <2>2. \A c \in w.own : G[c] = F[c]
    <3>1. w.own \subseteq Clusters
      BY OnParts
    <3>2. \A k \in 1 .. n : k \in 1 .. Len(ch)
      BY <1>0
    <3>3. QED
      BY <3>1, <3>2
  <2>3. Tree(F, C, w) /\ C \in CellType
    BY <1>0 DEF On
  <2> HIDE DEF G, F, C
  <2>4. Tree(G, C, w)
    BY <2>1, <2>2, <2>3, SameTree
  <2>5. QED
    BY <2>1, <2>4 DEF G, C
<1> HIDE DEF Freed
<1>3. \A n \in 1 .. N : more[n] \in Image /\ Bearable(more[n])
  <2> TAKE n \in 1 .. N
  <2>1. n \in 0 .. N
    BY <1>0
  <2>2. more[n] = [fat |-> Freed(n), cell |-> D.cell, fragile |-> D.fragile]
    OBVIOUS
  <2>3. Freed(n) \in FatType /\ Tree(Freed(n), D.cell, w)
    BY <2>1, <1>2
  <2> HIDE DEF more
  <2>4. more[n] \in Image /\ more[n].fat = Freed(n) /\ more[n].cell = D.cell
    BY <1>0, <2>2, <2>3 DEF Image
  <2>5. IsDir(w, root_cluster)
    BY OnParts
  <2>6. Ok(Freed(n), D.cell, root_cluster)
    BY <2>3, <2>5 DEF Ok
  <2>7. QED
    BY <2>4, <2>6 DEF Bearable
<1>4. more \in Seq(Image) /\ Len(more) = N
  BY <1>0, <1>3
<1> HIDE DEF more
<1>5. D.log \o more \in Seq(Image) /\ \A k \in 1 .. Len(D.log \o more) : Bearable((D.log \o more)[k])
  <2> DEFINE L == D.log
  <2>1. L \in Seq(Image) /\ \A k \in 1 .. Len(L) : Bearable(L[k])
    BY <1>0 DEF Sound
  <2> HIDE DEF L
  <2>2. L \o more \in Seq(Image) /\ Len(L \o more) = Len(L) + N /\ Len(L) \in Nat
    BY <2>1, <1>4
  <2>3. \A k \in 1 .. Len(L) + N : (L \o more)[k] = IF k <= Len(L) THEN L[k] ELSE more[k - Len(L)]
    BY <2>1, <1>4
  <2>4. ASSUME NEW k \in 1 .. Len(L) + N PROVE Bearable((L \o more)[k])
    <3>1. CASE k <= Len(L)
      BY <3>1, <2>1, <2>2, <2>3
    <3>2. CASE ~(k <= Len(L))
      <4>1. k - Len(L) \in 1 .. N
        BY <3>2, <2>2, <1>0
      <4>2. QED
        BY <4>1, <3>2, <2>3, <1>3
    <3>3. QED
      BY <3>1, <3>2
  <2>5. QED
    BY <2>2, <2>4 DEF L
<1>6. Freed(N) \in FatType /\ Tree(Freed(N), D.cell, w)
  BY <1>0, <1>2
<1>7. E \in Disk /\ E.fat = Freed(N) /\ E.cell = D.cell /\ E.log = D.log \o more /\ E.fragile = FALSE
  BY <1>0, <1>1, <1>5, <1>6 DEF Disk
<1>8. QED
  BY <1>5, <1>6, <1>7 DEF Sound, On

\* The clusters of what an entry leads to.
LEMMA EntryChain ==
    ASSUME NEW D, NEW w, On(D, w), NEW p \in DirEntries(D, w)
    PROVE  /\ At(D, p).first \in w.own /\ w.idx[At(D, p).first] = 1 /\ At(D, p).first # root_cluster
           /\ Chain(D, At(D, p).first) \in Seq(Clusters)
           /\ \A k \in 1 .. Len(Chain(D, At(D, p).first)) : w.head[Chain(D, At(D, p).first)[k]] = At(D, p).first
<1>1. /\ w \in Layout /\ D.fat \in FatType /\ Chained(D.fat, w) /\ w.own \subseteq Clusters
      /\ Described(At(D, p), w)
  BY OnParts
<1> DEFINE h == At(D, p).first
           ch == Chain(D, h)
<1>2. h \in w.own /\ w.idx[h] = 1 /\ h # root_cluster
  BY <1>1 DEF Described
<1> HIDE DEF h
<1>3. ch \in Seq(w.own) /\ \A k \in 1 .. Len(ch) : w.head[ch[k]] = h
  BY <1>1, <1>2, ChainOf
<1> HIDE DEF ch
<1>4. ch \in Seq(Clusters)
  <2>1. Len(ch) \in Nat /\ ch \in [1 .. Len(ch) -> w.own]
    BY <1>3
  <2>2. QED
    BY <2>1, <1>1
<1>5. QED
  BY <1>2, <1>3, <1>4 DEF h, ch

\* fat32_unlink leaves a whole disk.
LEMMA UnlinkWhole ==
    ASSUME NEW D, NEW cwd, Whole(D, cwd), NEW path
    PROVE  Whole(fat32_unlink(D, cwd, path).D, cwd)
<1> DEFINE p == Find(D, cwd, path.parts[1])
           fails == path.abs \/ Len(path.parts) > 1 \/ p = NoPos \/ At(D, p).dir
<1>0. Sound(D) /\ D.fragile = FALSE /\ D \in Disk
  BY DEF Whole, Sound
<1>1. PICK w : On(D, w) /\ IsDir(w, cwd)
  BY DEF Whole
<1>2. fat32_unlink(D, cwd, path) = IF fails THEN Fail(D) ELSE [D |-> Unlinked(D, p), ok |-> TRUE]
  BY DEF fat32_unlink
<1>3. CASE fails
  <2>1. fat32_unlink(D, cwd, path) = [D |-> D, ok |-> FALSE]
    BY <1>2, <1>3 DEF Fail
  <2>2. fat32_unlink(D, cwd, path).D = D
    BY <2>1
  <2>3. QED
    BY <2>2
<1>4. CASE ~fails
  <2> DEFINE h == At(D, p).first
             ch == Chain(D, h)
             B == Put(D, p, Del)
             E == FreeChain(B, ch)
             S == {h}
             v == Dropped(w, S)
  <2>1. fat32_unlink(D, cwd, path).D = E
    <3>1. fat32_unlink(D, cwd, path) = [D |-> Unlinked(D, p), ok |-> TRUE]
      BY <1>2, <1>4
    <3> DEFINE U == Unlinked(D, p)
    <3> HIDE DEF U
    <3>2. fat32_unlink(D, cwd, path) = [D |-> U, ok |-> TRUE]
      BY <3>1 DEF U
    <3>3. fat32_unlink(D, cwd, path).D = U
      BY <3>2
    <3>4. QED
      BY <3>3 DEF U, Unlinked
  <2>2. p # NoPos /\ ~At(D, p).dir
    BY <1>4
  <2>3. p \in DirEntries(D, w)
    BY <1>1, <2>2, FindIn
  <2> HIDE DEF p
  <2>4. /\ w.own \subseteq Clusters /\ w.dirs \subseteq w.own /\ p \in w.dirs \X Offsets /\ w \in Layout
        /\ At(D, p).first \notin w.dirs /\ \A q \in DirEntries(D, w) : At(D, q).first = At(D, p).first => q = p
    <3>1. /\ w.own \subseteq Clusters /\ w.dirs \subseteq w.own /\ p \in w.dirs \X Offsets /\ w \in Layout
          /\ Described(At(D, p), w)
      BY <1>1, <2>3, OnParts
    <3>2. \A q \in DirEntries(D, w) : At(D, q).first = At(D, p).first => q = p
      BY <1>1, <2>3, OnParts
    <3>3. QED
      BY <3>1, <3>2, <2>2 DEF Described
  <2>5. h \in w.own /\ h # root_cluster /\ ch \in Seq(Clusters) /\ \A k \in 1 .. Len(ch) : w.head[ch[k]] = h
    BY <1>1, <2>3, EntryChain
  <2>6. /\ Follows(D, B) /\ B.fat = D.fat /\ B.fragile = D.fragile /\ B.cell[p[1]][p[2]] = Del
        /\ \A q \in Clusters \X Offsets : q # p => B.cell[q[1]][q[2]] = D.cell[q[1]][q[2]]
    <3>1. p \in Clusters \X Offsets /\ Del \in Cell
      BY <2>4, Cells
    <3>2. QED
      BY <1>0, <3>1, PutDisk
  <2>7. root_cluster \notin S /\ \A q \in DirEntries(D, w) : q # p /\ At(D, q).first \in S => w.head[q[1]] \in S
    BY <2>4, <2>5
  <2> HIDE DEF h, ch, B
  <2>8. On(B, v) /\ \A c : IsDir(w, c) /\ c \notin S => IsDir(v, c)
    <3> HIDE DEF S
    <3>1. B \in Disk
      BY <2>6 DEF Follows
    <3>2. QED
      BY <1>1, <2>3, <2>6, <2>7, <3>1, DropEntry
  <2>9. Sound(B) /\ B.fragile = FALSE
    BY <1>0, <2>6, <2>8, FollowsSound
  <2>10. \A k \in 1 .. Len(ch) : ch[k] \notin v.own
    <3> HIDE DEF v
    <3>1. \A c : c \in v.own <=> c \in w.own /\ w.head[c] \notin S
      BY <2>4, DroppedLayout DEF v
    <3>2. QED
      BY <3>1, <2>5
  <2>11. IsDir(v, cwd)
    <3>1. cwd \notin S
      BY <1>1, <2>4 DEF IsDir, h
    <3>2. QED
      BY <1>1, <2>8, <3>1
  <2> HIDE DEF v
  <2>12. Sound(E) /\ E.fragile = FALSE /\ On(E, v)
    BY <2>5, <2>8, <2>9, <2>10, FreeChainWhole
  <2>13. QED
    BY <2>1, <2>11, <2>12 DEF Whole
<1>5. QED
  BY <1>3, <1>4

\* The levels below a directory are defined.
LEMMA LevelWalk ==
    ASSUME NEW D, NEW dir
    PROVE  \E W : /\ W = [n \in 0 .. FatEntries |-> IF n = 0 THEN [all |-> Listed(D, dir), last |-> Listed(D, dir)]
                                                   ELSE Deeper(D, W[n - 1])]
                  /\ EntriesBelow(D, dir) = W[FatEntries].all
<1> DEFINE base == [all |-> Listed(D, dir), last |-> Listed(D, dir)]
           G(f, m) == [n \in 0 .. m |-> IF n = 0 THEN base ELSE Deeper(D, f[n - 1])]
           N == FatEntries
           Bad == {m \in 0 .. N : ~(\E f : f = G(f, m))}
<1>0. N \in Nat
  BY Sizes
<1> HIDE DEF base
<1>1. Bad = {}
  <2> SUFFICES ASSUME Bad # {} PROVE FALSE
    OBVIOUS
  <2>1. Bad \subseteq Nat
    OBVIOUS
  <2>2. PICK m \in Bad : \A k \in Bad : m <= k
    BY <2>1, LeastOf
  <2>3. m # 0
    <3> DEFINE f == [n \in 0 .. 0 |-> base]
    <3>1. f = G(f, 0)
      OBVIOUS
    <3>2. QED
      BY <3>1
  <2>4. m \in Nat /\ m - 1 \in 0 .. N /\ m - 1 \notin Bad
    <3>1. m \in 0 .. N
      OBVIOUS
    <3> HIDE DEF Bad
    <3>2. m - 1 \in 0 .. N /\ ~(m <= m - 1) /\ m \in Nat
      BY <3>1, <2>3, <1>0
    <3>3. QED
      BY <3>2, <2>2
  <2>5. PICK f : f = G(f, m - 1)
    BY <2>4
  <2> DEFINE g == [n \in 0 .. m |-> IF n = m THEN Deeper(D, f[m - 1]) ELSE f[n]]
  <2>6. ASSUME NEW n \in 0 .. m PROVE g[n] = IF n = 0 THEN base ELSE Deeper(D, g[n - 1])
    <3>1. CASE n = m
      <4>1. g[m - 1] = f[m - 1]
        BY <2>3, <2>4
      <4>2. QED
        BY <4>1, <3>1, <2>3
    <3>2. CASE n # m
      <4>1. n \in 0 .. m - 1 /\ g[n] = f[n]
        BY <3>2, <2>4
      <4>2. n # 0 => n - 1 \in 0 .. m /\ n - 1 # m /\ g[n - 1] = f[n - 1]
        BY <4>1, <2>4
      <4>3. f[n] = IF n = 0 THEN base ELSE Deeper(D, f[n - 1])
        BY <4>1, <2>5
      <4>4. QED
        BY <4>1, <4>2, <4>3
    <3>3. QED
      BY <3>1, <3>2
  <2>7. g = G(g, m)
    BY <2>6
  <2>8. QED
    BY <2>2, <2>7
<1>2. \E W : W = G(W, N)
  <2>1. N \in 0 .. N
    BY <1>0
  <2>2. N \notin Bad
    BY <1>1
  <2>3. QED
    BY <2>1, <2>2
<1> DEFINE X == CHOOSE W : W = G(W, N)
<1>3. X = G(X, N)
  BY <1>2
<1>4. EntriesBelow(D, dir) = X[N].all
  BY DEF EntriesBelow, base
<1> HIDE DEF X
<1>5. QED
  BY <1>3, <1>4 DEF base

\* Entries below a directory are entries of the layout's directories, and each is in
\* that directory or in one that such an entry leads to.
Leads(D, w, dir, T) ==
    /\ T \subseteq DirEntries(D, w)
    /\ \A q \in T : \/ w.head[q[1]] = dir
                    \/ \E p \in T : At(D, p).dir /\ At(D, p).first = w.head[q[1]]

LEMMA DeeperLeads ==
    ASSUME NEW D, NEW w, On(D, w), NEW dir, NEW up, Leads(D, w, dir, up.all), up.last \subseteq up.all,
           NEW down, down = Deeper(D, up)
    PROVE  Leads(D, w, dir, down.all) /\ down.last \subseteq down.all
<1> DEFINE more == UNION {Listed(D, At(D, p).first) : p \in {q \in up.last : At(D, q).dir}}
<1>1. down.all = up.all \cup more /\ down.last = more \ up.all
  BY DEF Deeper
<1>2. ASSUME NEW q \in more
      PROVE  q \in DirEntries(D, w) /\ \E p \in up.all : At(D, p).dir /\ At(D, p).first = w.head[q[1]]
  <2>1. PICK p \in up.last : At(D, p).dir /\ q \in Listed(D, At(D, p).first)
    OBVIOUS
  <2>2. p \in up.all /\ p \in DirEntries(D, w)
    BY <2>1 DEF Leads
  <2> DEFINE h == At(D, p).first
  <2>3. IsDir(w, h)
    <3>1. Described(At(D, p), w)
      BY <2>2, OnParts
    <3>2. QED
      BY <2>1, <3>1 DEF Described, IsDir
  <2>4. q \in Listed(D, h)
    BY <2>1
  <2> HIDE DEF h
  <2>5. q \in DirEntries(D, w) /\ w.head[q[1]] = h
    BY <2>3, <2>4, ListedIn
  <2>6. QED
    BY <2>1, <2>2, <2>5 DEF h
<1> HIDE DEF more
<1>3. QED
  BY <1>1, <1>2 DEF Leads

LEMMA BelowLeads ==
    ASSUME NEW D, NEW w, On(D, w), NEW dir, IsDir(w, dir)
    PROVE  Leads(D, w, dir, EntriesBelow(D, dir))
<1> DEFINE base == [all |-> Listed(D, dir), last |-> Listed(D, dir)]
           N == FatEntries
<1>0. N \in Nat
  BY Sizes
<1>1. PICK W : /\ W = [n \in 0 .. FatEntries |-> IF n = 0 THEN base ELSE Deeper(D, W[n - 1])]
               /\ EntriesBelow(D, dir) = W[FatEntries].all
  BY LevelWalk
<1>2. base.all = Listed(D, dir) /\ base.last = Listed(D, dir)
  OBVIOUS
<1> HIDE DEF base
<1> DEFINE Good(up) == Leads(D, w, dir, up.all) /\ up.last \subseteq up.all
           Bad == {n \in 0 .. N : ~Good(W[n])}
<1>3. W[0] = base /\ \A n \in 1 .. N : W[n] = Deeper(D, W[n - 1])
  BY <1>0, <1>1
<1>4. Good(base)
  <2>1. \A p : p \in Listed(D, dir) <=> p \in DirEntries(D, w) /\ w.head[p[1]] = dir
    BY ListedIn
  <2>2. QED
    BY <1>2, <2>1 DEF Leads
<1>5. ASSUME NEW up, Good(up) PROVE Good(Deeper(D, up))
  <2> DEFINE down == Deeper(D, up)
  <2>1. down = Deeper(D, up)
    OBVIOUS
  <2> HIDE DEF down
  <2>2. Good(down)
    BY <1>5, <2>1, DeeperLeads
  <2>3. QED
    BY <2>2 DEF down
<1> HIDE DEF Good
<1>6. Bad = {}
  <2> SUFFICES ASSUME Bad # {} PROVE FALSE
    OBVIOUS
  <2>1. Bad \subseteq Nat
    OBVIOUS
  <2>2. PICK m \in Bad : \A k \in Bad : m <= k
    BY <2>1, LeastOf
  <2>3. m # 0
    BY <1>3, <1>4
  <2>4. m \in 1 .. N /\ m - 1 \in 0 .. N /\ m - 1 \notin Bad
    <3>1. m \in 0 .. N
      OBVIOUS
    <3> HIDE DEF Bad
    <3>2. m - 1 \in 0 .. N /\ ~(m <= m - 1) /\ m \in 1 .. N
      BY <3>1, <2>3, <1>0
    <3>3. QED
      BY <3>2, <2>2
  <2>5. Good(W[m - 1])
    BY <2>4
  <2>6. Good(W[m])
    BY <2>4, <2>5, <1>3, <1>5
  <2>7. QED
    BY <2>6
<1>7. Good(W[N])
  <2>1. N \in 0 .. N /\ N \notin Bad
    BY <1>0, <1>6
  <2>2. QED
    BY <2>1
<1>8. QED
  BY <1>1, <1>7 DEF Good

\* The entries below a directory depend on the table and the cells alone.
LEMMA SameBelow ==
    ASSUME NEW A, NEW D, A.fat = D.fat, A.cell = D.cell, NEW dir
    PROVE  EntriesBelow(A, dir) = EntriesBelow(D, dir)
<1> DEFINE N == FatEntries
<1>0. N \in Nat
  BY Sizes
<1>1. \A c : Chain(A, c) = Chain(D, c)
  BY DEF Chain, Longer
<1>2. \A p : At(A, p) = At(D, p)
  BY DEF At
<1>3. \A c : Listed(A, c) = Listed(D, c)
  BY <1>1, <1>2 DEF Listed
<1>4. \A u : Deeper(A, u) = Deeper(D, u)
  BY <1>2, <1>3 DEF Deeper
<1> DEFINE base == [all |-> Listed(D, dir), last |-> Listed(D, dir)]
<1>5. PICK V : /\ V = [n \in 0 .. FatEntries |-> IF n = 0 THEN [all |-> Listed(A, dir), last |-> Listed(A, dir)]
                                                 ELSE Deeper(A, V[n - 1])]
               /\ EntriesBelow(A, dir) = V[FatEntries].all
  BY LevelWalk
<1>6. PICK W : /\ W = [n \in 0 .. FatEntries |-> IF n = 0 THEN base ELSE Deeper(D, W[n - 1])]
               /\ EntriesBelow(D, dir) = W[FatEntries].all
  BY LevelWalk
<1>7. [all |-> Listed(A, dir), last |-> Listed(A, dir)] = base
  BY <1>3
<1> HIDE DEF base
<1>8. V[0] = base /\ \A n \in 1 .. N : V[n] = Deeper(D, V[n - 1])
  BY <1>0, <1>4, <1>5, <1>7
<1>9. W[0] = base /\ \A n \in 1 .. N : W[n] = Deeper(D, W[n - 1])
  BY <1>0, <1>6
<1> DEFINE Bad == {n \in 0 .. N : V[n] # W[n]}
<1>10. Bad = {}
  <2> SUFFICES ASSUME Bad # {} PROVE FALSE
    OBVIOUS
  <2>1. Bad \subseteq Nat
    OBVIOUS
  <2>2. PICK m \in Bad : \A k \in Bad : m <= k
    BY <2>1, LeastOf
  <2>3. m # 0
    BY <1>8, <1>9
  <2>4. m \in 1 .. N /\ m - 1 \in 0 .. N /\ m - 1 \notin Bad
    <3>1. m \in 0 .. N
      OBVIOUS
    <3> HIDE DEF Bad
    <3>2. m - 1 \in 0 .. N /\ ~(m <= m - 1) /\ m \in 1 .. N
      BY <3>1, <2>3, <1>0
    <3>3. QED
      BY <3>2, <2>2
  <2>5. V[m - 1] = W[m - 1]
    BY <2>4
  <2>6. V[m] = W[m]
    BY <2>4, <2>5, <1>8, <1>9
  <2>7. QED
    BY <2>6
<1>11. V[N] = W[N]
  <2>1. N \in 0 .. N
    BY <1>0
  <2>2. N \notin Bad
    BY <1>10
  <2>3. QED
    BY <2>1, <2>2
<1>12. QED
  BY <1>5, <1>6, <1>11

\* fat32_rmdir leaves a whole disk, unless it removes the current directory.
LEMMA RmdirWhole ==
    ASSUME NEW D, NEW cwd, Whole(D, cwd), NEW path, path.parts \in Seq(STRING),
           \A k \in DOMAIN path.parts : path.parts[k] \notin FileNames,
           fat32_resolve_path(D, cwd, path) # NoCluster => cwd \notin Below(D, fat32_resolve_path(D, cwd, path))
    PROVE  Whole(fat32_rmdir(D, cwd, path).D, cwd)
<1> DEFINE parts == path.parts
           N == Len(parts)
           name == parts[N]
           parent == Parent(D, cwd, path)
           h == fat32_resolve_path(D, cwd, path)
           p == Find(D, parent, name)
           fails == parts = <<>> \/ h = NoCluster
<1>0. Sound(D) /\ D.fragile = FALSE /\ D \in Disk
  BY DEF Whole, Sound
<1>1. PICK w : On(D, w) /\ IsDir(w, cwd)
  BY DEF Whole
<1>2. fat32_rmdir(D, cwd, path) =
         IF fails THEN Fail(D)
         ELSE [D |-> Put(Fragile(recursive_rm(Fragile(D, TRUE), h), FALSE), p, Del), ok |-> TRUE]
  BY DEF fat32_rmdir
<1>3. CASE fails
  <2>1. fat32_rmdir(D, cwd, path) = [D |-> D, ok |-> FALSE]
    BY <1>2, <1>3 DEF Fail
  <2>2. fat32_rmdir(D, cwd, path).D = D
    BY <2>1
  <2>3. QED
    BY <2>2
<1>4. CASE ~fails
  <2> DEFINE A == Fragile(D, TRUE)
             B == recursive_rm(A, h)
             C == Fragile(B, FALSE)
             E == Put(C, p, Del)
             T == EntriesBelow(A, h)
             S == {h} \cup {At(A, q).first : q \in T}
             v == Dropped(w, S)
  <2>0. parts \in Seq(STRING) /\ N \in Nat /\ N # 0
    BY <1>4
  <2>1. N \in DOMAIN parts /\ N - 1 \in 0 .. N /\ N \in 1 .. N
    BY <2>0
  <2>2. name \in STRING /\ name \notin FileNames
    BY <2>0, <2>1
  <2>3. h = Lookup(D, parent, name) /\ h # NoCluster /\ cwd \notin Below(D, h)
    <3>1. Stepwise(D, cwd, path)
      BY ResolvedSteps
    <3>2. Resolved(D, cwd, path, N) = Lookup(D, Resolved(D, cwd, path, N - 1), path.parts[N])
      BY <3>1, <2>1 DEF Stepwise
    <3>3. QED
      BY <3>2, <1>4 DEF fat32_resolve_path, Parent
  <2>4. IsDir(w, parent)
    <3>1. parent # NoCluster
      BY <2>3 DEF Lookup
    <3>2. parent = Resolved(D, cwd, path, N - 1)
      BY DEF Parent
    <3>3. \A n \in 0 .. Len(path.parts) :
             Resolved(D, cwd, path, n) # NoCluster => IsDir(w, Resolved(D, cwd, path, n))
      BY <1>1, ResolvedIn
    <3>4. QED
      BY <3>1, <3>2, <3>3, <2>1
  <2>5. fat32_rmdir(D, cwd, path).D = E
    <3>1. fat32_rmdir(D, cwd, path) = [D |-> E, ok |-> TRUE]
      BY <1>2, <1>4
    <3> HIDE DEF E
    <3>2. QED
      BY <3>1
  <2> HIDE DEF h, p, parent, name
  <2>6. p \in DirEntries(D, w) /\ At(D, p).first = h /\ IsDir(w, h)
    <3>1. Lookup(D, parent, name) # NoCluster
      BY <2>3
    <3>2. /\ Find(D, parent, name) \in DirEntries(D, w)
          /\ Lookup(D, parent, name) = At(D, Find(D, parent, name)).first
          /\ IsDir(w, Lookup(D, parent, name))
      BY <1>1, <2>2, <2>4, <3>1, LookupIn
    <3>3. QED
      BY <3>2, <2>3 DEF p
  <2>7. /\ w.own \subseteq Clusters /\ w.dirs \subseteq w.own /\ p \in w.dirs \X Offsets /\ w \in Layout
        /\ \A q, r \in DirEntries(D, w) : At(D, q).first = At(D, r).first => q = r
    <3>1. w.own \subseteq Clusters /\ w.dirs \subseteq w.own /\ p \in w.dirs \X Offsets /\ w \in Layout
      BY <1>1, <2>6, OnParts
    <3>2. \A q, r \in DirEntries(D, w) : At(D, q).first = At(D, r).first => q = r
      BY <1>1, OnParts
    <3>3. QED
      BY <3>1, <3>2
  <2>8. Sound(A) /\ A \in Disk /\ A.fat = D.fat /\ A.cell = D.cell /\ A.fragile = TRUE
    BY <1>0, FragileDisk
  <2> HIDE DEF A
  <2>9. /\ On(A, w) /\ DirEntries(A, w) = DirEntries(D, w)
        /\ \A q : At(A, q) = At(D, q)
    BY <1>1, <2>8 DEF On, DirEntries, At
  <2>10. Leads(A, w, h, T)
    BY <2>6, <2>9, BelowLeads
  <2>a. Follows(A, B) /\ B.cell = A.cell /\ B.fragile = TRUE
        /\ \A c \in w.own : w.head[c] \notin S => B.fat[c] = A.fat[c]
    <3> DEFINE K == UNION {ToSet(Chain(A, c)) : c \in S}
               F == [c \in Clusters |-> IF c \in K THEN FREE ELSE A.fat[c]]
               X == [fat |-> F, cell |-> A.cell, log |-> A.log, fragile |-> A.fragile]
    <3>1. A.fat \in FatType /\ A.cell \in CellType
      BY <2>8, DiskParts
    <3>2. F \in FatType
      <4> HIDE DEF K
      <4>1. QED
        BY <3>1 DEF FatType
    <3>3. B = Wrote([A EXCEPT !.fat = F])
      BY DEF recursive_rm, FreeAll
    <3>4. [A EXCEPT !.fat = F] = X
      <4> HIDE DEF F
      <4>1. QED
        BY <2>8 DEF Disk
    <3>5. B = Wrote(X)
      BY <3>3, <3>4
    <3>6. ASSUME NEW c \in w.own, w.head[c] \notin S PROVE c \notin K
      <4> SUFFICES ASSUME NEW g \in S, c \in ToSet(Chain(A, g)) PROVE FALSE
        OBVIOUS
      <4>1. g \in w.own /\ w.idx[g] = 1
        <5>1. CASE g = h
          BY <5>1, <2>6, <2>7 DEF IsDir
        <5>2. CASE g \in {At(A, q).first : q \in T}
          <6>1. PICK q \in T : g = At(A, q).first
            BY <5>2
          <6>2. q \in DirEntries(A, w)
            BY <2>10 DEF Leads
          <6>3. QED
            BY <6>1, <6>2, <2>9, EntryChain
        <5>3. QED
          BY <5>1, <5>2
      <4>2. w \in Layout /\ A.fat \in FatType /\ Chained(A.fat, w)
        BY <2>9, OnParts
      <4> HIDE DEF S
      <4>3. \A y : y \in ToSet(Chain(A, g)) <=> y \in w.own /\ w.head[y] = g
        BY <4>1, <4>2, ChainOf
      <4>4. QED
        BY <4>3, <3>6
    <3> HIDE DEF K
    <3>7. \A c \in w.own : w.head[c] \notin S => F[c] = A.fat[c]
      BY <3>6, <2>7
    <3>8. B = Wrote([fat |-> F, cell |-> A.cell, log |-> A.log, fragile |-> A.fragile])
      BY <3>5
    <3> HIDE DEF F, X, B
    <3>9. Follows(A, B) /\ B.fat = F /\ B.cell = A.cell /\ B.fragile = A.fragile
      BY <3>1, <3>2, <3>8, <2>8, WroteDisk
    <3>10. QED
      BY <3>7, <3>9, <2>8
  <2> HIDE DEF B
  <2>11. Sound(B)
    BY <2>8, <2>a, FollowsSound
  <2>12. Sound(C) /\ C \in Disk /\ C.fat = B.fat /\ C.cell = B.cell /\ C.fragile = FALSE
    <3>1. C = Fragile(B, FALSE) /\ FALSE \in BOOLEAN
      OBVIOUS
    <3> HIDE DEF C
    <3>2. QED
      BY <3>1, <2>11, FragileDisk
  <2> HIDE DEF C
  <2>13. /\ Follows(C, E) /\ E.fat = C.fat /\ E.fragile = FALSE /\ E.cell[p[1]][p[2]] = Del
         /\ \A q \in Clusters \X Offsets : q # p => E.cell[q[1]][q[2]] = C.cell[q[1]][q[2]]
    <3>1. p \in Clusters \X Offsets /\ Del \in Cell
      BY <2>7, Cells
    <3>2. QED
      BY <3>1, <2>12, PutDisk
  <2> HIDE DEF E
  <2>14. root_cluster \notin S
    <3>1. h # root_cluster
      BY <1>1, <2>6, EntryChain
    <3>2. \A q \in T : At(A, q).first # root_cluster
      BY <2>9, <2>10, EntryChain DEF Leads
    <3>3. QED
      BY <3>1, <3>2
  <2>15. ASSUME NEW q \in DirEntries(D, w), q # p, At(D, q).first \in S PROVE w.head[q[1]] \in S
    <3>1. At(D, q).first # h
      BY <2>6, <2>7, <2>15
    <3>2. PICK r \in T : At(D, q).first = At(A, r).first
      BY <3>1, <2>15
    <3>3. q = r
      BY <3>2, <2>7, <2>9, <2>10 DEF Leads
    <3>4. w.head[q[1]] = h \/ \E s \in T : At(A, s).dir /\ At(A, s).first = w.head[q[1]]
      BY <3>3, <2>10 DEF Leads
    <3>5. QED
      BY <3>4
  <2>16. cwd \notin S
    <3> SUFFICES ASSUME cwd \in S PROVE FALSE
      OBVIOUS
    <3>0. EntriesBelow(D, h) = T /\ Below(D, h) = {h} \cup {At(D, q).first : q \in {r \in EntriesBelow(D, h) : At(D, r).dir}}
      <4>4. EntriesBelow(D, h) = T
        BY <2>8, SameBelow
      <4>5. QED
        BY <4>4 DEF Below
    <3>1. cwd # h
      BY <2>3, <3>0
    <3>2. PICK q \in T : cwd = At(A, q).first
      BY <3>1
    <3>3. Described(At(A, q), w)
      BY <2>9, <2>10, OnParts DEF Leads
    <3>4. At(A, q).dir
      BY <3>2, <3>3, <1>1 DEF Described, IsDir
    <3>5. cwd \in Below(D, h)
      BY <3>0, <3>2, <3>4, <2>9
    <3>6. QED
      BY <3>5, <2>3
  <2> HIDE DEF S, v
  <2>17. On(E, v) /\ \A c : IsDir(w, c) /\ c \notin S => IsDir(v, c)
    <3>1. E \in Disk
      BY <2>13 DEF Follows
    <3>2. \A c \in w.own : w.head[c] \notin S => E.fat[c] = D.fat[c]
      BY <2>8, <2>a, <2>12, <2>13
    <3>3. /\ E.cell[p[1]][p[2]] = Del
          /\ \A q \in Clusters \X Offsets : q # p => E.cell[q[1]][q[2]] = D.cell[q[1]][q[2]]
      BY <2>8, <2>a, <2>12, <2>13
    <3>4. QED
      BY <1>1, <2>6, <2>14, <2>15, <3>1, <3>2, <3>3, DropEntry DEF v
  <2>18. Sound(E)
    BY <2>12, <2>13, <2>17, FollowsSound
  <2>19. QED
    BY <1>1, <2>5, <2>13, <2>16, <2>17, <2>18 DEF Whole
<1>5. QED
  BY <1>3, <1>4

-----------------------------------------------------------------------------
(* touch and write.                                                        *)

HandleType ==
    [first_cluster : Clusters, current_cluster : Clusters, cluster_offset : Nat, position : Nat,
     file_size : Nat, entry : Clusters \X Offsets]

\* A handle stands at a place of the file that entry e, at position p, leads to.
Points(D, w, f, p, e) ==
    /\ On(D, w) /\ p \in DirEntries(D, w) /\ At(D, p) = e /\ ~e.dir
    /\ f \in HandleType /\ f.entry = p
    /\ f.current_cluster \in w.own /\ w.head[f.current_cluster] = e.first
    /\ f.position = CellsPerCluster * (w.idx[f.current_cluster] - 1) + f.cluster_offset

\* A handle at the beginning of what an entry leads to.
HandleOn(E, p, c) ==
    [D |-> E,
     file |-> IF p = NoPos THEN NoFile
              ELSE [first_cluster |-> c, current_cluster |-> c, cluster_offset |-> 0,
                    position |-> 0, file_size |-> At(E, p).size, entry |-> p]]

Begins(f, e) == f.cluster_offset = 0 /\ f.position = 0 /\ f.file_size = e.size

LEMMA HandlePoints ==
    ASSUME NEW D, NEW w, On(D, w), NEW p \in DirEntries(D, w), At(D, p).name \in FileNames
    PROVE  LET f == HandleOn(D, p, At(D, p).first).file
           IN  Points(D, w, f, p, At(D, p)) /\ Begins(f, At(D, p))
<1> DEFINE e == At(D, p)
           h == HandleOn(D, p, e.first)
           f == h.file
<1>1. /\ w \in Layout /\ Chained(D.fat, w) /\ w.own \subseteq Clusters /\ w.dirs \subseteq w.own
      /\ p \in w.dirs \X Offsets /\ IsEntry(e) /\ e \in Cell /\ Described(e, w)
  BY OnParts
<1>2. p # NoPos
  BY NoPosOutside
<1>3. e.size \in Nat
  BY <1>1, CellEntries
<1>4. e.first \in w.own /\ w.idx[e.first] = 1 /\ w.head[e.first] = e.first /\ ~e.dir
  BY <1>1 DEF Described, Chained
<1>5. f = [first_cluster |-> e.first, current_cluster |-> e.first, cluster_offset |-> 0,
           position |-> 0, file_size |-> e.size, entry |-> p]
  BY <1>2 DEF HandleOn
<1>6. p \in Clusters \X Offsets /\ e.first \in Clusters
  BY <1>1, <1>4
<1> HIDE DEF e, f
<1>7. f \in HandleType /\ f.entry = p /\ f.current_cluster = e.first /\ f.cluster_offset = 0 /\ f.position = 0
      /\ f.file_size = e.size
  BY <1>3, <1>5, <1>6 DEF HandleType
<1>8. CellsPerCluster * (1 - 1) + 0 = 0
  BY Sizes
<1>9. Points(D, w, f, p, e)
  BY <1>4, <1>7, <1>8 DEF Points, e
<1>10. Begins(f, e)
  BY <1>7 DEF Begins
<1>11. QED
  BY <1>9, <1>10 DEF e, f

LEMMA FileOrNot == ASSUME NEW f \in HandleType PROVE f # NoFile
<1>1. f.first_cluster \in Clusters
  BY DEF HandleType
<1>2. NoFile.first_cluster = NoCluster
  BY DEF NoFile
<1>3. QED
  BY <1>1, <1>2, Sizes

\* fat32_open for writing leaves a whole disk, and a handle on the file of that name.
Opened(r, cwd) ==
    /\ Sound(r.D) /\ r.D.fragile = FALSE
    /\ \E v : /\ On(r.D, v) /\ IsDir(v, cwd)
              /\ r.file = NoFile \/ \E p, e : Points(r.D, v, r.file, p, e) /\ Begins(r.file, e)

\* The handle is the one of the first entry of that name, which is new or was there
\* before; without one there is no space left.
Found(D, r, dir, name) ==
    /\ r.file = NoFile => find_free_cluster(r.D) = NoCluster
    /\ r.file # NoFile =>
          LET p == Find(r.D, dir, name)
          IN  /\ p # NoPos /\ r.file = HandleOn(r.D, p, At(r.D, p).first).file
              /\ r.D = D \/ (Find(D, dir, name) = NoPos /\ At(r.D, p).size = 0)

\* A file is looked for in the root or in the current directory.
LEMMA OpenTarget ==
    ASSUME NEW D, NEW w, On(D, w), NEW cwd, IsDir(w, cwd), NEW path \in FilePaths
    PROVE  /\ path.parts \in Seq(STRING) /\ Len(path.parts) = 1
           /\ path.parts[Len(path.parts)] \in STRING /\ path.parts[Len(path.parts)] \in FileNames
           /\ IsDir(w, OpenParent(cwd, path))
           /\ fat32_resolve_path(D, cwd, path) = Lookup(D, OpenParent(cwd, path), path.parts[Len(path.parts)])
<1> DEFINE parts == path.parts
           dir == OpenParent(cwd, path)
<1>1. parts \in Seq(STRING) /\ Len(parts) = 1 /\ parts[1] \in STRING /\ parts[1] \in FileNames
  <2>1. parts \in Seq(STRING) /\ Len(parts) = 1
    BY PathAssumption
  <2>2. QED
    BY <2>1 DEF FileNames
<1>2. Stepwise(D, cwd, path)
  BY <1>1, ResolvedSteps
<1>3. Resolved(D, cwd, path, 0) = dir
  BY <1>2 DEF Stepwise, OpenParent
<1>4. Resolved(D, cwd, path, 1) = Lookup(D, Resolved(D, cwd, path, 1 - 1), path.parts[1])
  BY <1>1, <1>2 DEF Stepwise
<1>5. 1 - 1 = 0
  OBVIOUS
<1>6. fat32_resolve_path(D, cwd, path) = Lookup(D, dir, parts[1])
  BY <1>1, <1>3, <1>4, <1>5 DEF fat32_resolve_path
<1>7. IsDir(w, dir)
  BY OnParts DEF OpenParent
<1>8. QED
  BY <1>1, <1>6, <1>7

LEMMA OpenWhole ==
    ASSUME NEW D, NEW cwd, Whole(D, cwd), NEW path \in FilePaths
    PROVE  /\ Opened(fat32_open(D, cwd, path, "w"), cwd)
           /\ Found(D, fat32_open(D, cwd, path, "w"), OpenParent(cwd, path), path.parts[Len(path.parts)])
<1> DEFINE parts == path.parts
           name == parts[Len(parts)]
           dir == OpenParent(cwd, path)
           target == fat32_resolve_path(D, cwd, path)
           new == find_free_cluster(D)
           Z == Zeroed(set_next_cluster(D, new, EOC), new)
           e == Entry(name, FALSE, new, 0)
           made == create_entry(Z, dir, e)
           r == fat32_open(D, cwd, path, "w")
<1>0. Sound(D) /\ D.fragile = FALSE /\ D \in Disk
  BY DEF Whole, Sound
<1>1. PICK w : On(D, w) /\ IsDir(w, cwd)
  BY DEF Whole
<1>2. /\ r = CASE target # NoCluster -> HandleOn(D, Find(D, dir, name), target)
               [] target = NoCluster /\ "w" = "w" /\ new # NoCluster ->
                     IF made.ok THEN HandleOn(made.D, Find(made.D, dir, name), new) ELSE [D |-> made.D, file |-> NoFile]
               [] OTHER -> [D |-> D, file |-> NoFile]
  BY DEF fat32_open, HandleOn
<1>3. parts \in Seq(STRING) /\ Len(parts) = 1 /\ name \in STRING /\ name \in FileNames
  BY <1>1, OpenTarget
<1>4. IsDir(w, dir) /\ target = Lookup(D, dir, name)
  BY <1>1, OpenTarget
<1> HIDE DEF name, dir, target, r
<1>5. CASE target # NoCluster
  <2> DEFINE p == Find(D, dir, name)
  <2>1. p \in DirEntries(D, w) /\ At(D, p).name = name /\ target = At(D, p).first
    BY <1>1, <1>4, <1>5, LookupIn
  <2>2. r = HandleOn(D, p, At(D, p).first)
    BY <1>2, <1>5, <2>1
  <2> HIDE DEF p
  <2>3. Points(D, w, r.file, p, At(D, p)) /\ Begins(r.file, At(D, p))
    BY <1>1, <1>3, <2>1, <2>2, HandlePoints
  <2>4. r.D = D /\ r.file = HandleOn(D, p, At(D, p).first).file
    BY <2>2 DEF HandleOn
  <2>5. Opened(r, cwd)
    BY <1>0, <1>1, <2>3, <2>4 DEF Opened
  <2>6. p # NoPos
    BY <1>1, <2>1, NoPosOutside
  <2>7. r.file # NoFile
    <3>1. r.file \in HandleType
      BY <2>3 DEF Points
    <3>2. QED
      BY <3>1, FileOrNot
  <2>8. Found(D, r, dir, name)
    BY <2>4, <2>6, <2>7 DEF Found, p
  <2>9. QED
    BY <2>5, <2>8 DEF r, dir, name
<1>6. CASE target = NoCluster /\ new # NoCluster
  <2>1. /\ \A n \in STRING : Linkable(Z, w, new, n, n \notin FileNames)
        /\ new \in Clusters /\ \A c \in w.own : Z.cell[c] = D.cell[c]
    <3>1. Z = Filled(set_next_cluster(D, new, EOC), new, Blank)
      BY DEF Zeroed
    <3>2. Blank \in [Offsets -> Cell] /\ \A i \in Offsets : ~IsEntry(Blank[i])
      BY NewCells
    <3>3. Fresh(D, w, new, Filled(set_next_cluster(D, new, EOC), new, Blank))
      BY <1>0, <1>1, <1>6, <3>2, FreshCluster
    <3> HIDE DEF Z, new
    <3>4. Fresh(D, w, new, Z)
      BY <3>1, <3>3
    <3>5. QED
      BY <3>4 DEF Fresh
  <2> HIDE DEF Z, new
  <2>2. Linkable(Z, w, new, name, FALSE)
    <3>1. Linkable(Z, w, new, name, name \notin FileNames)
      BY <2>1, <1>3
    <3>2. (name \notin FileNames) = FALSE
      BY <1>3
    <3>3. QED
      BY <3>1, <3>2
  <2>3. Created(Z, w, dir, made, e)
    BY <2>2, <1>4, CreateEntry
  <2>4. e.first = new /\ e.size = 0 /\ e.name = name
    BY DEF Entry
  <2> HIDE DEF made, e
  <2>5. PICK v : /\ On(made.D, v) /\ \A c : IsDir(w, c) => IsDir(v, c)
                 /\ made.ok => Gains(Z, w, made.D, v, e) /\ Holds(made.D, v, dir, e)
    BY <2>3 DEF Created
  <2>b. ~made.ok => find_free_cluster(made.D) = NoCluster
    BY <2>3 DEF Created
  <2>6. Sound(made.D) /\ made.D.fragile = FALSE /\ IsDir(v, cwd) /\ IsDir(v, dir)
    BY <2>3, <2>5, <1>1, <1>4 DEF Created
  <2> DEFINE E == made.D
             p == Find(E, dir, name)
  <2>c. made.ok => p # NoPos
    <3> SUFFICES ASSUME made.ok PROVE p # NoPos
      OBVIOUS
    <3>1. PICK q \in DirEntries(E, v) : At(E, q) = e /\ v.head[q[1]] = dir
      BY <2>5 DEF Holds
    <3>2. QED
      BY <3>1, <2>4, <2>5, <2>6, FindIn
  <2>7. CASE ~made.ok
    <3>1. r.D = E /\ r.file = NoFile
      BY <1>2, <1>6, <2>7
    <3>2. Opened(r, cwd)
      BY <3>1, <2>5, <2>6 DEF Opened
    <3>3. Found(D, r, dir, name)
      BY <3>1, <2>7, <2>b DEF Found
    <3>4. QED
      BY <3>2, <3>3 DEF r, dir, name
  <2>8. CASE made.ok /\ p # NoPos
    <3>1. r = HandleOn(E, p, new)
      BY <1>2, <1>6, <2>8
    <3>2. p \in DirEntries(E, v) /\ v.head[p[1]] = dir /\ At(E, p).name = name
      BY <2>5, <2>6, <2>8, FindIn
    <3> HIDE DEF E, p
    <3>3. At(E, p) = e \/ (p \in DirEntries(Z, w) /\ At(E, p) = At(Z, p) /\ v.head[p[1]] = w.head[p[1]])
      BY <2>5, <2>8, <3>2 DEF Gains, E
    <3>9. Find(D, dir, name) = NoPos
      <4> SUFFICES ASSUME Find(D, dir, name) # NoPos PROVE FALSE
        OBVIOUS
      <4> DEFINE q == Find(D, dir, name)
      <4>5. q \in DirEntries(D, w)
        BY <1>1, <1>4, FindIn
      <4>6. target = At(D, q).first
        BY <1>1, <1>4, OnParts, Sizes DEF Lookup, IsDir
      <4> HIDE DEF q
      <4>7. At(D, q).first \in w.own /\ w.own \subseteq Clusters
        BY <4>5, <1>1, EntryChain, OnParts
      <4>8. QED
        BY <4>6, <4>7, <1>6, Sizes
    <3>4. At(E, p) = e /\ At(E, p).first = new
      <4> SUFFICES ASSUME At(E, p) # e PROVE FALSE
        BY <2>4
      <4>1. p \in DirEntries(Z, w) /\ At(E, p) = At(Z, p) /\ w.head[p[1]] = dir
        BY <3>2, <3>3
      <4>2. p[1] \in w.own
        BY <4>1, <1>1, OnParts DEF DirEntries, EntriesIn
      <4>3. p \in DirEntries(D, w) /\ At(D, p).name = name
        BY <4>1, <4>2, <2>1, <3>2 DEF DirEntries, EntriesIn, At
      <4>4. QED
        BY <4>1, <4>3, <3>9, <1>1, <1>4, FindIn
    <3>5. r = HandleOn(E, p, At(E, p).first) /\ On(E, v)
      BY <3>1, <3>4, <2>5 DEF E
    <3>6. Points(E, v, r.file, p, At(E, p)) /\ Begins(r.file, At(E, p))
      BY <1>3, <3>2, <3>5, HandlePoints
    <3>7. r.D = E /\ r.file = HandleOn(E, p, At(E, p).first).file
      BY <3>5 DEF HandleOn
    <3>8. Opened(r, cwd)
      BY <3>6, <3>7, <2>5, <2>6 DEF Opened, E
    <3>10. r.file # NoFile
      <4>1. r.file \in HandleType
        BY <3>6 DEF Points
      <4>2. QED
        BY <4>1, FileOrNot
    <3>11. Found(D, r, dir, name)
      <4>1. At(E, p).size = 0
        BY <3>4, <2>4
      <4>2. QED
        BY <4>1, <2>8, <3>7, <3>9, <3>10 DEF Found, p
    <3>12. QED
      BY <3>8, <3>11 DEF r, dir, name
  <2>9. QED
    BY <2>7, <2>8, <2>c
<1>7. CASE target = NoCluster /\ new = NoCluster
  <2>1. r = [D |-> D, file |-> NoFile]
    BY <1>2, <1>7
  <2>2. r.D = D /\ r.file = NoFile
    BY <2>1
  <2>3. Opened(r, cwd)
    BY <1>0, <1>1, <2>2 DEF Opened
  <2>4. Found(D, r, dir, name)
    BY <2>2, <1>7 DEF Found, new
  <2>5. QED
    BY <2>3, <2>4 DEF r, dir, name
<1>8. QED
  BY <1>5, <1>6, <1>7

PutMakes(D, p, x, E) ==
    /\ Follows(D, E) /\ E.fat = D.fat /\ E.fragile = D.fragile /\ E.cell[p[1]][p[2]] = x
    /\ \A q \in Clusters \X Offsets : q # p => E.cell[q[1]][q[2]] = D.cell[q[1]][q[2]]
    /\ \A c \in Clusters : c # p[1] => E.cell[c] = D.cell[c]

LEMMA PutIs ==
    ASSUME NEW D \in Disk, NEW p \in Clusters \X Offsets, NEW x \in Cell
    PROVE  PutMakes(D, p, x, Put(D, p, x))
BY PutDisk DEF PutMakes

\* Places in a file, counted in cells.
LEMMA Places ==
    /\ \A i \in Nat : CellsPerCluster * ((i + 1) - 1) + 0 = CellsPerCluster * (i - 1) + CellsPerCluster
    /\ \A i \in Nat, o \in Nat : o <= CellsPerCluster => CellsPerCluster * (i - 1) + o <= CellsPerCluster * i
    /\ \A i \in Nat, o \in Nat : CellsPerCluster * (i - 1) + o \in Int
<1> DEFINE m == CellsPerCluster
<1>1. m \in Nat
  BY Sizes
<1> HIDE DEF m
<1>2. \A i \in Nat : m * ((i + 1) - 1) + 0 = m * (i - 1) + m
  BY <1>1
<1>3. \A i \in Nat : m * i = m * (i - 1) + m /\ m * (i - 1) \in Int
  BY <1>1
<1>4. \A i \in Nat, o \in Nat : o <= m => m * (i - 1) + o <= m * i
  <2> TAKE i \in Nat, o \in Nat
  <2> DEFINE z == m * (i - 1)
  <2>1. m * i = z + m /\ z \in Int
    BY <1>3
  <2> HIDE DEF z
  <2>2. o <= m => z + o <= m * i
    BY <1>1, <2>1
  <2>3. QED
    BY <2>2 DEF z
<1>5. QED
  BY <1>2, <1>3, <1>4 DEF m

\* Entries stay where the clusters of directories do.
SameDirs(D, w, E, v) == \A c \in w.dirs : c \in v.dirs /\ E.cell[c] = D.cell[c]

LEMMA SameEntries ==
    ASSUME NEW D, NEW E, NEW w, NEW v, SameDirs(D, w, E, v), NEW q \in DirEntries(D, w)
    PROVE  q \in DirEntries(E, v) /\ At(E, q) = At(D, q)
<1>1. q \in w.dirs \X Offsets /\ IsEntry(D.cell[q[1]][q[2]])
  BY DEF DirEntries, EntriesIn
<1>2. q \in v.dirs \X Offsets /\ E.cell[q[1]] = D.cell[q[1]]
  BY <1>1 DEF SameDirs
<1>3. QED
  BY <1>1, <1>2 DEF DirEntries, EntriesIn, At

\* A file's clusters are not those of a directory.
LEMMA PointsOutside ==
    ASSUME NEW D, NEW w, NEW f, NEW p, NEW e, Points(D, w, f, p, e)
    PROVE  /\ f.current_cluster \in w.own /\ f.current_cluster \in Clusters /\ f.current_cluster \notin w.dirs
           /\ w.idx[f.current_cluster] \in Nat /\ w.idx[f.current_cluster] >= 1
           /\ f.cluster_offset \in Nat /\ f.position \in Nat
<1>1. /\ On(D, w) /\ p \in DirEntries(D, w) /\ At(D, p) = e /\ ~e.dir
      /\ f \in HandleType /\ f.current_cluster \in w.own /\ w.head[f.current_cluster] = e.first
  BY DEF Points
<1>2. /\ w \in Layout /\ w.own \subseteq Clusters
      /\ \A c \in w.own : c \in w.dirs <=> w.head[c] \in w.dirs
  BY <1>1, OnParts
<1>3. Described(At(D, p), w)
  BY <1>1, OnParts
<1>4. e.first \notin w.dirs
  BY <1>1, <1>3 DEF Described
<1>5. f.cluster_offset \in Nat /\ f.position \in Nat
  BY <1>1 DEF HandleType
<1>6. w.idx[f.current_cluster] \in Nat /\ w.idx[f.current_cluster] >= 1
  BY <1>1, <1>2 DEF Layout
<1>7. QED
  BY <1>1, <1>2, <1>4, <1>5, <1>6

LEMMA Proportion ==
    ASSUME NEW m \in Nat, NEW k \in Nat, NEW l \in Nat, k <= l
    PROVE  m * k <= m * l
<1> DEFINE d == l - k
<1>1. d \in Nat /\ l = k + d
  OBVIOUS
<1> HIDE DEF d
<1>2. m * (k + d) = m * k + m * d /\ m * k \in Nat /\ m * d \in Nat
  BY <1>1
<1>3. QED
  BY <1>1, <1>2

\* The chains of a whole disk.
LEMMA HeadChains ==
    ASSUME NEW D, NEW w, On(D, w), NEW h \in w.own, w.idx[h] = 1
    PROVE  /\ D.fat[Chain(D, h)[Len(Chain(D, h))]] = EOC
           /\ \A k, l \in 1 .. Len(Chain(D, h)) : k # l => Chain(D, h)[k] # Chain(D, h)[l]
           /\ \A x : x \in ToSet(Chain(D, h)) <=> x \in w.own /\ w.head[x] = h
           /\ \A n \in Nat, c \in w.own : w.head[c] = h /\ n <= CellsPerCluster * w.idx[c] =>
                 n <= CellsPerCluster * Len(Chain(D, h))
<1>1. w \in Layout /\ D.fat \in FatType /\ Chained(D.fat, w)
  BY OnParts
<1> DEFINE ch == Chain(D, h)
<1>a. ch \in Seq(w.own) /\ Len(ch) \in 1 .. FatEntries /\ D.fat[ch[Len(ch)]] = EOC
  BY <1>1, ChainOf
<1>b. \A k \in 1 .. Len(ch) : w.idx[ch[k]] = k
  BY <1>1, ChainOf
<1>c. \A x : x \in ToSet(ch) <=> x \in w.own /\ w.head[x] = h
  BY <1>1, ChainOf
<1> HIDE DEF ch
<1>2. /\ ch \in Seq(w.own) /\ Len(ch) \in 1 .. FatEntries /\ D.fat[ch[Len(ch)]] = EOC
      /\ \A k \in 1 .. Len(ch) : w.idx[ch[k]] = k
      /\ \A x : x \in ToSet(ch) <=> x \in w.own /\ w.head[x] = h
  BY <1>a, <1>b, <1>c
<1>3. \A k, l \in 1 .. Len(ch) : k # l => ch[k] # ch[l]
  BY <1>2
<1>4. ASSUME NEW n \in Nat, NEW c \in w.own, w.head[c] = h, n <= CellsPerCluster * w.idx[c]
      PROVE  n <= CellsPerCluster * Len(ch)
  <2>1. c \in ToSet(ch)
    BY <1>2, <1>4
  <2>2. PICK k \in 1 .. Len(ch) : c = ch[k]
    BY <2>1, <1>2 DEF ToSet
  <2>3. w.idx[c] = k /\ k \in Nat /\ Len(ch) \in Nat /\ k <= Len(ch)
    BY <2>2, <1>2
  <2>4. CellsPerCluster \in Nat
    BY Sizes
  <2>5. CellsPerCluster * k <= CellsPerCluster * Len(ch)
    BY <2>3, <2>4, Proportion
  <2>6. CellsPerCluster * k \in Nat /\ CellsPerCluster * Len(ch) \in Nat
    BY <2>3, <2>4
  <2> DEFINE a == CellsPerCluster * k
             b == CellsPerCluster * Len(ch)
  <2>7. n <= a /\ a <= b /\ a \in Nat /\ b \in Nat
    BY <1>4, <2>3, <2>5, <2>6
  <2> HIDE DEF a, b
  <2>8. n <= b
    BY <2>7
  <2>9. QED
    BY <2>8 DEF b
<1>5. QED
  BY <1>2, <1>3, <1>4 DEF ch

-----------------------------------------------------------------------------
(* What a file holds.                                                      *)

\* The number of a cell in its file, from 0.
Place(w, c, o) == CellsPerCluster * (w.idx[c] - 1) + o

LEMMA Division ==
    ASSUME NEW C \in Nat, C > 0, NEW i \in Nat, NEW o \in 0 .. C - 1
    PROVE  /\ (C * i + o) \div C = i /\ (C * i + o) % C = o /\ C * i + o \in Nat
           /\ \A j \in Nat, r \in 0 .. C - 1 : C * i + o = C * j + r => i = j /\ o = r
<1>1. (C * i + o) \div C = i
  OBVIOUS
<1>2. (C * i + o) % C = o
  OBVIOUS
<1>3. ASSUME NEW j \in Nat, NEW r \in 0 .. C - 1, C * i + o = C * j + r PROVE i = j /\ o = r
  BY <1>3
<1>4. C * i + o \in Nat
  OBVIOUS
<1>5. QED
  BY <1>1, <1>2, <1>3, <1>4

\* Two cells of a file have two numbers.
LEMMA PlaceOf ==
    ASSUME NEW D, NEW w, On(D, w), NEW c \in w.own, NEW o \in Offsets
    PROVE  /\ Place(w, c, o) \in Nat
           /\ Place(w, c, o) \div CellsPerCluster = w.idx[c] - 1 /\ Place(w, c, o) % CellsPerCluster = o
           /\ \A d \in w.own, r \in Offsets : w.head[d] = w.head[c] /\ Place(w, d, r) = Place(w, c, o) => d = c /\ r = o
<1> DEFINE C == CellsPerCluster
<1>1. C \in Nat /\ C > 0 /\ Offsets = 0 .. C - 1
  BY Fat32Assumption DEF Offsets
<1>2. w \in Layout /\ Chained(D.fat, w) /\ w.own \subseteq Clusters
  BY OnParts
<1>3. \A d \in w.own : w.idx[d] \in Nat /\ w.idx[d] >= 1 /\ w.idx[d] - 1 \in Nat
  <2>1. \A d \in w.own : w.idx[d] \in Nat \ {0}
    BY <1>2 DEF Layout
  <2>2. QED
    BY <2>1
<1> DEFINE i == w.idx[c] - 1
<1>4. i \in Nat
  BY <1>3
<1>5. Place(w, c, o) = C * i + o
  BY DEF Place
<1> HIDE DEF C, i
<1>6. (C * i + o) \div C = i /\ (C * i + o) % C = o /\ C * i + o \in Nat
  BY <1>1, <1>4, Division
<1>7. ASSUME NEW d \in w.own, NEW r \in Offsets, w.head[d] = w.head[c], Place(w, d, r) = Place(w, c, o)
      PROVE  d = c /\ r = o
  <2> DEFINE j == w.idx[d] - 1
  <2>1. j \in Nat /\ Place(w, d, r) = C * j + r
    BY <1>3 DEF Place, C
  <2> HIDE DEF j
  <2>2. C * i + o = C * j + r
    BY <2>1, <1>5, <1>7
  <2>3. i = j /\ o = r
    BY <2>1, <2>2, <1>1, <1>4, Division
  <2>4. w.idx[c] = w.idx[d]
    BY <2>3, <1>3 DEF i, j
  <2>5. QED
    BY <2>3, <2>4, <1>2, <1>7 DEF Chained
<1>8. QED
  BY <1>5, <1>6, <1>7 DEF C, i

\* The last cluster of a chain has the highest place.
LEMMA LastRank ==
    ASSUME NEW D, NEW w, On(D, w), NEW last \in w.own, D.fat[last] = EOC, NEW c \in w.own, w.head[c] = w.head[last]
    PROVE  w.idx[c] <= w.idx[last]
<1>1. w \in Layout /\ Chained(D.fat, w) /\ w.own \subseteq Clusters /\ EOC \notin Clusters
  BY OnParts, Sizes
<1>2. \A d \in w.own : w.idx[d] \in Nat /\ w.idx[d] >= 1
  <2>1. \A d \in w.own : w.idx[d] \in Nat \ {0}
    BY <1>1 DEF Layout
  <2>2. QED
    BY <2>1
<1> DEFINE S == {w.idx[d] : d \in {x \in w.own : w.head[x] = w.head[last] /\ w.idx[x] > w.idx[last]}}
<1> SUFFICES ASSUME w.idx[c] > w.idx[last] PROVE FALSE
  BY <1>2
<1>3. S \subseteq Nat /\ S # {}
  BY <1>2
<1>4. PICK n \in S : \A m \in S : n <= m
  BY <1>3, LeastOf
<1>5. PICK x \in w.own : w.head[x] = w.head[last] /\ w.idx[x] > w.idx[last] /\ n = w.idx[x]
  BY <1>4
<1>6. PICK d \in w.own : D.fat[d] = x
  <2>1. w.idx[x] # 1
    BY <1>2, <1>5
  <2>2. QED
    BY <2>1, <1>1 DEF Chained
<1>7. w.head[d] = w.head[last] /\ w.idx[x] = w.idx[d] + 1
  BY <1>1, <1>5, <1>6 DEF Chained
<1>8. ~(w.idx[d] > w.idx[last])
  <2> SUFFICES ASSUME w.idx[d] > w.idx[last] PROVE FALSE
    OBVIOUS
  <2>1. w.idx[d] \in S
    BY <1>7
  <2> HIDE DEF S
  <2>2. QED
    BY <2>1, <1>2, <1>4, <1>5, <1>7
<1>9. w.idx[d] = w.idx[last]
  BY <1>2, <1>5, <1>7, <1>8
<1>10. d = last
  BY <1>1, <1>7, <1>9 DEF Chained
<1>11. QED
  BY <1>1, <1>6, <1>10

\* The size in an entry is within the chain, whose last cluster this is.
LEMMA SizeWithin ==
    ASSUME NEW D, NEW w, On(D, w), NEW e, Described(e, w), e.size \in Nat,
           NEW last \in w.own, D.fat[last] = EOC, w.head[last] = e.first
    PROVE  e.size <= CellsPerCluster * w.idx[last]
<1>1. PICK c \in w.own : w.head[c] = e.first /\ e.size <= CellsPerCluster * w.idx[c]
  BY DEF Described
<1>2. w.idx[c] <= w.idx[last]
  BY <1>1, LastRank
<1>3. w.idx[c] \in Nat /\ w.idx[last] \in Nat /\ CellsPerCluster \in Nat
  <2>1. w \in Layout /\ w.own \subseteq Clusters
    BY OnParts
  <2>2. QED
    BY <2>1, Sizes DEF Layout
<1>4. CellsPerCluster * w.idx[c] <= CellsPerCluster * w.idx[last]
  BY <1>2, <1>3, Proportion
<1>5. CellsPerCluster * w.idx[c] \in Nat /\ CellsPerCluster * w.idx[last] \in Nat
  BY <1>3
<1> DEFINE a == CellsPerCluster * w.idx[c]
           b == CellsPerCluster * w.idx[last]
<1>6. e.size <= a /\ a <= b /\ a \in Nat /\ b \in Nat
  BY <1>1, <1>4, <1>5
<1> HIDE DEF a, b
<1>7. e.size <= b
  BY <1>6
<1>8. QED
  BY <1>7 DEF b

\* The first m cells of the chain with head h are those of a text, the rest of the
\* first size cells those of what was there before.
Progress(D, w, h, size, m, text, old) ==
    \A c \in w.own, o \in Offsets : w.head[c] = h =>
       /\ Place(w, c, o) < m => D.cell[c][o] = Data(text[Place(w, c, o) + 1])
       /\ m <= Place(w, c, o) /\ Place(w, c, o) < size => D.cell[c][o] = old[Place(w, c, o) + 1]

\* The directories of B are those of D.
Kept(B, u, D, w) ==
    /\ \A c : c \in u.dirs <=> c \in w.dirs
    /\ \A c \in u.dirs : w.head[c] = u.head[c] /\ w.idx[c] = u.idx[c] /\ D.cell[c] = B.cell[c]

\* One more cell.
LEMMA PutProgress ==
    ASSUME NEW D, NEW w, On(D, w), NEW h, NEW size, NEW k \in Nat, NEW text, NEW old,
           Progress(D, w, h, size, k, text, old),
           NEW x \in w.own, NEW i \in Offsets, w.head[x] = h, Place(w, x, i) = k,
           NEW E, E.cell[x][i] = Data(text[k + 1]),
           \A q \in Clusters \X Offsets : q # <<x, i>> => E.cell[q[1]][q[2]] = D.cell[q[1]][q[2]]
    PROVE  Progress(E, w, h, size, k + 1, text, old)
<1> SUFFICES ASSUME NEW c \in w.own, NEW o \in Offsets, w.head[c] = h
             PROVE  /\ Place(w, c, o) < k + 1 => E.cell[c][o] = Data(text[Place(w, c, o) + 1])
                    /\ k + 1 <= Place(w, c, o) /\ Place(w, c, o) < size => E.cell[c][o] = old[Place(w, c, o) + 1]
  BY DEF Progress
<1> DEFINE n == Place(w, c, o)
<1>1. n \in Nat /\ (n = k => c = x /\ o = i)
  BY PlaceOf
<1>2. /\ n < k => D.cell[c][o] = Data(text[n + 1])
      /\ k <= n /\ n < size => D.cell[c][o] = old[n + 1]
  BY DEF Progress
<1> HIDE DEF n
<1>3. CASE n = k
  <2>1. c = x /\ o = i
    BY <1>1, <1>3
  <2>2. ~(k + 1 <= n)
    BY <1>3
  <2>3. QED
    BY <1>3, <2>1, <2>2 DEF n
<1>4. CASE n # k
  <2>1. <<c, o>> # <<x, i>>
    BY <1>4 DEF n
  <2>2. <<c, o>> \in Clusters \X Offsets
    BY OnParts
  <2>3. E.cell[c][o] = D.cell[c][o]
    BY <2>1, <2>2
  <2>4. (n < k + 1 => n < k) /\ (k + 1 <= n => k <= n)
    BY <1>1, <1>4
  <2>5. QED
    BY <1>2, <2>3, <2>4 DEF n
<1>5. QED
  BY <1>3, <1>4

\* All clusters but one are the same.
SameBut(D, x, E) == \A c \in Clusters : c # x => E.cell[c] = D.cell[c]

\* A cluster more, behind all that is in use.
LEMMA ExtendProgress ==
    ASSUME NEW D, NEW w, On(D, w), NEW h, NEW size \in Nat, NEW m, NEW text, NEW old,
           Progress(D, w, h, size, m, text, old),
           NEW last \in w.own, NEW x, NEW v, Adds(w, v, x, w.head[last], w.idx[last] + 1, FALSE),
           m = CellsPerCluster * ((w.idx[last] + 1) - 1) + 0, size <= CellsPerCluster * w.idx[last],
           NEW E, SameBut(D, x, E), x \notin w.own
    PROVE  Progress(E, v, h, size, m, text, old)
<1> SUFFICES ASSUME NEW c \in v.own, NEW o \in Offsets, v.head[c] = h
             PROVE  /\ Place(v, c, o) < m => E.cell[c][o] = Data(text[Place(v, c, o) + 1])
                    /\ m <= Place(v, c, o) /\ Place(v, c, o) < size => E.cell[c][o] = old[Place(v, c, o) + 1]
  BY DEF Progress
<1>1. CASE c \in w.own
  <2>1. Place(v, c, o) = Place(w, c, o) /\ w.head[c] = h
    BY <1>1 DEF Place, Adds
  <2>2. E.cell[c] = D.cell[c]
    BY <1>1, OnParts DEF SameBut
  <2>3. QED
    BY <1>1, <2>1, <2>2 DEF Progress
<1>2. CASE c = x
  <2> DEFINE z == CellsPerCluster * w.idx[last]
  <2>1. w.idx[last] \in Nat /\ CellsPerCluster \in Nat
    <3>1. w \in Layout /\ w.own \subseteq Clusters
      BY OnParts
    <3>2. QED
      BY <3>1, Sizes DEF Layout
  <2>2. z \in Nat /\ (w.idx[last] + 1) - 1 = w.idx[last]
    BY <2>1
  <2>3. m = z + 0 /\ size <= z
    BY <2>2
  <2>4. Place(v, c, o) = z + o
    BY <1>2, <2>2 DEF Place, Adds
  <2> HIDE DEF z
  <2>5. o \in Nat
    BY Sizes
  <2>6. ~(z + o < m) /\ ~(z + o < size)
    BY <2>2, <2>3, <2>5
  <2>7. QED
    BY <2>4, <2>6
<1>3. QED
  BY <1>1, <1>2 DEF Adds

\* What a file holds, by the numbers of its cells.
LEMMA ContentIs ==
    ASSUME NEW D, NEW w, On(D, w), NEW e, Described(e, w), e.size \in Nat, NEW text
    PROVE  Progress(D, w, e.first, e.size, 0, text, Content(D, e))
<1> SUFFICES ASSUME NEW c \in w.own, NEW o \in Offsets, w.head[c] = e.first
             PROVE  /\ Place(w, c, o) < 0 => D.cell[c][o] = Data(text[Place(w, c, o) + 1])
                    /\ 0 <= Place(w, c, o) /\ Place(w, c, o) < e.size => D.cell[c][o] = Content(D, e)[Place(w, c, o) + 1]
  BY DEF Progress
<1> DEFINE n == Place(w, c, o)
           ch == Chain(D, e.first)
<1>1. n \in Nat /\ n \div CellsPerCluster = w.idx[c] - 1 /\ n % CellsPerCluster = o
  BY PlaceOf
<1>2. w \in Layout /\ D.fat \in FatType /\ Chained(D.fat, w) /\ e.first \in w.own /\ w.idx[e.first] = 1
  BY OnParts DEF Described
<1>3. ch[w.idx[c]] = c
  <2>1. \A k \in 1 .. Len(ch) : w.idx[ch[k]] = k
    BY <1>2, ChainOf
  <2>2. \A x : x \in ToSet(ch) <=> x \in w.own /\ w.head[x] = e.first
    BY <1>2, HeadChains
  <2>a. ch \in Seq(w.own)
    BY <1>2, ChainOf
  <2> HIDE DEF ch
  <2>3. PICK k \in 1 .. Len(ch) : c = ch[k]
    BY <2>2, <2>a DEF ToSet
  <2>4. QED
    BY <2>1, <2>3
<1>4. w.idx[c] \in Nat
  <2>1. w.own \subseteq Clusters
    BY OnParts
  <2>2. QED
    BY <1>2, <2>1 DEF Layout
<1>5. ASSUME n < e.size PROVE D.cell[c][o] = Content(D, e)[n + 1]
  <2>1. n + 1 \in 1 .. e.size /\ (n + 1) - 1 = n
    BY <1>1, <1>5
  <2>2. Content(D, e) = [k \in 1 .. e.size |-> D.cell[ch[(k - 1) \div CellsPerCluster + 1]][(k - 1) % CellsPerCluster]]
    BY DEF Content
  <2>3. Content(D, e)[n + 1] = D.cell[ch[((n + 1) - 1) \div CellsPerCluster + 1]][((n + 1) - 1) % CellsPerCluster]
    <3> HIDE DEF n, ch
    <3>1. QED
      BY <2>1, <2>2
  <2> HIDE DEF n, ch
  <2>4. Content(D, e)[n + 1] = D.cell[ch[n \div CellsPerCluster + 1]][n % CellsPerCluster]
    BY <2>1, <2>3
  <2>5. n \div CellsPerCluster + 1 = w.idx[c]
    BY <1>1, <1>4
  <2>6. QED
    BY <2>4, <2>5, <1>1, <1>3
<1>6. ~(n < 0)
  BY <1>1
<1> HIDE DEF n
<1>7. QED
  BY <1>5, <1>6 DEF n

-----------------------------------------------------------------------------
(* Writing.                                                                *)

\* Writing a cell of the file.
DataPut(D, w, f, p, e, t, E) ==
    /\ Sound(E) /\ E.fragile = FALSE /\ Points(E, w, f, p, e) /\ E.fat = D.fat
    /\ PutMakes(D, <<f.current_cluster, f.cluster_offset>>, Data(t), E)

LEMMA PutData ==
    ASSUME NEW D, Sound(D), D.fragile = FALSE, NEW w, NEW f, NEW p, NEW e, Points(D, w, f, p, e),
           f.cluster_offset < CellsPerCluster, NEW t \in STRING
    PROVE  DataPut(D, w, f, p, e, t, Put(D, <<f.current_cluster, f.cluster_offset>>, Data(t)))
<1> DEFINE E == Put(D, <<f.current_cluster, f.cluster_offset>>, Data(t))
<1> DEFINE q == <<f.current_cluster, f.cluster_offset>>
<1>1. /\ f.current_cluster \in Clusters /\ f.current_cluster \notin w.dirs /\ f.cluster_offset \in Nat
  BY PointsOutside
<1>2. q \in Clusters \X Offsets /\ q[1] = f.current_cluster
  BY <1>1, Sizes
<1>3. D \in Disk /\ On(D, w) /\ w.own \subseteq Clusters /\ w.dirs \subseteq w.own /\ p \in DirEntries(D, w)
  BY OnParts DEF Sound, Points
<1> DEFINE x == Data(t)
<1>4. E = Put(D, q, x) /\ x \in Cell
  BY Cells
<1>p. PutMakes(D, q, x, E)
  BY <1>2, <1>3, <1>4, PutIs
<1> HIDE DEF q, x, E
<1>5. /\ Follows(D, E) /\ E.fat = D.fat /\ E.fragile = D.fragile
      /\ \A c \in Clusters : c # q[1] => E.cell[c] = D.cell[c]
  BY <1>p DEF PutMakes
<1>6. E \in Disk /\ (\A c \in w.own : E.fat[c] = D.fat[c]) /\ (\A c \in w.dirs : E.cell[c] = D.cell[c])
  BY <1>1, <1>2, <1>3, <1>5 DEF Follows
<1>7. On(E, w)
  BY <1>3, <1>6, SameDisk
<1>8. p \in DirEntries(E, w) /\ At(E, p) = At(D, p)
  <2>1. SameDirs(D, w, E, w)
    BY <1>6 DEF SameDirs
  <2>2. QED
    BY <1>3, <2>1, SameEntries
<1>9. Sound(E)
  BY <1>5, <1>7, FollowsSound
<1>10. Points(E, w, f, p, e)
  BY <1>7, <1>8 DEF Points
<1>11. QED
  BY <1>p, <1>5, <1>9, <1>10 DEF DataPut, E, q, x

\* A write under way, k cells on: the handle stands at a place of the file, and that
\* is where the text has come to unless there was no space.  J is what the write
\* began with.
Going(s, p, e, cwd, J, k) ==
    /\ s \in [D : Disk, file : HandleType, stop : BOOLEAN, n : Nat]
    /\ Sound(s.D) /\ s.D.fragile = FALSE
    /\ \E w : /\ Points(s.D, w, s.file, p, e) /\ IsDir(w, cwd) /\ Kept(J.B, J.u, s.D, w)
              /\ ~s.stop => Progress(s.D, w, e.first, e.size, k, J.text, J.old)
    /\ s.file.file_size = e.size /\ (~s.stop => s.file.position = k /\ s.n = k)
    /\ s.stop => find_free_cluster(s.D) = NoCluster
    /\ s.file.cluster_offset <= CellsPerCluster /\ (~s.stop => s.file.cluster_offset < CellsPerCluster)

\* What a handle becomes.
LEMMA HandleForward ==
    ASSUME NEW f \in HandleType, NEW g, g = [f EXCEPT !.position = @ + 1, !.cluster_offset = @ + 1]
    PROVE  /\ g \in HandleType /\ g.entry = f.entry /\ g.current_cluster = f.current_cluster
           /\ g.position = f.position + 1 /\ g.cluster_offset = f.cluster_offset + 1 /\ g.file_size = f.file_size
<1>1. f.first_cluster \in Clusters /\ f.current_cluster \in Clusters /\ f.cluster_offset \in Nat /\ f.position \in Nat
      /\ f.file_size \in Nat /\ f.entry \in Clusters \X Offsets
  BY DEF HandleType
<1>2. g = [first_cluster |-> f.first_cluster, current_cluster |-> f.current_cluster,
           cluster_offset |-> f.cluster_offset + 1, position |-> f.position + 1,
           file_size |-> f.file_size, entry |-> f.entry]
  BY DEF HandleType
<1>3. QED
  BY <1>1, <1>2 DEF HandleType

Over(g, c, k) ==
    /\ k \in HandleType /\ k.entry = g.entry /\ k.current_cluster = c
    /\ k.position = g.position /\ k.cluster_offset = 0 /\ k.file_size = g.file_size

LEMMA HandleOver ==
    ASSUME NEW g \in HandleType, NEW c \in Clusters
    PROVE  Over(g, c, [g EXCEPT !.current_cluster = c, !.cluster_offset = 0])
<1> DEFINE k == [g EXCEPT !.current_cluster = c, !.cluster_offset = 0]
<1>1. g.first_cluster \in Clusters /\ g.position \in Nat /\ g.file_size \in Nat /\ g.entry \in Clusters \X Offsets
  BY DEF HandleType
<1>a. ASSUME NEW z, z = [g EXCEPT !.current_cluster = c, !.cluster_offset = 0]
      PROVE  z = [first_cluster |-> g.first_cluster, current_cluster |-> c, cluster_offset |-> 0,
                  position |-> g.position, file_size |-> g.file_size, entry |-> g.entry]
  BY <1>a DEF HandleType
<1>2. k = [first_cluster |-> g.first_cluster, current_cluster |-> c, cluster_offset |-> 0,
           position |-> g.position, file_size |-> g.file_size, entry |-> g.entry]
  BY <1>a
<1> HIDE DEF k
<1>3. Over(g, c, k)
  BY <1>1, <1>2 DEF HandleType, Over
<1>4. QED
  BY <1>3 DEF k

LEMMA WriteCellGoes ==
    ASSUME NEW s, NEW p, NEW e, NEW cwd, NEW J, NEW m \in Nat, Going(s, p, e, cwd, J, m), NEW t \in STRING, t = J.text[m + 1]
    PROVE  Going(WriteCell(s, t), p, e, cwd, J, m + 1)
<1> DEFINE f == s.file
           cc == f.current_cluster
           D == Put(s.D, <<f.current_cluster, f.cluster_offset>>, Data(t))
           g == [f EXCEPT !.position = @ + 1, !.cluster_offset = @ + 1]
           next == D.fat[f.current_cluster]
           new == find_free_cluster(D)
           to(c) == [g EXCEPT !.current_cluster = c, !.cluster_offset = 0]
           Step(E, c) == [D |-> E, stop |-> FALSE, n |-> s.n + 1, file |-> to(c)]
           r == WriteCell(s, t)
<1>0. r = CASE s.stop -> s
            [] ~s.stop /\ g.cluster_offset < CellsPerCluster ->
                  [D |-> D, stop |-> FALSE, n |-> s.n + 1, file |-> g]
            [] ~s.stop /\ g.cluster_offset = CellsPerCluster /\ next # EOC -> Step(D, next)
            [] ~s.stop /\ g.cluster_offset = CellsPerCluster /\ next = EOC /\ new # NoCluster ->
                  Step(Extend(D, f.current_cluster, new, FALSE), new)
            [] OTHER -> [D |-> D, stop |-> TRUE, n |-> s.n + 1, file |-> g]
  BY DEF WriteCell
<1>1. CASE s.stop
  <2>1. r = s
    BY <1>0, <1>1
  <2> HIDE DEF r
  <2>2. QED
    BY <1>1, <2>1 DEF Going, r
<1>2. CASE ~s.stop
  <2>0. /\ Sound(s.D) /\ s.D.fragile = FALSE /\ f \in HandleType /\ s.n \in Nat
        /\ f.cluster_offset < CellsPerCluster /\ f.position = m /\ s.n = m /\ f.file_size = e.size
    BY <1>2 DEF Going
  <2>1. PICK w : /\ Points(s.D, w, f, p, e) /\ IsDir(w, cwd) /\ Kept(J.B, J.u, s.D, w)
                 /\ Progress(s.D, w, e.first, e.size, m, J.text, J.old)
    BY <1>2 DEF Going
  <2>2. /\ cc \in w.own /\ cc \in Clusters /\ cc \notin w.dirs /\ w.idx[cc] \in Nat /\ w.idx[cc] >= 1
        /\ f.cluster_offset \in Nat /\ f.position \in Nat
    BY <2>1, PointsOutside
  <2>3. /\ Sound(D) /\ D.fragile = FALSE /\ Points(D, w, f, p, e)
        /\ PutMakes(s.D, <<cc, f.cluster_offset>>, Data(t), D)
    <3> DEFINE B == s.D
    <3>1. Sound(B) /\ B.fragile = FALSE /\ Points(B, w, f, p, e)
      BY <2>0, <2>1
    <3>2. DataPut(B, w, f, p, e, t, D)
      <4> HIDE DEF B, f
      <4>1. DataPut(B, w, f, p, e, t, Put(B, <<f.current_cluster, f.cluster_offset>>, Data(t)))
        BY <3>1, <2>0, PutData
      <4>2. QED
        BY <4>1 DEF B
    <3> HIDE DEF D
    <3>3. QED
      BY <3>2 DEF DataPut
  <2>4. g \in HandleType /\ g.entry = f.entry /\ g.current_cluster = cc
        /\ g.position = f.position + 1 /\ g.cluster_offset = f.cluster_offset + 1 /\ g.file_size = f.file_size
    <3> HIDE DEF f
    <3>1. f \in HandleType /\ cc \in Clusters /\ g = [f EXCEPT !.position = @ + 1, !.cluster_offset = @ + 1]
      BY <2>0, <2>2
    <3> HIDE DEF g
    <3>2. QED
      BY <3>1, HandleForward
  <2>5. ASSUME NEW c \in Clusters
        PROVE  to(c) \in HandleType /\ to(c).entry = f.entry /\ to(c).current_cluster = c
               /\ to(c).position = f.position + 1 /\ to(c).cluster_offset = 0 /\ to(c).file_size = f.file_size
    <3> HIDE DEF f
    <3> HIDE DEF g
    <3>1. g \in HandleType
      BY <2>4
    <3>2. Over(g, c, to(c))
      BY <3>1, HandleOver
    <3> HIDE DEF to
    <3>3. QED
      BY <3>2, <2>4 DEF Over
  <2> HIDE DEF D, g, to, next, new
  <2>6. /\ On(D, w) /\ p \in DirEntries(D, w) /\ At(D, p) = e /\ ~e.dir /\ f.entry = p /\ w.head[cc] = e.first
        /\ f.position = CellsPerCluster * (w.idx[cc] - 1) + f.cluster_offset
    BY <2>3 DEF Points
  <2>7. f.position + 1 = CellsPerCluster * (w.idx[cc] - 1) + (f.cluster_offset + 1)
    <3> DEFINE z == CellsPerCluster * (w.idx[cc] - 1)
    <3>1. z \in Int
      BY <2>2, Sizes
    <3> HIDE DEF z
    <3>2. f.position = z + f.cluster_offset
      BY <2>6 DEF z
    <3>3. f.position + 1 = z + (f.cluster_offset + 1)
      BY <3>1, <3>2, <2>2
    <3>4. QED
      BY <3>3 DEF z
  <2>8. Points(D, w, g, p, e)
    BY <2>2, <2>4, <2>6, <2>7 DEF Points
  <2>9. g.cluster_offset \in Nat /\ g.cluster_offset <= CellsPerCluster
    BY <2>0, <2>2, <2>4, Sizes
  <2>10. D \in Disk /\ s.n + 1 \in Nat
    BY <2>0, <2>3 DEF Sound
  <2>k. Kept(J.B, J.u, D, w)
    <3>1. \A c \in Clusters : c # cc => D.cell[c] = s.D.cell[c]
      BY <2>3 DEF PutMakes
    <3>2. \A c \in w.dirs : D.cell[c] = s.D.cell[c]
      BY <3>1, <2>2, <2>6, OnParts
    <3>3. QED
      BY <3>2, <2>1 DEF Kept
  <2>p. Progress(D, w, e.first, e.size, m + 1, J.text, J.old)
    <3> DEFINE i == f.cluster_offset
               B == s.D
    <3>1. i \in Offsets /\ Place(w, cc, i) = m
      BY <2>0, <2>2, <2>6, Sizes DEF Place
    <3>2. /\ D.cell[cc][i] = Data(J.text[m + 1])
          /\ \A q \in Clusters \X Offsets : q # <<cc, i>> => D.cell[q[1]][q[2]] = B.cell[q[1]][q[2]]
      BY <2>3 DEF PutMakes
    <3>3. On(B, w) /\ Progress(B, w, e.first, e.size, m, J.text, J.old)
      BY <2>1 DEF Points
    <3> DEFINE h == e.first
               sz == e.size
               txt == J.text
               ol == J.old
               x == cc
    <3>4. x \in w.own /\ w.head[x] = h /\ i \in Offsets /\ Place(w, x, i) = m
      BY <2>2, <2>6, <3>1
    <3>5. /\ D.cell[x][i] = Data(txt[m + 1])
          /\ \A q \in Clusters \X Offsets : q # <<x, i>> => D.cell[q[1]][q[2]] = B.cell[q[1]][q[2]]
      BY <3>2
    <3>6. On(B, w) /\ Progress(B, w, h, sz, m, txt, ol)
      BY <3>3
    <3> HIDE DEF i, B, h, sz, txt, ol, x
    <3>7. Progress(D, w, h, sz, m + 1, txt, ol)
      BY <3>4, <3>5, <3>6, PutProgress
    <3>8. QED
      BY <3>7 DEF h, sz, txt, ol
  <2>11. CASE g.cluster_offset < CellsPerCluster
    <3>1. r = [D |-> D, stop |-> FALSE, n |-> s.n + 1, file |-> g]
      <4>1. g.cluster_offset # CellsPerCluster
        BY <2>9, <2>11, Sizes
      <4>2. QED
        BY <4>1, <1>0, <1>2, <2>11
    <3> HIDE DEF r
    <3>2. /\ r.D = D /\ r.stop = FALSE /\ r.file = g /\ r \in [D : Disk, file : HandleType, stop : BOOLEAN, n : Nat]
          /\ r.n = m + 1
      BY <3>1, <2>0, <2>4, <2>10
    <3>a. g.file_size = e.size /\ g.position = m + 1
      BY <2>0, <2>4
    <3>3. QED
      BY <3>2, <3>a, <2>1, <2>3, <2>8, <2>9, <2>11, <2>k, <2>p DEF Going, r
  <2>12. CASE g.cluster_offset = CellsPerCluster
    <3>0. ~(g.cluster_offset < CellsPerCluster)
      BY <2>12, Sizes
    <3>a. f.position + 1 = CellsPerCluster * ((w.idx[cc] + 1) - 1) + 0
      <4>1. CellsPerCluster * ((w.idx[cc] + 1) - 1) + 0 = CellsPerCluster * (w.idx[cc] - 1) + CellsPerCluster
        BY <2>2, Places
      <4>2. f.cluster_offset + 1 = CellsPerCluster
        BY <2>4, <2>12
      <4>3. f.position + 1 = CellsPerCluster * (w.idx[cc] - 1) + CellsPerCluster
        BY <2>7, <4>2
      <4>4. QED
        BY <4>1, <4>3
    <3>b. 0 < CellsPerCluster /\ 0 <= CellsPerCluster
      BY Sizes
    <3>1. CASE next # EOC
      <4>1. r = [D |-> D, stop |-> FALSE, n |-> s.n + 1, file |-> to(next)]
        BY <1>0, <1>2, <2>12, <3>0, <3>1
      <4>2. next \in w.own /\ next \in Clusters /\ w.head[next] = w.head[cc] /\ w.idx[next] = w.idx[cc] + 1
        <5>1. Chained(D.fat, w) /\ w.own \subseteq Clusters
          BY <2>6, OnParts
        <5>2. QED
          BY <5>1, <2>2, <3>1 DEF Chained, next
      <4>3. to(next) \in HandleType /\ to(next).entry = f.entry /\ to(next).current_cluster = next
            /\ to(next).position = f.position + 1 /\ to(next).cluster_offset = 0 /\ to(next).file_size = f.file_size
        BY <4>2, <2>5
      <4> DEFINE k == to(next)
      <4> HIDE DEF k
      <4>4. Points(D, w, k, p, e)
        BY <4>2, <4>3, <2>6, <3>a DEF Points, k
      <4> HIDE DEF r
      <4>5. /\ r.D = D /\ r.stop = FALSE /\ r.file = k /\ r \in [D : Disk, file : HandleType, stop : BOOLEAN, n : Nat]
            /\ r.n = m + 1
        BY <4>1, <4>3, <2>0, <2>10 DEF k
      <4>6. k.cluster_offset = 0 /\ k.file_size = e.size /\ k.position = m + 1
        BY <4>3, <2>0 DEF k
      <4>7. QED
        BY <4>4, <4>5, <4>6, <2>1, <2>3, <3>b, <2>k, <2>p DEF Going, r
    <3>2. CASE next = EOC /\ new # NoCluster
      <4> DEFINE E == Extend(D, cc, new, FALSE)
                 v == Grown(w, new, w.head[cc], w.idx[cc] + 1, FALSE)
                 k == to(new)
      <4>1. r = [D |-> E, stop |-> FALSE, n |-> s.n + 1, file |-> k]
        BY <1>0, <1>2, <2>12, <3>0, <3>2
      <4>2. new \in Clusters /\ new \notin w.own
        BY <2>6, <3>2, FreeCluster DEF new
      <4>3. Extended(D, w, cc, new, FALSE, E, v)
        <5>1. Extendable(D, w, cc, new, FALSE)
          BY <2>2, <2>3, <2>6, <3>2, <4>2 DEF Extendable, next
        <5>2. QED
          BY <5>1, ExtendDisk
      <4> HIDE DEF E, v
      <4>4. /\ Sound(E) /\ E.fragile = FALSE /\ On(E, v) /\ v.head[new] = w.head[cc] /\ v.idx[new] = w.idx[cc] + 1
            /\ new \in v.own /\ (\A c \in Clusters : c # new => E.cell[c] = D.cell[c])
            /\ (\A c : c \in w.dirs <=> c \in v.dirs) /\ \A c \in w.own : v.idx[c] = w.idx[c] /\ v.head[c] = w.head[c]
        BY <4>3 DEF Extended, Adds
      <4>5. w.own \subseteq Clusters /\ w.dirs \subseteq w.own
        BY <2>6, OnParts
      <4>6. p \in DirEntries(E, v) /\ At(E, p) = At(D, p)
        <5>1. SameDirs(D, w, E, v)
          BY <4>2, <4>4, <4>5 DEF SameDirs
        <5>2. p \in DirEntries(D, w)
          BY <2>6
        <5> HIDE DEF cc
        <5>3. QED
          BY <5>1, <5>2, SameEntries
      <4>7. IsDir(v, cwd)
        BY <2>1, <4>4, <4>5 DEF IsDir
      <4>8. k \in HandleType /\ k.entry = f.entry /\ k.current_cluster = new
            /\ k.position = f.position + 1 /\ k.cluster_offset = 0 /\ k.file_size = f.file_size
        BY <4>2, <2>5
      <4> HIDE DEF k
      <4>9. Points(E, v, k, p, e)
        BY <4>4, <4>6, <4>8, <2>6, <3>a DEF Points
      <4>10. E \in Disk
        BY <4>4 DEF Sound
      <4> HIDE DEF r
      <4>11. /\ r.D = E /\ r.stop = FALSE /\ r.file = k /\ r \in [D : Disk, file : HandleType, stop : BOOLEAN, n : Nat]
             /\ r.n = m + 1
        BY <4>1, <4>8, <4>10, <2>0, <2>10
      <4>12. Kept(J.B, J.u, E, v)
        <5>1. \A c \in w.dirs : v.head[c] = w.head[c] /\ v.idx[c] = w.idx[c] /\ E.cell[c] = D.cell[c]
          BY <4>2, <4>4, <4>5
        <5>2. QED
          BY <5>1, <4>4, <2>k DEF Kept
      <4>13. Progress(E, v, e.first, e.size, m + 1, J.text, J.old)
        <5>1. Described(e, w) /\ e.size \in Nat
          BY <2>6, OnParts, CellEntries
        <5>2. D.fat[cc] = EOC
          BY <3>2 DEF next
        <5>3. e.size <= CellsPerCluster * w.idx[cc]
          BY <5>1, <5>2, <2>2, <2>6, SizeWithin
        <5>4. m + 1 = CellsPerCluster * ((w.idx[cc] + 1) - 1) + 0
          BY <2>0, <3>a
        <5>5. Adds(w, v, new, w.head[cc], w.idx[cc] + 1, FALSE)
          BY <4>3 DEF Extended
        <5> DEFINE h == e.first
                   sz == e.size
                   txt == J.text
                   ol == J.old
                   last == cc
                   mm == m + 1
        <5>6. On(D, w) /\ sz \in Nat /\ Progress(D, w, h, sz, mm, txt, ol)
          BY <2>6, <2>p, <5>1
        <5>7. last \in w.own /\ new \notin w.own /\ Adds(w, v, new, w.head[last], w.idx[last] + 1, FALSE)
          BY <2>2, <4>2, <5>5
        <5>8. mm = CellsPerCluster * ((w.idx[last] + 1) - 1) + 0 /\ sz <= CellsPerCluster * w.idx[last]
          BY <5>3, <5>4
        <5>9. SameBut(D, new, E)
          BY <4>4 DEF SameBut
        <5> HIDE DEF cc, h, sz, txt, ol, last, mm
        <5>10. Progress(E, v, h, sz, mm, txt, ol)
          BY <5>6, <5>7, <5>8, <5>9, ExtendProgress
        <5>11. QED
          BY <5>10 DEF h, sz, txt, ol, mm
      <4>14. k.file_size = e.size /\ k.position = m + 1
        BY <4>8, <2>0
      <4>15. QED
        BY <4>4, <4>7, <4>8, <4>9, <4>11, <4>12, <4>13, <4>14, <3>b DEF Going, r
    <3>3. CASE next = EOC /\ new = NoCluster
      <4>1. r = [D |-> D, stop |-> TRUE, n |-> s.n + 1, file |-> g]
        BY <1>0, <1>2, <2>12, <3>0, <3>3
      <4> HIDE DEF r
      <4>2. r.D = D /\ r.stop = TRUE /\ r.file = g /\ r \in [D : Disk, file : HandleType, stop : BOOLEAN, n : Nat]
        BY <4>1, <2>4, <2>10
      <4>3. find_free_cluster(D) = NoCluster /\ g.file_size = e.size
        BY <3>3, <2>0, <2>4 DEF new
      <4>4. QED
        BY <4>2, <4>3, <2>1, <2>3, <2>8, <2>9, <2>k DEF Going, r
    <3>4. QED
      BY <3>1, <3>2, <3>3
  <2>13. QED
    BY <2>9, <2>11, <2>12, Sizes
<1>3. QED
  BY <1>1, <1>2

\* What fat32_write leaves after its last cell.
Final(s, file) ==
    IF (s.n > 0 /\ s.file.position > s.file.file_size) /\ IsEntry(At(s.D, file.entry))
    THEN Put(s.D, file.entry, [At(s.D, file.entry) EXCEPT !.size = s.file.position]) ELSE s.D

\* The cells are written one after the other.
LEMMA WriteWalk ==
    ASSUME NEW D, NEW file, NEW text \in Seq(STRING)
    PROVE  \E W : /\ W = [k \in 0 .. Len(text) |-> IF k = 0 THEN [D |-> D, file |-> file, stop |-> FALSE, n |-> 0]
                                                  ELSE WriteCell(W[k - 1], text[k])]
                  /\ fat32_write(D, file, text).D = Final(W[Len(text)], file)
<1> DEFINE base == [D |-> D, file |-> file, stop |-> FALSE, n |-> 0]
           G(f, m) == [k \in 0 .. m |-> IF k = 0 THEN base ELSE WriteCell(f[k - 1], text[k])]
           N == Len(text)
           Bad == {m \in 0 .. N : ~(\E f : f = G(f, m))}
<1>0. N \in Nat
  OBVIOUS
<1> HIDE DEF base, N
<1>1. Bad = {}
  <2> SUFFICES ASSUME Bad # {} PROVE FALSE
    OBVIOUS
  <2>1. Bad \subseteq Nat
    OBVIOUS
  <2>2. PICK m \in Bad : \A k \in Bad : m <= k
    BY <2>1, LeastOf
  <2>3. m # 0
    <3> DEFINE f == [n \in 0 .. 0 |-> base]
    <3>1. f = G(f, 0)
      OBVIOUS
    <3>2. QED
      BY <3>1
  <2>4. m \in Nat /\ m - 1 \in 0 .. N /\ m - 1 \notin Bad
    <3>1. m \in 0 .. N
      OBVIOUS
    <3> HIDE DEF Bad
    <3>2. m - 1 \in 0 .. N /\ ~(m <= m - 1) /\ m \in Nat
      BY <3>1, <2>3, <1>0
    <3>3. QED
      BY <3>2, <2>2
  <2>5. PICK f : f = G(f, m - 1)
    BY <2>4
  <2> DEFINE g == [n \in 0 .. m |-> IF n = m THEN WriteCell(f[m - 1], text[m]) ELSE f[n]]
  <2>6. ASSUME NEW n \in 0 .. m PROVE g[n] = IF n = 0 THEN base ELSE WriteCell(g[n - 1], text[n])
    <3>1. CASE n = m
      <4>1. g[m - 1] = f[m - 1]
        BY <2>3, <2>4
      <4>2. QED
        BY <4>1, <3>1, <2>3
    <3>2. CASE n # m
      <4>1. n \in 0 .. m - 1 /\ g[n] = f[n]
        BY <3>2, <2>4
      <4>2. n # 0 => n - 1 \in 0 .. m /\ n - 1 # m /\ g[n - 1] = f[n - 1]
        BY <4>1, <2>4
      <4>3. f[n] = IF n = 0 THEN base ELSE WriteCell(f[n - 1], text[n])
        BY <4>1, <2>5
      <4>4. QED
        BY <4>1, <4>2, <4>3
    <3>3. QED
      BY <3>1, <3>2
  <2>7. g = G(g, m)
    BY <2>6
  <2>8. QED
    BY <2>2, <2>7
<1>2. \E W : W = G(W, N)
  <2>1. N \in 0 .. N
    BY <1>0
  <2>2. N \notin Bad
    BY <1>1
  <2>3. QED
    BY <2>1, <2>2
<1> DEFINE X == CHOOSE W : W = G(W, N)
<1>3. X = G(X, N)
  BY <1>2
<1>4. fat32_write(D, file, text) = [D |-> Final(X[N], file), n |-> X[N].n]
  BY DEF fat32_write, Final, base, N
<1> HIDE DEF X
<1>5. fat32_write(D, file, text).D = Final(X[N], file)
  BY <1>4
<1>6. QED
  BY <1>3, <1>5 DEF base, N

\* What there was space for is in the file, and nothing else has changed.
Stored(J, p, e, n, E) ==
    \E w : /\ On(E, w) /\ p \in J.u.dirs \X Offsets
           /\ \A c : c \in J.u.dirs <=> c \in w.dirs
           /\ \A c \in J.u.dirs : w.head[c] = J.u.head[c] /\ w.idx[c] = J.u.idx[c]
           /\ \A q \in J.u.dirs \X Offsets : q # p => At(E, q) = At(J.B, q)
           /\ At(E, p) = [e EXCEPT !.size = IF n > e.size THEN n ELSE e.size]
           /\ Progress(E, w, e.first, e.size, n, J.text, J.old)

\* fat32_write leaves a whole disk: the size that it enters is not beyond the chain.
LEMMA FinalWhole ==
    ASSUME NEW s, NEW p, NEW e, NEW cwd, NEW J, NEW m \in Nat, Going(s, p, e, cwd, J, m), NEW file, file.entry = p
    PROVE  /\ Whole(Final(s, file), cwd)
           /\ find_free_cluster(Final(s, file)) # NoCluster => Stored(J, p, e, m, Final(s, file))
<1> DEFINE D == s.D
           f == s.file
           grown == (s.n > 0 /\ f.position > f.file_size) /\ IsEntry(At(D, p))
           E == Put(D, p, [e EXCEPT !.size = f.position])
<1>0. /\ Sound(D) /\ D.fragile = FALSE /\ f.cluster_offset <= CellsPerCluster /\ D \in Disk
      /\ f.file_size = e.size /\ (~s.stop => f.position = m /\ s.n = m) /\ (s.stop => find_free_cluster(D) = NoCluster)
  BY DEF Going, Sound
<1>1. PICK w : /\ Points(D, w, f, p, e) /\ IsDir(w, cwd) /\ Kept(J.B, J.u, D, w)
               /\ ~s.stop => Progress(D, w, e.first, e.size, m, J.text, J.old)
  BY DEF Going
<1>2. On(D, w) /\ p \in DirEntries(D, w) /\ At(D, p) = e /\ w.head[f.current_cluster] = e.first
      /\ f.position = CellsPerCluster * (w.idx[f.current_cluster] - 1) + f.cluster_offset
  BY <1>1 DEF Points
<1>3. Final(s, file) = IF grown THEN E ELSE D
  BY <1>2 DEF Final
<1>a. /\ p \in w.dirs \X Offsets /\ w.dirs \subseteq w.own /\ w.own \subseteq Clusters /\ e \in Cell /\ IsEntry(e)
      /\ e.size \in Nat /\ \A c \in w.own : c \in w.dirs <=> w.head[c] \in w.dirs
  BY <1>2, OnParts, CellEntries
<1>b. e.first \notin w.dirs
  <2>1. Described(At(D, p), w) /\ ~e.dir
    BY <1>1, <1>2, OnParts DEF Points
  <2>2. QED
    BY <2>1, <1>2 DEF Described
<1>4. CASE ~grown
  <2>1. Final(s, file) = D
    BY <1>3, <1>4
  <2>2. Whole(D, cwd)
    BY <1>0, <1>1, <1>2 DEF Whole
  <2>3. ASSUME find_free_cluster(D) # NoCluster PROVE Stored(J, p, e, m, D)
    <3>1. ~s.stop /\ f.position = m /\ s.n = m
      BY <1>0, <2>3
    <3>2. ~(m > e.size)
      <4>1. IsEntry(At(D, p))
        BY <1>a, <1>2
      <4>2. QED
        BY <4>1, <3>1, <1>0, <1>4, <1>a
    <3>3. [e EXCEPT !.size = e.size] = e
      BY <1>a, SameSize
    <3> HIDE DEF D
    <3>4. \A q \in J.u.dirs \X Offsets : At(D, q) = At(J.B, q)
      BY <1>1 DEF Kept, At
    <3>5. At(D, p) = [e EXCEPT !.size = IF m > e.size THEN m ELSE e.size]
      BY <1>2, <3>2, <3>3
    <3>6. p \in J.u.dirs \X Offsets
      BY <1>1, <1>a DEF Kept
    <3>7. Progress(D, w, e.first, e.size, m, J.text, J.old)
      BY <1>1, <3>1
    <3>8. QED
      BY <1>1, <1>2, <3>4, <3>5, <3>6, <3>7 DEF Kept, Stored
  <2>4. QED
    BY <2>1, <2>2, <2>3
<1>5. CASE grown
  <2> HIDE DEF D, f
  <2>1. /\ f.current_cluster \in w.own /\ w.idx[f.current_cluster] \in Nat /\ f.cluster_offset \in Nat /\ f.position \in Nat
    BY <1>1, PointsOutside
  <2>2. f.position <= CellsPerCluster * w.idx[f.current_cluster]
    BY <1>0, <1>2, <2>1, Places
  <2>3. /\ p \in w.dirs \X Offsets /\ w.dirs \subseteq w.own /\ w.own \subseteq Clusters /\ e \in Cell /\ IsEntry(e)
    BY <1>2, OnParts
  <2> DEFINE x == [e EXCEPT !.size = f.position]
  <2>4. x \in Cell
    BY <2>1, <2>3, CellEntries
  <2>5. PutMakes(D, p, x, E)
    <3>1. p \in Clusters \X Offsets
      BY <2>3
    <3>2. QED
      BY <3>1, <2>4, <1>0, PutIs
  <2> HIDE DEF E
  <2>6. On(E, w)
    <3> DEFINE F == D.fat
               C == D.cell
               H == E.cell
               c == f.current_cluster
               n == f.position
    <3>1. E \in Disk /\ E.fat = D.fat
      BY <2>5 DEF PutMakes, Follows
    <3>2. H \in CellType
      BY <3>1, DiskParts
    <3>3. C[p[1]][p[2]] = e
      BY <1>2 DEF At
    <3>4. H[p[1]][p[2]] = [C[p[1]][p[2]] EXCEPT !.size = n]
      BY <2>5, <3>3 DEF PutMakes
    <3>5. \A q \in w.dirs \X Offsets : q # p => H[q[1]][q[2]] = C[q[1]][q[2]]
      BY <2>3, <2>5 DEF PutMakes
    <3>6. Tree(F, C, w) /\ p \in EntriesIn(C, w.dirs) /\ w.head[c] = C[p[1]][p[2]].first
      BY <1>2, <3>3 DEF On, DirEntries
    <3>7. c \in w.own /\ n \in Nat /\ n <= CellsPerCluster * w.idx[c]
      BY <2>1, <2>2
    <3> HIDE DEF F, C, H, c, n
    <3>8. Tree(F, H, w)
      BY <3>2, <3>4, <3>5, <3>6, <3>7, SizeTree
    <3>9. QED
      BY <3>1, <3>8 DEF On, F, H
  <2>7. Sound(E) /\ E.fragile = FALSE
    BY <1>0, <2>5, <2>6, FollowsSound DEF PutMakes
  <2>8. Final(s, file) = E
    BY <1>3, <1>5 DEF E, D, f
  <2>9. Whole(E, cwd)
    BY <1>1, <2>6, <2>7 DEF Whole
  <2>10. ASSUME find_free_cluster(E) # NoCluster PROVE Stored(J, p, e, m, E)
    <3>1. find_free_cluster(D) = find_free_cluster(E)
      BY <2>5 DEF PutMakes, find_free_cluster
    <3>2. ~s.stop /\ f.position = m
      BY <1>0, <2>10, <3>1 DEF D, f
    <3>3. m > e.size
      BY <1>0, <1>5, <3>2 DEF f
    <3>4. E.cell[p[1]][p[2]] = x /\ \A q \in Clusters \X Offsets : q # p => E.cell[q[1]][q[2]] = D.cell[q[1]][q[2]]
      BY <2>5 DEF PutMakes
    <3>5. At(E, p) = [e EXCEPT !.size = IF m > e.size THEN m ELSE e.size]
      BY <3>2, <3>3, <3>4 DEF At
    <3>6. p \in J.u.dirs \X Offsets
      BY <1>1, <1>a DEF Kept, D
    <3>7. \A q \in J.u.dirs \X Offsets : q # p => At(E, q) = At(J.B, q)
      <4> TAKE q \in J.u.dirs \X Offsets
      <4>1. q \in Clusters \X Offsets /\ D.cell[q[1]] = J.B.cell[q[1]]
        BY <1>1, <1>a DEF Kept, D
      <4>2. QED
        BY <4>1, <3>4 DEF At
    <3>8. Progress(E, w, e.first, e.size, m, J.text, J.old)
      <4>1. Progress(D, w, e.first, e.size, m, J.text, J.old)
        BY <1>1, <3>2 DEF D
      <4>2. ASSUME NEW c \in w.own, w.head[c] = e.first, NEW o \in Offsets PROVE E.cell[c][o] = D.cell[c][o]
        <5>1. c \notin w.dirs
          BY <4>2, <1>a, <1>b
        <5>2. <<c, o>> # p
          BY <5>1, <1>a
        <5>3. <<c, o>> \in Clusters \X Offsets
          BY <1>a
        <5>4. QED
          BY <5>2, <5>3, <3>4
      <4>3. QED
        BY <4>1, <4>2 DEF Progress
    <3>9. QED
      BY <1>1, <2>6, <3>5, <3>6, <3>7, <3>8 DEF Kept, Stored, D
  <2>11. QED
    BY <2>8, <2>9, <2>10
<1>6. QED
  BY <1>4, <1>5

LEMMA WriteWhole ==
    ASSUME NEW D, NEW cwd, Sound(D), D.fragile = FALSE, NEW w, IsDir(w, cwd), NEW file, NEW p, NEW e,
           Points(D, w, file, p, e), Begins(file, e), NEW text \in Seq(STRING), NEW J,
           J = [B |-> D, u |-> w, text |-> text, old |-> Content(D, e)]
    PROVE  /\ Whole(fat32_write(D, file, text).D, cwd)
           /\ find_free_cluster(fat32_write(D, file, text).D) # NoCluster =>
                 Stored(J, p, e, Len(text), fat32_write(D, file, text).D)
<1> DEFINE base == [D |-> D, file |-> file, stop |-> FALSE, n |-> 0]
           N == Len(text)
<1>0. N \in Nat
  OBVIOUS
<1>1. PICK W : /\ W = [k \in 0 .. Len(text) |-> IF k = 0 THEN base ELSE WriteCell(W[k - 1], text[k])]
               /\ fat32_write(D, file, text).D = Final(W[Len(text)], file)
  BY WriteWalk
<1>2. W[0] = base /\ \A k \in 1 .. N : W[k] = WriteCell(W[k - 1], text[k])
  <2> HIDE DEF base
  <2>1. QED
    BY <1>0, <1>1
<1>j. J.B = D /\ J.u = w /\ J.text = text /\ J.old = Content(D, e)
  OBVIOUS
<1>3. Going(base, p, e, cwd, J, 0)
  <2>1. file \in HandleType /\ file.entry = p /\ D \in Disk /\ file.cluster_offset = 0 /\ file.position = 0 /\ file.file_size = e.size
    BY DEF Points, Sound, Begins
  <2>a. Kept(D, w, D, w)
    BY DEF Kept
  <2>b. Progress(D, w, e.first, e.size, 0, text, Content(D, e))
    <3>1. On(D, w) /\ p \in DirEntries(D, w) /\ At(D, p) = e
      BY DEF Points
    <3>2. Described(e, w) /\ e.size \in Nat
      BY <3>1, OnParts, CellEntries
    <3>3. QED
      BY <3>1, <3>2, ContentIs
  <2>2. base.n = 0 /\ base.D = D /\ base.file = file /\ base.stop = FALSE /\ base \in [D : Disk, file : HandleType, stop : BOOLEAN, n : Nat]
    BY <2>1
  <2> HIDE DEF base
  <2>3. QED
    BY <2>1, <2>2, <2>a, <2>b, <1>j, Sizes DEF Going
<1> HIDE DEF base
<1> DEFINE Bad == {k \in 0 .. N : ~Going(W[k], p, e, cwd, J, k)}
<1>4. Bad = {}
  <2> SUFFICES ASSUME Bad # {} PROVE FALSE
    OBVIOUS
  <2>1. Bad \subseteq Nat
    OBVIOUS
  <2>2. PICK m \in Bad : \A k \in Bad : m <= k
    BY <2>1, LeastOf
  <2>3. m # 0
    BY <1>2, <1>3
  <2>4. m \in 1 .. N /\ m - 1 \in 0 .. N /\ m - 1 \notin Bad
    <3>1. m \in 0 .. N
      OBVIOUS
    <3> HIDE DEF Bad
    <3>2. m - 1 \in 0 .. N /\ ~(m <= m - 1) /\ m \in 1 .. N
      BY <3>1, <2>3, <1>0
    <3>3. QED
      BY <3>2, <2>2
  <2>5. Going(W[m - 1], p, e, cwd, J, m - 1)
    BY <2>4
  <2>6. text[m] \in STRING
    BY <2>4
  <2>7. Going(W[m], p, e, cwd, J, m)
    <3>1. m - 1 \in Nat /\ (m - 1) + 1 = m
      BY <2>4
    <3>2. text[m] = J.text[(m - 1) + 1]
      BY <3>1, <1>j
    <3>3. Going(WriteCell(W[m - 1], text[m]), p, e, cwd, J, (m - 1) + 1)
      BY <3>1, <3>2, <2>5, <2>6, WriteCellGoes
    <3>4. W[m] = WriteCell(W[m - 1], text[m])
      BY <2>4, <1>2
    <3>5. QED
      BY <3>1, <3>3, <3>4
  <2>8. QED
    BY <2>7
<1>5. Going(W[N], p, e, cwd, J, N)
  <2>1. N \in 0 .. N
    BY <1>0
  <2>2. N \notin Bad
    BY <1>4
  <2>3. QED
    BY <2>1, <2>2
<1>6. file.entry = p
  BY DEF Points
<1>7. QED
  BY <1>0, <1>1, <1>5, <1>6, FinalWhole

-----------------------------------------------------------------------------
(* Reading.                                                                *)

\* The cells are read one after the other.
LEMMA ReadWalk ==
    ASSUME NEW D, NEW file, file.file_size \in Nat
    PROVE  \E W : /\ W = [k \in 0 .. file.file_size |->
                             IF k = 0 THEN [out |-> <<>>, c |-> file.first_cluster, o |-> 0] ELSE ReadCell(D, W[k - 1])]
                  /\ fat32_read_all(D, file) = W[file.file_size].out
<1> DEFINE base == [out |-> <<>>, c |-> file.first_cluster, o |-> 0]
           G(f, m) == [k \in 0 .. m |-> IF k = 0 THEN base ELSE ReadCell(D, f[k - 1])]
           N == file.file_size
           Bad == {m \in 0 .. N : ~(\E f : f = G(f, m))}
<1>0. N \in Nat
  OBVIOUS
<1> HIDE DEF base, N
<1>1. Bad = {}
  <2> SUFFICES ASSUME Bad # {} PROVE FALSE
    OBVIOUS
  <2>1. Bad \subseteq Nat
    OBVIOUS
  <2>2. PICK m \in Bad : \A k \in Bad : m <= k
    BY <2>1, LeastOf
  <2>3. m # 0
    <3> DEFINE f == [n \in 0 .. 0 |-> base]
    <3>1. f = G(f, 0)
      OBVIOUS
    <3>2. QED
      BY <3>1
  <2>4. m \in Nat /\ m - 1 \in 0 .. N /\ m - 1 \notin Bad
    <3>1. m \in 0 .. N
      OBVIOUS
    <3> HIDE DEF Bad
    <3>2. m - 1 \in 0 .. N /\ ~(m <= m - 1) /\ m \in Nat
      BY <3>1, <2>3, <1>0
    <3>3. QED
      BY <3>2, <2>2
  <2>5. PICK f : f = G(f, m - 1)
    BY <2>4
  <2> DEFINE g == [n \in 0 .. m |-> IF n = m THEN ReadCell(D, f[m - 1]) ELSE f[n]]
  <2>6. ASSUME NEW n \in 0 .. m PROVE g[n] = IF n = 0 THEN base ELSE ReadCell(D, g[n - 1])
    <3>1. CASE n = m
      <4>1. g[m - 1] = f[m - 1]
        BY <2>3, <2>4
      <4>2. QED
        BY <4>1, <3>1, <2>3
    <3>2. CASE n # m
      <4>1. n \in 0 .. m - 1 /\ g[n] = f[n]
        BY <3>2, <2>4
      <4>2. n # 0 => n - 1 \in 0 .. m /\ n - 1 # m /\ g[n - 1] = f[n - 1]
        BY <4>1, <2>4
      <4>3. f[n] = IF n = 0 THEN base ELSE ReadCell(D, f[n - 1])
        BY <4>1, <2>5
      <4>4. QED
        BY <4>1, <4>2, <4>3
    <3>3. QED
      BY <3>1, <3>2
  <2>7. g = G(g, m)
    BY <2>6
  <2>8. QED
    BY <2>2, <2>7
<1>2. \E W : W = G(W, N)
  <2>1. N \in 0 .. N
    BY <1>0
  <2>2. N \notin Bad
    BY <1>1
  <2>3. QED
    BY <2>1, <2>2
<1> DEFINE X == CHOOSE W : W = G(W, N)
<1>3. X = G(X, N)
  BY <1>2
<1>4. fat32_read_all(D, file) = X[N].out
  BY DEF fat32_read_all, base, N
<1> HIDE DEF X
<1>5. QED
  BY <1>3, <1>4 DEF base, N

\* Cell j of what was read is the one of that number in the chain.
Got(D, w, h, x, j) ==
    \E c \in w.own, o \in Offsets : w.head[c] = h /\ Place(w, c, o) = j - 1 /\ x = D.cell[c][o]

\* While the chain of an entry is read: k cells so far, and where the next one is.
Reading(D, w, e, s, k) ==
    /\ s.out \in Seq(Cell) /\ Len(s.out) = k /\ \A j \in 1 .. k : Got(D, w, e.first, s.out[j], j)
    /\ k < e.size => s.c \in w.own /\ w.head[s.c] = e.first /\ s.o \in Offsets /\ Place(w, s.c, s.o) = k

LEMMA ReadCellGoes ==
    ASSUME NEW D, NEW w, On(D, w), NEW e, Described(e, w), e.size \in Nat,
           NEW s, NEW k \in Nat, k < e.size, Reading(D, w, e, s, k)
    PROVE  Reading(D, w, e, ReadCell(D, s), k + 1)
<1> DEFINE c == s.c
           o == s.o
           x == D.cell[c][o]
           r == ReadCell(D, s)
<1>1. /\ c \in w.own /\ w.head[c] = e.first /\ o \in Offsets /\ Place(w, c, o) = k
      /\ s.out \in Seq(Cell) /\ Len(s.out) = k /\ \A j \in 1 .. k : Got(D, w, e.first, s.out[j], j)
  BY DEF Reading
<1>2. c \in Clusters /\ w.own \subseteq Clusters /\ w \in Layout /\ Chained(D.fat, w) /\ x \in Cell /\ w.idx[c] \in Nat
  <2>1. w \in Layout /\ Chained(D.fat, w) /\ w.own \subseteq Clusters /\ D.cell \in CellType
    BY OnParts
  <2>2. c \in Clusters
    BY <2>1, <1>1
  <2> HIDE DEF c, o
  <2>3. x \in Cell
    BY <2>1, <2>2, <1>1 DEF CellType
  <2>4. w.idx[c] \in Nat
    BY <2>1, <2>2 DEF Layout
  <2>5. QED
    BY <2>1, <2>2, <2>3, <2>4
<1>3. /\ r.out = Append(s.out, x)
      /\ r.c = IF o + 1 = CellsPerCluster THEN D.fat[c] ELSE c
      /\ r.o = IF o + 1 = CellsPerCluster THEN 0 ELSE o + 1
  BY <1>2 DEF ReadCell
<1> HIDE DEF r, c, o, x
<1>4. r.out \in Seq(Cell) /\ Len(r.out) = k + 1
  BY <1>1, <1>2, <1>3
<1>5. ASSUME NEW j \in 1 .. k + 1 PROVE Got(D, w, e.first, r.out[j], j)
  <2>1. CASE j = k + 1
    <3>1. r.out[j] = x /\ j - 1 = k
      BY <2>1, <1>1, <1>2, <1>3
    <3>2. QED
      BY <3>1, <1>1 DEF Got, x
  <2>2. CASE j # k + 1
    <3>1. j \in 1 .. k /\ r.out[j] = s.out[j]
      BY <2>2, <1>1, <1>2, <1>3
    <3>2. QED
      BY <3>1, <1>1
  <2>3. QED
    BY <2>1, <2>2
<1>6. ASSUME k + 1 < e.size
      PROVE  r.c \in w.own /\ w.head[r.c] = e.first /\ r.o \in Offsets /\ Place(w, r.c, r.o) = k + 1
  <2> DEFINE z == CellsPerCluster * (w.idx[c] - 1)
  <2>1. z \in Int /\ o \in Nat /\ o < CellsPerCluster /\ CellsPerCluster \in Nat /\ CellsPerCluster > 0
    BY <1>1, <1>2, Sizes
  <2>2. z + o = k
    BY <1>1 DEF Place
  <2>3. CASE o + 1 = CellsPerCluster
    <3>1. r.c = D.fat[c] /\ r.o = 0
      BY <1>3, <2>3
    <3>2. /\ CellsPerCluster * ((w.idx[c] + 1) - 1) + 0 = z + CellsPerCluster
          /\ CellsPerCluster * w.idx[c] = z + CellsPerCluster
      <4>1. CellsPerCluster * ((w.idx[c] + 1) - 1) + 0 = z + CellsPerCluster
        BY <1>2, Places
      <4>2. CellsPerCluster * w.idx[c] = CellsPerCluster * ((w.idx[c] + 1) - 1) + 0
        <5>1. (w.idx[c] + 1) - 1 = w.idx[c] /\ CellsPerCluster * w.idx[c] \in Nat
          BY <1>2, <2>1
        <5>2. QED
          BY <5>1
      <4>3. QED
        BY <4>1, <4>2
    <3> HIDE DEF z
    <3>3. z + CellsPerCluster = k + 1
      BY <2>1, <2>2, <2>3
    <3>4. D.fat[c] # EOC
      <4> SUFFICES ASSUME D.fat[c] = EOC PROVE FALSE
        OBVIOUS
      <4>1. e.size <= CellsPerCluster * w.idx[c]
        BY <1>1, SizeWithin
      <4>2. e.size <= k + 1
        BY <4>1, <3>2, <3>3
      <4>3. QED
        BY <4>2, <1>6
    <3>5. D.fat[c] \in w.own /\ w.head[D.fat[c]] = e.first /\ w.idx[D.fat[c]] = w.idx[c] + 1
      BY <1>1, <1>2, <3>4 DEF Chained
    <3>6. Place(w, D.fat[c], 0) = k + 1
      BY <3>2, <3>3, <3>5 DEF Place
    <3>7. 0 \in Offsets
      BY <2>1, Sizes
    <3>8. QED
      BY <3>1, <3>5, <3>6, <3>7
  <2>4. CASE o + 1 # CellsPerCluster
    <3>1. r.c = c /\ r.o = o + 1
      BY <1>3, <2>4
    <3> HIDE DEF z
    <3>2. o + 1 \in Offsets /\ z + (o + 1) = k + 1
      BY <2>1, <2>2, <2>4, Sizes
    <3>3. Place(w, c, o + 1) = z + (o + 1)
      BY DEF Place, z
    <3>4. QED
      BY <1>1, <3>1, <3>2, <3>3
  <2>5. QED
    BY <2>3, <2>4
<1>7. Reading(D, w, e, r, k + 1)
  BY <1>4, <1>5, <1>6 DEF Reading
<1>8. QED
  BY <1>7 DEF r

\* Reading a file returns its cells in the order of their numbers.
LEMMA ReadAll ==
    ASSUME NEW D, NEW w, On(D, w), NEW e, Described(e, w), e.size \in Nat,
           NEW file, file.first_cluster = e.first, file.file_size = e.size
    PROVE  /\ fat32_read_all(D, file) \in Seq(Cell) /\ Len(fat32_read_all(D, file)) = e.size
           /\ \A j \in 1 .. e.size : Got(D, w, e.first, fat32_read_all(D, file)[j], j)
<1> DEFINE N == e.size
           base == [out |-> <<>>, c |-> e.first, o |-> 0]
<1>0. N \in Nat
  OBVIOUS
<1>1. PICK W : /\ W = [k \in 0 .. N |-> IF k = 0 THEN base ELSE ReadCell(D, W[k - 1])]
               /\ fat32_read_all(D, file) = W[N].out
  BY ReadWalk
<1>2. Reading(D, w, e, base, 0)
  <2>1. base.out = <<>> /\ base.c = e.first /\ base.o = 0
    OBVIOUS
  <2>2. e.first \in w.own /\ w.head[e.first] = e.first /\ w.idx[e.first] = 1
    BY OnParts DEF Described, Chained
  <2>3. Place(w, e.first, 0) = 0 /\ 0 \in Offsets
    <3>1. CellsPerCluster * (1 - 1) + 0 = 0 /\ 0 \in Offsets
      BY Sizes
    <3>2. QED
      BY <3>1, <2>2 DEF Place
  <2> HIDE DEF base
  <2>4. base.out \in Seq(Cell) /\ Len(base.out) = 0
    BY <2>1
  <2>5. \A j \in 1 .. 0 : Got(D, w, e.first, base.out[j], j)
    OBVIOUS
  <2>6. QED
    BY <2>1, <2>2, <2>3, <2>4, <2>5 DEF Reading
<1>3. W[0] = base /\ \A k \in 1 .. N : W[k] = ReadCell(D, W[k - 1])
  <2> HIDE DEF base
  <2>1. QED
    BY <1>0, <1>1
<1> HIDE DEF base
<1> DEFINE Bad == {k \in 0 .. N : ~Reading(D, w, e, W[k], k)}
<1>4. Bad = {}
  <2> SUFFICES ASSUME Bad # {} PROVE FALSE
    OBVIOUS
  <2>1. Bad \subseteq Nat
    OBVIOUS
  <2>2. PICK m \in Bad : \A k \in Bad : m <= k
    BY <2>1, LeastOf
  <2>3. m # 0
    BY <1>2, <1>3
  <2>4. m \in 1 .. N /\ m - 1 \in 0 .. N /\ m - 1 \notin Bad
    <3>1. m \in 0 .. N
      OBVIOUS
    <3> HIDE DEF Bad
    <3>2. m - 1 \in 0 .. N /\ ~(m <= m - 1) /\ m \in 1 .. N
      BY <3>1, <2>3, <1>0
    <3>3. QED
      BY <3>2, <2>2
  <2>5. Reading(D, w, e, W[m - 1], m - 1)
    BY <2>4
  <2>6. m - 1 \in Nat /\ (m - 1) + 1 = m /\ m - 1 < e.size
    BY <2>4
  <2>7. Reading(D, w, e, ReadCell(D, W[m - 1]), (m - 1) + 1)
    <3> DEFINE k == m - 1
               s == W[m - 1]
    <3>1. k \in Nat /\ k < e.size /\ Reading(D, w, e, s, k)
      BY <2>5, <2>6
    <3> HIDE DEF k, s
    <3>2. Reading(D, w, e, ReadCell(D, s), k + 1)
      BY <3>1, ReadCellGoes
    <3>3. QED
      BY <3>2 DEF k, s
  <2>8. Reading(D, w, e, W[m], m)
    <3>1. W[m] = ReadCell(D, W[m - 1])
      BY <2>4, <1>3
    <3>2. QED
      BY <3>1, <2>6, <2>7
  <2>9. QED
    BY <2>8
<1>5. Reading(D, w, e, W[N], N)
  <2>1. N \in 0 .. N
    BY <1>0
  <2>2. QED
    BY <2>1, <1>4
<1>6. QED
  BY <1>1, <1>5 DEF Reading

\* Two layouts have the same directories.
SameShape(w, v) ==
    /\ \A c : c \in w.dirs <=> c \in v.dirs
    /\ \A c \in w.dirs : v.head[c] = w.head[c] /\ v.idx[c] = w.idx[c]

\* One of their chains is the beginning of the other.
LEMMA ChainInto ==
    ASSUME NEW D, NEW w, On(D, w), NEW E, NEW v, On(E, v), SameShape(w, v), NEW dir, IsDir(w, dir), IsDir(v, dir)
    PROVE  \A k \in 1 .. Len(Chain(D, dir)) : k \in 1 .. Len(Chain(E, dir)) /\ Chain(E, dir)[k] = Chain(D, dir)[k]
<1> DEFINE a == Chain(D, dir)
           b == Chain(E, dir)
<1>1. a \in Seq(w.own) /\ \A k \in 1 .. Len(a) : w.idx[a[k]] = k
  <2>1. w \in Layout /\ D.fat \in FatType /\ Chained(D.fat, w) /\ dir \in w.own /\ w.idx[dir] = 1
    BY OnParts DEF IsDir
  <2>2. QED
    BY <2>1, ChainOf
<1>2. b \in Seq(v.own) /\ \A k \in 1 .. Len(b) : v.idx[b[k]] = k
  <2>1. v \in Layout /\ E.fat \in FatType /\ Chained(E.fat, v) /\ dir \in v.own /\ v.idx[dir] = 1
    BY OnParts DEF IsDir
  <2>2. QED
    BY <2>1, ChainOf
<1>3. \A x : x \in ToSet(a) <=> x \in w.dirs /\ w.head[x] = dir
  BY ListedIn
<1>4. \A x : x \in ToSet(b) <=> x \in v.dirs /\ v.head[x] = dir
  BY ListedIn
<1> HIDE DEF a, b
<1>5. ASSUME NEW k \in 1 .. Len(a) PROVE k \in 1 .. Len(b) /\ b[k] = a[k]
  <2>1. a[k] \in ToSet(a)
    BY <1>1 DEF ToSet
  <2>2. a[k] \in w.dirs /\ w.head[a[k]] = dir /\ w.idx[a[k]] = k
    BY <2>1, <1>1, <1>3
  <2>3. a[k] \in v.dirs /\ v.head[a[k]] = dir /\ v.idx[a[k]] = k
    BY <2>2 DEF SameShape
  <2>4. a[k] \in ToSet(b)
    BY <2>3, <1>4
  <2>5. PICK l \in 1 .. Len(b) : a[k] = b[l]
    BY <2>4, <1>2 DEF ToSet
  <2>6. l = k
    BY <2>3, <2>5, <1>2
  <2>7. QED
    BY <2>5, <2>6
<1>6. QED
  BY <1>5 DEF a, b

LEMMA SameChain ==
    ASSUME NEW D, NEW w, On(D, w), NEW E, NEW v, On(E, v), SameShape(w, v), NEW dir, IsDir(w, dir)
    PROVE  IsDir(v, dir) /\ Chain(E, dir) = Chain(D, dir)
<1>1. IsDir(v, dir) /\ SameShape(v, w)
  BY DEF SameShape, IsDir
<1> DEFINE a == Chain(D, dir)
           b == Chain(E, dir)
<1>2. a \in Seq(w.own)
  <2>1. w \in Layout /\ D.fat \in FatType /\ Chained(D.fat, w) /\ dir \in w.own /\ w.idx[dir] = 1
    BY OnParts DEF IsDir
  <2>2. QED
    BY <2>1, ChainOf
<1>3. b \in Seq(v.own)
  <2>1. v \in Layout /\ E.fat \in FatType /\ Chained(E.fat, v) /\ dir \in v.own /\ v.idx[dir] = 1
    BY <1>1, OnParts DEF IsDir
  <2>2. QED
    BY <2>1, ChainOf
<1>4. \A k \in 1 .. Len(a) : k \in 1 .. Len(b) /\ b[k] = a[k]
  BY <1>1, ChainInto
<1>5. \A k \in 1 .. Len(b) : k \in 1 .. Len(a) /\ a[k] = b[k]
  BY <1>1, ChainInto
<1> HIDE DEF a, b
<1>6. Len(a) \in Nat /\ Len(b) \in Nat
  BY <1>2, <1>3
<1>7. Len(a) = Len(b)
  <2>1. ~(Len(a) > Len(b))
    <3> SUFFICES ASSUME Len(a) > Len(b) PROVE FALSE
      OBVIOUS
    <3>1. Len(a) \in 1 .. Len(a)
      BY <1>6
    <3>2. Len(a) \in 1 .. Len(b)
      BY <3>1, <1>4
    <3>3. QED
      BY <3>2, <1>6
  <2>2. ~(Len(b) > Len(a))
    <3> SUFFICES ASSUME Len(b) > Len(a) PROVE FALSE
      OBVIOUS
    <3>1. Len(b) \in 1 .. Len(b)
      BY <1>6
    <3>2. Len(b) \in 1 .. Len(a)
      BY <3>1, <1>5
    <3>3. QED
      BY <3>2, <1>6
  <2>3. QED
    BY <2>1, <2>2, <1>6
<1>8. a = b
  BY <1>2, <1>3, <1>4, <1>7
<1>9. QED
  BY <1>1, <1>8 DEF a, b

\* A cell that is an entry stays an entry of that name.
SameNames(D, E, S) ==
    \A q \in S \X Offsets : /\ IsEntry(At(E, q)) <=> IsEntry(At(D, q))
                            /\ IsEntry(At(D, q)) => At(E, q).name = At(D, q).name

\* Names are found where they were.
LEMMA SameFind ==
    ASSUME NEW D, NEW w, On(D, w), NEW E, NEW v, On(E, v), SameShape(w, v), NEW dir, IsDir(w, dir),
           SameNames(D, E, w.dirs), NEW name
    PROVE  Find(E, dir, name) = Find(D, dir, name)
<1>1. IsDir(v, dir) /\ Chain(E, dir) = Chain(D, dir)
  BY SameChain
<1> DEFINE S == {q \in Listed(D, dir) : At(D, q).name = name}
           T == {q \in Listed(E, dir) : At(E, q).name = name}
<1>2. \A q : q \in Listed(D, dir) <=> q \in DirEntries(D, w) /\ w.head[q[1]] = dir
  BY ListedIn
<1>3. \A q : q \in Listed(E, dir) <=> q \in DirEntries(E, v) /\ v.head[q[1]] = dir
  BY <1>1, ListedIn
<1>4. \A q : q \in DirEntries(D, w) <=> q \in w.dirs \X Offsets /\ IsEntry(At(D, q))
  BY DEF DirEntries, EntriesIn, At
<1>5. \A q : q \in DirEntries(E, v) <=> q \in v.dirs \X Offsets /\ IsEntry(At(E, q))
  BY DEF DirEntries, EntriesIn, At
<1>6. ASSUME NEW q \in w.dirs \X Offsets
      PROVE  /\ q \in v.dirs \X Offsets /\ v.head[q[1]] = w.head[q[1]] /\ (IsEntry(At(E, q)) <=> IsEntry(At(D, q)))
             /\ IsEntry(At(D, q)) => At(E, q).name = At(D, q).name
  <2>1. q[1] \in w.dirs /\ q[2] \in Offsets /\ q = <<q[1], q[2]>>
    OBVIOUS
  <2>2. q \in v.dirs \X Offsets /\ v.head[q[1]] = w.head[q[1]]
    BY <2>1 DEF SameShape
  <2>3. /\ IsEntry(At(E, q)) <=> IsEntry(At(D, q))
        /\ IsEntry(At(D, q)) => At(E, q).name = At(D, q).name
    BY DEF SameNames
  <2>4. QED
    BY <2>2, <2>3
<1>7. ASSUME NEW q \in v.dirs \X Offsets PROVE q \in w.dirs \X Offsets
  BY DEF SameShape
<1>8. ASSUME NEW q \in S PROVE q \in T
  BY <1>2, <1>3, <1>4, <1>5, <1>6
<1>9. ASSUME NEW q \in T PROVE q \in S
  <2>1. q \in w.dirs \X Offsets /\ IsEntry(At(E, q)) /\ v.head[q[1]] = dir /\ At(E, q).name = name
    BY <1>3, <1>5, <1>7
  <2>2. QED
    BY <2>1, <1>2, <1>4, <1>6
<1>10. S = T
  BY <1>8, <1>9
<1>11. Find(D, dir, name) = FirstOf(Chain(D, dir), S) /\ Find(E, dir, name) = FirstOf(Chain(E, dir), T)
  BY DEF Find
<1> HIDE DEF S, T
<1>12. QED
  BY <1>1, <1>10, <1>11

\* A file that is there is opened for reading.
LEMMA OpenRead ==
    ASSUME NEW D, NEW w, On(D, w), NEW cwd, IsDir(w, cwd), NEW path \in FilePaths,
           NEW p, p = Find(D, OpenParent(cwd, path), path.parts[Len(path.parts)]), p # NoPos
    PROVE  fat32_open(D, cwd, path, "r").file = HandleOn(D, p, At(D, p).first).file
<1> DEFINE name == path.parts[Len(path.parts)]
           dir == OpenParent(cwd, path)
           target == fat32_resolve_path(D, cwd, path)
<1>1. IsDir(w, dir) /\ target = Lookup(D, dir, name)
  BY OpenTarget
<1>2. p \in DirEntries(D, w)
  BY <1>1, FindIn
<1>3. target = At(D, p).first
  BY <1>1, OnParts, Sizes DEF Lookup, IsDir
<1>4. target # NoCluster
  BY <1>2, <1>3, EntryChain, OnParts, Sizes
<1>5. fat32_open(D, cwd, path, "r") = HandleOn(D, p, target)
  BY <1>4 DEF fat32_open, HandleOn
<1>6. QED
  BY <1>3, <1>5

\* What is read back.
Reads(E, cwd, path, n, size, text, old) ==
    LET r == fat32_open(E, cwd, path, "r")
    IN  /\ r.file # NoFile
        /\ fat32_read_all(E, r.file) = [k \in 1 .. IF n > size THEN n ELSE size |->
                                          IF k <= n THEN Data(text[k]) ELSE old[k]]

LEMMA StoredRead ==
    ASSUME NEW B, NEW u, On(B, u), NEW cwd, IsDir(u, cwd), NEW path \in FilePaths, NEW text, NEW old,
           NEW p, p = Find(B, OpenParent(cwd, path), path.parts[Len(path.parts)]), p # NoPos,
           NEW e, e = At(B, p), NEW n \in Nat, NEW E, NEW J, J = [B |-> B, u |-> u, text |-> text, old |-> old],
           Stored(J, p, e, n, E)
    PROVE  Reads(E, cwd, path, n, e.size, text, old)
<1> DEFINE name == path.parts[Len(path.parts)]
           dir == OpenParent(cwd, path)
           size == IF n > e.size THEN n ELSE e.size
           g == [e EXCEPT !.size = size]
<1>0. J.B = B /\ J.u = u /\ J.text = text /\ J.old = old
  OBVIOUS
<1>a. PICK w : /\ On(E, w) /\ p \in J.u.dirs \X Offsets
               /\ \A c : c \in J.u.dirs <=> c \in w.dirs
               /\ \A c \in J.u.dirs : w.head[c] = J.u.head[c] /\ w.idx[c] = J.u.idx[c]
               /\ \A q \in J.u.dirs \X Offsets : q # p => At(E, q) = At(J.B, q)
               /\ At(E, p) = g /\ Progress(E, w, e.first, e.size, n, J.text, J.old)
  BY DEF Stored
<1>1. /\ On(E, w) /\ p \in u.dirs \X Offsets
      /\ \A c : c \in u.dirs <=> c \in w.dirs
      /\ \A c \in u.dirs : w.head[c] = u.head[c] /\ w.idx[c] = u.idx[c]
      /\ \A q \in u.dirs \X Offsets : q # p => At(E, q) = At(B, q)
      /\ At(E, p) = g /\ Progress(E, w, e.first, e.size, n, text, old)
  BY <1>0, <1>a
<1>2. SameShape(u, w)
  BY <1>1 DEF SameShape
<1>3. IsDir(u, dir) /\ name \in FileNames
  BY OpenTarget
<1>4. p \in DirEntries(B, u) /\ e.name = name
  BY <1>3, FindIn
<1>5. IsEntry(e) /\ e \in Cell
  BY <1>4, OnParts
<1>6. e.size \in Nat /\ size \in Nat
  BY <1>5, CellEntries
<1> HIDE DEF size
<1>7. IsEntry(g) /\ g.name = e.name /\ g.first = e.first /\ g.size = size
  BY <1>5, <1>6, CellEntries
<1> HIDE DEF g
<1>8. SameNames(B, E, u.dirs)
  <2> SUFFICES ASSUME NEW q \in u.dirs \X Offsets
               PROVE  /\ IsEntry(At(E, q)) <=> IsEntry(At(B, q))
                      /\ IsEntry(At(B, q)) => At(E, q).name = At(B, q).name
    BY DEF SameNames
  <2>1. CASE q = p
    BY <2>1, <1>1, <1>5, <1>7
  <2>2. CASE q # p
    BY <2>2, <1>1
  <2>3. QED
    BY <2>1, <2>2
<1>9. p = Find(E, dir, name)
  BY <1>1, <1>2, <1>3, <1>8, SameFind
<1>10. IsDir(w, cwd)
  BY <1>1 DEF IsDir
<1> DEFINE file == fat32_open(E, cwd, path, "r").file
<1>11. file = HandleOn(E, p, At(E, p).first).file
  BY <1>1, <1>9, <1>10, OpenRead
<1>12. p \in DirEntries(E, w)
  BY <1>1, <1>7 DEF DirEntries, EntriesIn, At
<1>13. file \in HandleType /\ file.first_cluster = g.first /\ file.file_size = g.size
  <2>1. At(E, p).name \in FileNames
    BY <1>1, <1>3, <1>4, <1>7
  <2>2. Points(E, w, HandleOn(E, p, At(E, p).first).file, p, At(E, p))
    BY <1>1, <1>12, <2>1, HandlePoints
  <2>3. file \in HandleType
    BY <2>2, <1>11 DEF Points
  <2>4. file.first_cluster = g.first /\ file.file_size = g.size
    BY <1>1, <1>11 DEF HandleOn
  <2>5. QED
    BY <2>3, <2>4
<1> HIDE DEF file
<1>14. file # NoFile
  BY <1>13, FileOrNot
<1>15. Described(g, w)
  BY <1>1, <1>12, OnParts
<1> DEFINE out == fat32_read_all(E, file)
<1>16. /\ out \in Seq(Cell) /\ Len(out) = size
       /\ \A j \in 1 .. size : Got(E, w, e.first, out[j], j)
  <2>1. g.size \in Nat
    BY <1>6, <1>7
  <2>2. /\ out \in Seq(Cell) /\ Len(out) = g.size
        /\ \A j \in 1 .. g.size : Got(E, w, g.first, out[j], j)
    BY <1>1, <1>13, <1>15, <2>1, ReadAll
  <2> HIDE DEF out
  <2>3. QED
    BY <2>2, <1>7
<1> HIDE DEF out
<1>17. ASSUME NEW j \in 1 .. size PROVE out[j] = IF j <= n THEN Data(text[j]) ELSE old[j]
  <2>1. PICK c \in w.own, o \in Offsets : w.head[c] = e.first /\ Place(w, c, o) = j - 1 /\ out[j] = E.cell[c][o]
    BY <1>16 DEF Got
  <2> DEFINE m == Place(w, c, o)
  <2>2. /\ m < n => E.cell[c][o] = Data(text[m + 1])
        /\ n <= m /\ m < e.size => E.cell[c][o] = old[m + 1]
    BY <2>1, <1>1 DEF Progress
  <2>3. m = j - 1
    BY <2>1
  <2> HIDE DEF m
  <2>4. j \in Nat /\ m + 1 = j /\ (m < n <=> j <= n) /\ (n <= m <=> ~(j <= n))
    BY <2>3
  <2>5. ~(j <= n) => m < e.size
    BY <2>3, <1>6 DEF size
  <2>6. QED
    BY <2>1, <2>2, <2>4, <2>5
<1>18. out = [k \in 1 .. size |-> IF k <= n THEN Data(text[k]) ELSE old[k]]
  BY <1>16, <1>17
<1>19. QED
  BY <1>14, <1>18 DEF Reads, out, size, file

-----------------------------------------------------------------------------
(* The theorem.                                                            *)

\* Names of directories are not those of files.
LEMMA DirNames ==
    /\ \A path \in DirPaths : path.parts \in Seq(STRING) /\ \A k \in DOMAIN path.parts : path.parts[k] \notin FileNames
    /\ "agent" \notin FileNames /\ "db" \notin FileNames
<1>1. ASSUME NEW path \in DirPaths, NEW k \in DOMAIN path.parts, path.parts[k] \in FileNames PROVE FALSE
  <2>1. PICK file \in FilePaths : path.parts[k] = file.parts[1]
    BY <1>1 DEF FileNames
  <2>2. QED
    BY <2>1, PathAssumption
<1>2. "agent" \notin FileNames /\ "db" \notin FileNames
  BY PathAssumption DEF FileNames
<1>3. \A path \in DirPaths : path.parts \in Seq(STRING)
  BY PathAssumption
<1>4. QED
  BY <1>1, <1>2, <1>3

LEMMA ShortPaths ==
    /\ <<"agent">> \in Seq(STRING) /\ Len(<<"agent">>) = 1
    /\ <<"agent", "db">> \in Seq(STRING) /\ Len(<<"agent", "db">>) = 2
<1>1. ASSUME NEW S, NEW a \in S, NEW b \in S
      PROVE  <<a>> \in Seq(S) /\ Len(<<a>>) = 1 /\ <<a, b>> \in Seq(S) /\ Len(<<a, b>>) = 2
  OBVIOUS
<1>2. "agent" \in STRING /\ "db" \in STRING
  BY PathAssumption
<1>3. QED
  BY <1>1, <1>2

\* A layout for the disk is what Integrity asks for.
LEMMA IntegrityFromLayout ==
    ASSUME Fat32IInv
    PROVE  Integrity
<1> SUFFICES ASSUME outage # "fatal"
             PROVE  LET heads == {<<NoPos, root_cluster>>} \cup {<<p, At(disk, p).first>> : p \in Entries(disk)}
                    IN  /\ \A h \in heads :
                              LET ch == Chain(disk, h[2])
                              IN  /\ fat[ch[Len(ch)]] = EOC
                                  /\ \A k, l \in 1 .. Len(ch) : k # l => ch[k] # ch[l]
                        /\ \A h, g \in heads : h # g => ToSet(Chain(disk, h[2])) \cap ToSet(Chain(disk, g[2])) = {}
                        /\ fat32_cwd_cluster \in Clusters /\ fat[fat32_cwd_cluster] # FREE
                        /\ \A p \in Entries(disk) :
                              At(disk, p).size <= CellsPerCluster * Len(Chain(disk, At(disk, p).first))
  BY DEF Integrity
<1>1. PICK w : Tree(fat, cell, w) /\ IsDir(w, fat32_cwd_cluster)
  BY DEF Fat32IInv, Ok
<1> DEFINE D == disk
<1>2. D.fat = fat /\ D.cell = cell
  BY DEF disk
<1> HIDE DEF D
<1>3. On(D, w)
  BY <1>1, <1>2 DEF On
<1> DEFINE T == Entries(D)
           heads == {<<NoPos, root_cluster>>} \cup {<<p, At(D, p).first>> : p \in T}
<1>4. T \subseteq DirEntries(D, w)
  BY <1>3, OnParts, BelowLeads DEF Entries, Leads
<1>5. w.own \subseteq Clusters /\ w.dirs \subseteq w.own /\ IsDir(w, root_cluster) /\ Chained(D.fat, w)
  BY <1>3, OnParts
<1> HIDE DEF T
<1>6. ASSUME NEW h \in heads PROVE h[2] \in w.own /\ w.idx[h[2]] = 1
  <2>1. CASE h = <<NoPos, root_cluster>>
    BY <2>1, <1>5 DEF IsDir
  <2>2. ASSUME NEW p \in T, h = <<p, At(D, p).first>> PROVE h[2] \in w.own /\ w.idx[h[2]] = 1
    BY <2>2, <1>3, <1>4, EntryChain
  <2>3. QED
    BY <2>1, <2>2
<1>7. ASSUME NEW h \in heads, NEW g \in heads, h # g PROVE h[2] # g[2]
  <2>1. \A p \in T : At(D, p).first # root_cluster
    BY <1>3, <1>4, EntryChain
  <2>2. \A p, q \in T : At(D, p).first = At(D, q).first => p = q
    BY <1>3, <1>4, OnParts
  <2>3. QED
    BY <1>7, <2>1, <2>2
<1>8. ASSUME NEW h \in heads
      PROVE  /\ D.fat[Chain(D, h[2])[Len(Chain(D, h[2]))]] = EOC
             /\ \A k, l \in 1 .. Len(Chain(D, h[2])) : k # l => Chain(D, h[2])[k] # Chain(D, h[2])[l]
             /\ \A x : x \in ToSet(Chain(D, h[2])) <=> x \in w.own /\ w.head[x] = h[2]
  BY <1>3, <1>6, HeadChains
<1>9. ASSUME NEW h \in heads, NEW g \in heads, h # g
      PROVE  ToSet(Chain(D, h[2])) \cap ToSet(Chain(D, g[2])) = {}
  <2> HIDE DEF heads
  <2>1. h[2] # g[2]
    BY <1>7, <1>9
  <2>2. \A x : x \in ToSet(Chain(D, h[2])) => w.head[x] = h[2]
    BY <1>8
  <2>3. \A x : x \in ToSet(Chain(D, g[2])) => w.head[x] = g[2]
    BY <1>8
  <2> DEFINE S == ToSet(Chain(D, h[2]))
             R == ToSet(Chain(D, g[2]))
  <2>4. (\A x : x \in S => w.head[x] = h[2]) /\ \A x : x \in R => w.head[x] = g[2]
    BY <2>2, <2>3
  <2> HIDE DEF S, R
  <2>5. S \cap R = {}
    BY <2>1, <2>4
  <2>6. QED
    BY <2>5 DEF S, R
<1>10. fat32_cwd_cluster \in Clusters /\ fat[fat32_cwd_cluster] # FREE
  BY <1>1, <1>2, <1>5, Sizes DEF IsDir, Chained
<1>11. ASSUME NEW p \in T PROVE At(D, p).size <= CellsPerCluster * Len(Chain(D, At(D, p).first))
  <2> DEFINE e == At(D, p)
  <2>1. Described(e, w) /\ e \in Cell /\ IsEntry(e)
    BY <1>3, <1>4, OnParts
  <2> HIDE DEF e
  <2>2. e.size \in Nat
    BY <2>1, CellEntries
  <2>3. e.first \in w.own /\ w.idx[e.first] = 1 /\ \E c \in w.own : w.head[c] = e.first /\ e.size <= CellsPerCluster * w.idx[c]
    BY <2>1 DEF Described
  <2>4. e.size <= CellsPerCluster * Len(Chain(D, e.first))
    BY <1>3, <2>2, <2>3, HeadChains
  <2>5. QED
    BY <2>4 DEF e
<1> HIDE DEF heads
<1>12. QED
  BY <1>2, <1>8, <1>9, <1>10, <1>11 DEF heads, T, D

LEMMA DiskWhole ==
    ASSUME Ok(fat, cell, fat32_cwd_cluster)
    PROVE  Whole(disk, fat32_cwd_cluster)
<1>1. PICK w : Tree(fat, cell, w) /\ IsDir(w, fat32_cwd_cluster)
  BY DEF Ok
<1>2. disk.fat = fat /\ disk.cell = cell /\ disk.log = <<>> /\ disk.fragile = FALSE
  BY DEF disk
<1>3. fat \in FatType /\ cell \in CellType
  BY <1>1 DEF Tree
<1>4. disk \in Disk
  BY <1>3 DEF disk, Disk
<1>5. On(disk, w)
  BY <1>1, <1>2 DEF On
<1>6. Sound(disk)
  <2>1. Len(disk.log) = 0
    BY <1>2
  <2>2. QED
    BY <1>4, <2>1 DEF Sound
<1>7. QED
  BY <1>1, <1>2, <1>5, <1>6 DEF Whole

\* A command that ends, or is cut short, leaves a disk with a layout.
LEMMA EndsOk ==
    ASSUME NEW D, Whole(D, fat32_cwd_cluster), Ends(D)
    PROVE  Fat32IInv'
<1>1. CASE Leaves(D) /\ UNCHANGED fat32_cwd_cluster
  <2>1. fat' = D.fat /\ cell' = D.cell /\ fat32_cwd_cluster' = fat32_cwd_cluster
    BY <1>1 DEF Leaves
  <2>2. Ok(D.fat, D.cell, fat32_cwd_cluster)
    BY OnOk DEF Whole
  <2>3. QED
    BY <2>1, <2>2 DEF Fat32IInv, Ok
<1>2. ASSUME NEW k \in 1 .. Len(D.log) - 1,
             outage' = IF D.log[k].fragile THEN "fatal" ELSE "harmless",
             Leaves(D.log[k]), fat32_cwd_cluster' = root_cluster
      PROVE  Fat32IInv'
  <2>1. Bearable(D.log[k])
    <3>1. D.log \in Seq(Image) /\ \A j \in 1 .. Len(D.log) : Bearable(D.log[j])
      BY DiskParts DEF Whole, Sound
    <3>2. Len(D.log) \in Nat
      BY <3>1
    <3>3. k \in 1 .. Len(D.log)
      BY <3>2
    <3>4. QED
      BY <3>1, <3>3
  <2>2. fat' = D.log[k].fat /\ cell' = D.log[k].cell
    BY <1>2 DEF Leaves
  <2>3. outage' # "fatal" => Ok(D.log[k].fat, D.log[k].cell, root_cluster)
    BY <1>2, <2>1 DEF Bearable
  <2>4. QED
    BY <1>2, <2>2, <2>3 DEF Fat32IInv, Ok
<1>3. QED
  BY <1>1, <1>2 DEF Ends

LEMMA InitOk ==
    ASSUME Fat32Init
    PROVE  Fat32IInv
<1> DEFINE w == [own |-> {root_cluster}, head |-> [c \in Clusters |-> c], idx |-> [c \in Clusters |-> 1],
                 dirs |-> {root_cluster}]
<1>1. /\ w \in Layout /\ w.own = {root_cluster} /\ w.dirs = {root_cluster} /\ root_cluster \in Clusters
      /\ (\A c \in Clusters : w.head[c] = c /\ w.idx[c] = 1)
  BY Sizes DEF Layout
<1> HIDE DEF w
<1>2. /\ fat \in FatType /\ fat[root_cluster] = EOC /\ EOC # root_cluster
  BY <1>1, Sizes DEF Fat32Init, FatType
<1>3. cell \in CellType /\ \A c \in Clusters : cell[c] = Blank
  BY NewCells DEF Fat32Init, CellType
<1>4. Chained(fat, w)
  BY <1>1, <1>2 DEF Chained
<1>5. Named(cell, w)
  <2>1. ASSUME NEW p \in EntriesIn(cell, w.dirs) PROVE FALSE
    <3>1. p[1] \in Clusters /\ p[2] \in Offsets /\ IsEntry(cell[p[1]][p[2]])
      BY <1>1 DEF EntriesIn
    <3>2. QED
      BY <3>1, <1>3, NewCells
  <2>2. \A c \in w.dirs : \A j \in Offsets : ~IsEntry(cell[c][j])
    BY <1>1, <1>3, NewCells
  <2>3. QED
    BY <1>1, <2>1, <2>2 DEF Named
<1>6. Tree(fat, cell, w) /\ IsDir(w, root_cluster)
  BY <1>1, <1>2, <1>3, <1>4, <1>5 DEF Tree, IsDir
<1>7. QED
  BY <1>6 DEF Fat32IInv, Ok, Fat32Init

LEMMA NextOk ==
    ASSUME Fat32IInv, Fat32Next
    PROVE  Fat32IInv'
<1> DEFINE cwd == fat32_cwd_cluster
<1>0. Whole(disk, cwd) /\ Ok(fat, cell, cwd) /\ outage # "fatal"
  <2>1. outage # "fatal"
    BY DEF Fat32Next, agent_init, Command
  <2>2. QED
    BY <2>1, DiskWhole DEF Fat32IInv
<1>1. CASE agent_init
  <2> DEFINE p1 == [abs |-> TRUE, parts |-> <<"agent">>]
             p2 == [abs |-> TRUE, parts |-> <<"agent", "db">>]
             d1 == fat32_mkdir(disk, cwd, p1)
             d2 == fat32_mkdir(d1.D, cwd, p2)
  <2>1. Ends(d2.D)
    BY <1>1 DEF agent_init
  <2>2. /\ p1.parts \in Seq(STRING) /\ \A k \in DOMAIN p1.parts : p1.parts[k] \notin FileNames
    <3>1. p1.parts = <<"agent">>
      OBVIOUS
    <3> HIDE DEF p1
    <3>2. <<"agent">> \in Seq(STRING) /\ Len(<<"agent">>) = 1
      BY ShortPaths
    <3>3. \A k \in 1 .. 1 : <<"agent">>[k] \in {"agent", "db"}
      OBVIOUS
    <3>4. DOMAIN p1.parts = 1 .. 1
      BY <3>1, <3>2
    <3>5. QED
      BY <3>1, <3>2, <3>3, <3>4, DirNames
  <2>3. /\ p2.parts \in Seq(STRING) /\ \A k \in DOMAIN p2.parts : p2.parts[k] \notin FileNames
    <3>1. p2.parts = <<"agent", "db">>
      OBVIOUS
    <3> HIDE DEF p2
    <3>2. <<"agent", "db">> \in Seq(STRING) /\ Len(<<"agent", "db">>) = 2
      BY ShortPaths
    <3>3. \A k \in 1 .. 2 : <<"agent", "db">>[k] \in {"agent", "db"}
      OBVIOUS
    <3>4. DOMAIN p2.parts = 1 .. 2
      BY <3>1, <3>2
    <3>5. QED
      BY <3>1, <3>2, <3>3, <3>4, DirNames
  <2> HIDE DEF p1, p2
  <2>4. Whole(d1.D, cwd)
    BY <1>0, <2>2, MkdirWhole
  <2> HIDE DEF d1
  <2>5. Whole(d2.D, cwd)
    BY <2>3, <2>4, MkdirWhole
  <2> HIDE DEF d2
  <2>6. QED
    BY <2>1, <2>5, EndsOk
<1>2. ASSUME NEW path \in DirPaths, mkdir(path) PROVE Fat32IInv'
  <2>1. Whole(fat32_mkdir(disk, cwd, path).D, cwd)
    BY <1>0, DirNames, MkdirWhole
  <2>2. QED
    BY <1>2, <2>1, EndsOk DEF mkdir
<1>3. ASSUME NEW path \in DirPaths, rmdir(path) PROVE Fat32IInv'
  <2>1. fat32_resolve_path(disk, cwd, path) # NoCluster => cwd \notin Below(disk, fat32_resolve_path(disk, cwd, path))
    BY <1>3 DEF rmdir
  <2>2. Whole(fat32_rmdir(disk, cwd, path).D, cwd)
    BY <1>0, <2>1, DirNames, RmdirWhole
  <2>3. QED
    BY <1>3, <2>2, EndsOk DEF rmdir
<1>4. ASSUME NEW path \in DirPaths, fat32_chdir(path) PROVE Fat32IInv'
  <2> DEFINE c == fat32_resolve_path(disk, cwd, path)
  <2>1. fat' = fat /\ cell' = cell /\ outage' = outage /\ fat32_cwd_cluster' = IF c = NoCluster THEN cwd ELSE c
    BY <1>4 DEF fat32_chdir
  <2>2. PICK w : Tree(fat, cell, w) /\ IsDir(w, cwd)
    BY <1>0 DEF Ok
  <2>3. On(disk, w)
    BY <2>2 DEF On, disk
  <2>4. path.parts \in Seq(STRING) /\ \A k \in DOMAIN path.parts : path.parts[k] \notin FileNames
    BY DirNames
  <2>5. c # NoCluster => IsDir(w, c)
    <3>1. Len(path.parts) \in 0 .. Len(path.parts)
      BY <2>4
    <3>2. \A n \in 0 .. Len(path.parts) :
             Resolved(disk, cwd, path, n) # NoCluster => IsDir(w, Resolved(disk, cwd, path, n))
      BY <2>2, <2>3, <2>4, ResolvedIn
    <3>3. QED
      BY <3>1, <3>2 DEF fat32_resolve_path
  <2> HIDE DEF c
  <2>6. IsDir(w, fat32_cwd_cluster')
    BY <2>1, <2>2, <2>5
  <2>7. QED
    BY <2>1, <2>2, <2>6 DEF Fat32IInv, Ok
<1>5. ASSUME NEW path \in FilePaths, rm(path) PROVE Fat32IInv'
  <2>1. Whole(fat32_unlink(disk, cwd, path).D, cwd)
    BY <1>0, UnlinkWhole
  <2>2. QED
    BY <1>5, <2>1, EndsOk DEF rm
<1>6. ASSUME NEW path \in FilePaths, touch(path) PROVE Fat32IInv'
  <2>1. Opened(fat32_open(disk, cwd, path, "w"), cwd)
    BY <1>0, OpenWhole
  <2>2. Whole(fat32_open(disk, cwd, path, "w").D, cwd)
    BY <2>1 DEF Opened, Whole
  <2>3. QED
    BY <1>6, <2>2, EndsOk DEF touch
<1>7. ASSUME NEW path \in FilePaths, NEW text \in Texts, write(path, text) PROVE Fat32IInv'
  <2> DEFINE r == fat32_open(disk, cwd, path, "w")
  <2>1. Opened(r, cwd)
    BY <1>0, OpenWhole
  <2>2. Written(path, text) = IF r.file = NoFile THEN r.D ELSE fat32_write(r.D, r.file, text).D
    BY DEF Written
  <2> HIDE DEF r
  <2>3. text \in Seq(STRING)
    BY Fat32Assumption
  <2>4. PICK v : /\ On(r.D, v) /\ IsDir(v, cwd)
                 /\ r.file = NoFile \/ \E p, e : Points(r.D, v, r.file, p, e) /\ Begins(r.file, e)
    BY <2>1 DEF Opened
  <2>5. Sound(r.D) /\ r.D.fragile = FALSE
    BY <2>1 DEF Opened
  <2>6. Whole(Written(path, text), cwd)
    <3>1. CASE r.file = NoFile
      BY <3>1, <2>2, <2>4, <2>5 DEF Whole
    <3>2. CASE r.file # NoFile
      <4>1. PICK p, e : Points(r.D, v, r.file, p, e) /\ Begins(r.file, e)
        BY <3>2, <2>4
      <4> DEFINE D == r.D
                 f == r.file
      <4>2. Sound(D) /\ D.fragile = FALSE /\ IsDir(v, cwd) /\ Points(D, v, f, p, e) /\ Begins(f, e)
        BY <4>1, <2>4, <2>5
      <4> HIDE DEF D, f
      <4>3. Whole(fat32_write(D, f, text).D, cwd)
        BY <4>2, <2>3, WriteWhole
      <4>4. QED
        BY <4>3, <3>2, <2>2 DEF D, f
    <3>3. QED
      BY <3>1, <3>2
  <2>7. QED
    BY <1>7, <2>6, EndsOk DEF write
<1>8. QED
  BY <1>1, <1>2, <1>3, <1>4, <1>5, <1>6, <1>7 DEF Fat32Next, Command

\* What a file holds is as long as its size.
LEMMA ContentSize ==
    ASSUME NEW D, NEW e, e.size \in Nat
    PROVE  Len(Content(D, e)) = e.size
<1> DEFINE old == Content(D, e)
           n == e.size
           S == {old[k] : k \in 1 .. n}
<1>1. n \in Nat /\ DOMAIN old = 1 .. n /\ old = [k \in 1 .. n |-> old[k]]
  BY DEF Content
<1> HIDE DEF old, n
<1>2. old \in [1 .. n -> S]
  BY <1>1
<1>3. old \in Seq(S)
  BY <1>1, <1>2
<1>4. Len(old) \in Nat /\ 1 .. n = 1 .. Len(old)
  BY <1>1, <1>3
<1>5. Len(old) = n
  BY <1>1, <1>4
<1>6. QED
  BY <1>5 DEF old, n

\* With a layout for the disk, what is written is what is read.
LEMMA WriteStoresFromLayout ==
    ASSUME Fat32IInv
    PROVE  WriteStores
<1> DEFINE cwd == fat32_cwd_cluster
           Start(path) == Find(disk, OpenParent(cwd, path), Last(path.parts))
           Held(path) == IF Start(path) = NoPos THEN <<>> ELSE Content(disk, At(disk, Start(path)))
<1> SUFFICES ASSUME booted, outage = "none", NEW path \in FilePaths, NEW text \in Texts,
                    find_free_cluster(Written(path, text)) # NoCluster
             PROVE  cat(Written(path, text), path) =
                       [k \in 1 .. IF Len(text) > Len(Held(path)) THEN Len(text) ELSE Len(Held(path)) |->
                           IF k <= Len(text) THEN Data(text[k]) ELSE Held(path)[k]]
  BY DEF WriteStores
<1> DEFINE name == path.parts[Len(path.parts)]
           dir == OpenParent(cwd, path)
           r == fat32_open(disk, cwd, path, "w")
           E == Written(path, text)
           N == Len(text)
           old == Held(path)
<1>1. Whole(disk, cwd)
  BY DiskWhole DEF Fat32IInv
<1>2. Opened(r, cwd) /\ Found(disk, r, dir, name)
  BY <1>1, OpenWhole
<1>3. E = IF r.file = NoFile THEN r.D ELSE fat32_write(r.D, r.file, text).D
  BY DEF Written
<1>4. old = IF Find(disk, dir, name) = NoPos THEN <<>> ELSE Content(disk, At(disk, Find(disk, dir, name)))
  BY DEF Last
<1>5. text \in Seq(STRING) /\ N \in Nat
  BY Fat32Assumption
<1>6. cat(E, path) = LET o == fat32_open(E, cwd, path, "r")
                     IN  IF o.file = NoFile THEN <<>> ELSE fat32_read_all(E, o.file)
  BY DEF cat
<1> HIDE DEF r, E, old, name, dir, Start, Held
<1>7. r.file # NoFile
  BY <1>2, <1>3 DEF Found, E
<1> DEFINE D == r.D
           f == r.file
           p == Find(D, dir, name)
           e == At(D, p)
<1>8. /\ p # NoPos /\ f = HandleOn(D, p, e.first).file
      /\ D = disk \/ (Find(disk, dir, name) = NoPos /\ e.size = 0)
  BY <1>2, <1>7 DEF Found
<1>9. PICK u : On(D, u) /\ IsDir(u, cwd)
  BY <1>2 DEF Opened
<1>10. Sound(D) /\ D.fragile = FALSE
  BY <1>2 DEF Opened
<1>11. IsDir(u, dir) /\ name \in FileNames
  BY <1>9, OpenTarget DEF dir, name
<1> HIDE DEF D, f
<1>12. p \in DirEntries(D, u) /\ e.name = name
  BY <1>8, <1>9, <1>11, FindIn
<1>13. e.size \in Nat
  BY <1>9, <1>12, OnParts, CellEntries
<1> HIDE DEF p
<1>14. Points(D, u, f, p, e) /\ Begins(f, e)
  BY <1>8, <1>9, <1>11, <1>12, HandlePoints
<1> DEFINE was == Content(D, e)
           J == [B |-> D, u |-> u, text |-> text, old |-> was]
<1>15. Stored(J, p, e, N, fat32_write(D, f, text).D)
  <2>1. fat32_write(D, f, text).D = E
    BY <1>3, <1>7 DEF D, f
  <2>2. find_free_cluster(fat32_write(D, f, text).D) # NoCluster
    BY <2>1 DEF E
  <2> HIDE DEF e
  <2>3. J = [B |-> D, u |-> u, text |-> text, old |-> Content(D, e)]
    OBVIOUS
  <2> HIDE DEF J, was
  <2>4. find_free_cluster(fat32_write(D, f, text).D) # NoCluster => Stored(J, p, e, Len(text), fat32_write(D, f, text).D)
    BY <1>5, <1>9, <1>10, <1>14, <2>3, WriteWhole
  <2>5. QED
    BY <2>2, <2>4
<1>16. Reads(E, cwd, path, N, e.size, text, was)
  <2>1. fat32_write(D, f, text).D = E
    BY <1>3, <1>7 DEF D, f
  <2>2. J = [B |-> D, u |-> u, text |-> text, old |-> was] /\ Stored(J, p, e, N, E)
    BY <1>15, <2>1
  <2>3. p = Find(D, OpenParent(cwd, path), path.parts[Len(path.parts)]) /\ e = At(D, p)
    BY DEF p, dir, name
  <2> HIDE DEF J, was, e, N
  <2>4. QED
    BY <1>5, <1>8, <1>9, <2>2, <2>3, StoredRead
<1>17. cat(E, path) = [k \in 1 .. IF N > e.size THEN N ELSE e.size |-> IF k <= N THEN Data(text[k]) ELSE was[k]]
  BY <1>6, <1>16 DEF Reads
<1> HIDE DEF was, e, N
<1>18. Len(old) = e.size /\ \A k \in 1 .. e.size : was[k] = old[k]
  <2>1. CASE D = disk
    <3>1. old = Content(D, e)
      BY <2>1, <1>4, <1>8 DEF p, e
    <3>2. QED
      BY <3>1, <1>13, ContentSize DEF was
  <2>2. CASE Find(disk, dir, name) = NoPos /\ e.size = 0
    <3>1. old = <<>>
      BY <2>2, <1>4
    <3>2. QED
      BY <3>1, <2>2
  <2>3. QED
    BY <2>1, <2>2, <1>8
<1>19. cat(E, path) = [k \in 1 .. IF N > Len(old) THEN N ELSE Len(old) |-> IF k <= N THEN Data(text[k]) ELSE old[k]]
  <2> DEFINE M == IF N > e.size THEN N ELSE e.size
  <2>1. M \in Nat /\ \A k \in 1 .. M : ~(k <= N) => k \in 1 .. e.size
    BY <1>5, <1>13 DEF N
  <2>2. cat(E, path) = [k \in 1 .. M |-> IF k <= N THEN Data(text[k]) ELSE was[k]]
    BY <1>17
  <2> HIDE DEF M
  <2>3. ASSUME NEW k \in 1 .. M
        PROVE  (IF k <= N THEN Data(text[k]) ELSE was[k]) = (IF k <= N THEN Data(text[k]) ELSE old[k])
    BY <2>1, <1>18
  <2>4. cat(E, path) = [k \in 1 .. M |-> IF k <= N THEN Data(text[k]) ELSE old[k]]
    BY <2>2, <2>3
  <2>5. QED
    BY <2>4, <1>18 DEF M
<1>20. QED
  BY <1>19 DEF E, N, old

\* There is a layout for the disk unless the power failed in a fragile window.
LEMMA Fat32Inv == Fat32Spec => []Fat32IInv
<1>1. Fat32Init => Fat32IInv
  BY InitOk
<1>2. Fat32IInv /\ [Fat32Next]_fat32Vars => Fat32IInv'
  <2> SUFFICES ASSUME Fat32IInv, [Fat32Next]_fat32Vars PROVE Fat32IInv'
    OBVIOUS
  <2>1. CASE Fat32Next
    BY <2>1, NextOk
  <2>2. CASE UNCHANGED fat32Vars
    BY <2>2 DEF fat32Vars, Fat32IInv, Ok
  <2>3. QED
    BY <2>1, <2>2
<1>3. QED
  BY <1>1, <1>2, PTL DEF Fat32Spec

\* Integrity (fat32.c): after every command, and after a power failure between any two
\* writes of one that is not in its fragile window, the chains of the root, of all
\* directories and of all files end, share no cluster and are long enough for the
\* sizes in the entries, and the current directory is allocated.
THEOREM IntegrityHolds == Fat32Spec => []Integrity
<1>1. Fat32IInv => Integrity
  BY IntegrityFromLayout
<1>2. QED
  BY <1>1, Fat32Inv, PTL

\* WriteStores (fat32_open, fat32_write and fat32_read): in every state a command can
\* start in, cat after a write for which there was room prints the text, across
\* clusters, followed by what the file held beyond it, and no more.
THEOREM WriteStoresHolds == Fat32Spec => []WriteStores
<1>1. Fat32IInv => WriteStores
  BY WriteStoresFromLayout
<1>2. QED
  BY <1>1, Fat32Inv, PTL

=============================================================================
