-------------------------- MODULE PageTableRV_proofs --------------------------
(* Proofs about PageTableRV, for every number of frames, entries and pages:    *)
(* the tables are a tree, vmm_init maps the whole RAM, and vmm_map_page        *)
(* implements AddrSpace.                                                       *)
EXTENDS PageTableRV, PhysFrame_proofs

----------------------------------------------------------------------------
(* The inductive invariant.                                                *)

PTEs == [v : BOOLEAN, ppn : Nat, flags : SUBSET {R, W, X}]

MapCalls ==
  [op : {"map"}, va : Pages, ppn : Pages, flags : {PAGE_KERNEL_EXEC, PAGE_KERNEL_DATA},
   level : 0 .. 2, table : DOMAIN tables]

\* Types; before vmm_init there is only the empty kernel_page_table.
RVType ==
  /\ tables \in [DOMAIN tables -> [Indices -> PTEs]]
  /\ ROOT \in DOMAIN tables
  /\ DOMAIN tables \subseteq Frames \cup {ROOT}
  /\ stage \in {"boot", "ro", "rw", "uart", "on", "panic"}
  /\ addr \in Nat
  /\ others \subseteq handed
  /\ call # NoCall => call \in MapCalls
  /\ stage = "boot" => tables = [f \in {ROOT} |-> ZeroTable] /\ call = NoCall

Pte2(page) == tables[ROOT][Index(page, 2)]
Pte1(page) == tables[TableOf(Pte2(page))][Index(page, 1)]

\* The pointers that a vmm_walk in progress holds still lead where the walk from the
\* root would.
CallPath ==
  call # NoCall =>
    /\ call.level = 2 => call.table = ROOT
    /\ call.level = 1 => Pte2(call.va).v /\ call.table = TableOf(Pte2(call.va))
    /\ call.level = 0 => Pte2(call.va).v /\ Pte1(call.va).v /\ call.table = TableOf(Pte1(call.va))

KernelFlags(page) ==
  IF (page - KernPage) * PAGE_SIZE < RoBytes THEN PAGE_KERNEL_EXEC ELSE PAGE_KERNEL_DATA

\* How far vmm_init has come: the kernel's pages below this one have been asked for.
Upto == IF stage \in {"ro", "rw"} THEN addr ELSE RamEnd

Mapped(page) == vmm_virt_to_phys(page) = Valid(page, KernelFlags(page))
Asked(page) == call # NoCall /\ call.va = page

Covered ==
  stage \in {"ro", "rw", "uart", "on"} =>
    \A page \in KernPage .. Upto - 1 : Mapped(page) \/ Asked(page)

\* A call for a page of the kernel is vmm_init's, with the right flags.
RightCall ==
  call # NoCall /\ call.va \in KernPage .. KernPage + TotalFrames - 1 =>
    stage # "on" /\ call.ppn = call.va /\ call.flags = KernelFlags(call.va)

\* Where vmm_init's loops have their variable.
LoopBounds ==
  /\ stage \in {"ro", "rw"} => addr \in KernPage .. KernPage + TotalFrames
  /\ stage = "rw" => addr >= KernPage + RoPageEnd
  /\ stage = "uart" => addr >= UartPage

RVInv == IInv /\ RVType /\ TableTree /\ CallPath /\ LoopBounds /\ Covered /\ RightCall

----------------------------------------------------------------------------
(* Page numbers and their indices.                                         *)

\* Quotient and remainder are unique.
LEMMA DivisionUnique ==
  ASSUME NEW b \in Nat, NEW y \in Nat, NEW z \in Nat, NEW q \in Nat, NEW r \in Nat,
         z < b, r < b, b * y + z = b * q + r
  PROVE  y = q /\ z = r
<1>1. \A u, v, s, t \in Nat : s < b /\ t < b /\ b * u + s = b * v + t => ~ (u < v)
  <2> SUFFICES ASSUME NEW u \in Nat, NEW v \in Nat, NEW s \in Nat, NEW t \in Nat,
                      s < b, t < b, b * u + s = b * v + t, u < v
               PROVE  FALSE
    OBVIOUS
  <2>1. PICK k \in Nat : v = (u + 1) + k
    <3>1. v - (u + 1) \in Nat /\ v = (u + 1) + (v - (u + 1))
      OBVIOUS
    <3> QED BY <3>1
  <2>2. b * v = b * u + b + b * k /\ b * k >= 0
    BY <2>1
  <2> QED BY <2>2
<1>2. ~ (y < q) /\ ~ (q < y)
  BY <1>1
<1>3. y = q
  BY <1>2
<1> QED BY <1>3

\* Quotient and remainder.
LEMMA Division ==
  ASSUME NEW x \in Nat, NEW b \in Nat \ {0}
  PROVE  \E y \in Nat, z \in 0 .. b - 1 : y = x \div b /\ z = x % b /\ x = b * y + z
<1>1. PICK y, z : y = x \div b /\ z = x % b
  OBVIOUS
<1>2. y \in Nat /\ z \in 0 .. b - 1 /\ x = b * y + z
  BY <1>1
<1> QED BY <1>1, <1>2

\* Every index is one of a table.
LEMMA IndexType ==
  ASSUME NEW page \in Nat, NEW level \in 0 .. 2
  PROVE  Index(page, level) \in Indices
<1>1. PT_ENTRIES \in Nat \ {0} /\ PT_ENTRIES * PT_ENTRIES \in Nat \ {0}
  BY PagingAssumption
<1>2. page \div (PT_ENTRIES * PT_ENTRIES) \in Nat /\ page \div PT_ENTRIES \in Nat
  <2> DEFINE b == PT_ENTRIES * PT_ENTRIES
  <2>1. b \in Nat \ {0}
    BY <1>1
  <2> HIDE DEF b
  <2>2. page \div b \in Nat /\ page \div PT_ENTRIES \in Nat
    BY <1>1, <2>1
  <2> QED BY <2>2 DEF b
<1>3. \A x \in Nat : x % PT_ENTRIES \in Indices
  BY <1>1 DEF Indices
<1> QED BY <1>2, <1>3 DEF Index

\* A page is the number that its three indices spell.
LEMMA IndexSpells ==
  ASSUME NEW p \in Pages
  PROVE  p = PT_ENTRIES * (PT_ENTRIES * Index(p, 2) + Index(p, 1)) + Index(p, 0)
<1> DEFINE N == PT_ENTRIES
<1>1. N \in Nat \ {0} /\ N * N \in Nat \ {0} /\ p \in Nat /\ p < N * N * N
  BY PagingAssumption DEF Pages
<1>2. PICK a \in Nat, r0 \in 0 .. N - 1 : a = p \div N /\ r0 = p % N /\ p = N * a + r0
  BY <1>1, Division, Zenon
<1>3. PICK c \in Nat, r1 \in 0 .. N - 1 : c = a \div N /\ r1 = a % N /\ a = N * c + r1
  BY <1>1, Division, Zenon
<1>4. PICK e \in Nat, r2 \in 0 .. N * N - 1 :
        e = p \div (N * N) /\ r2 = p % (N * N) /\ p = (N * N) * e + r2
  BY <1>1, Division, Zenon
<1>5. PICK g \in Nat, r3 \in 0 .. N - 1 : g = e \div N /\ r3 = e % N /\ e = N * g + r3
  BY <1>1, Division, Zenon
<1>6. Index(p, 1) = r1 /\ Index(p, 0) = r0 /\ Index(p, 2) = r3
  <2>1. Index(p, 1) = a % N /\ Index(p, 0) = p % N /\ Index(p, 2) = e % N
    <3>1. Index(p, 1) = (p \div N) % N /\ Index(p, 0) = p % N /\ Index(p, 2) = (p \div (N * N)) % N
      BY DEF Index
    <3> QED BY <3>1, <1>2, <1>4, Zenon
  <2> QED BY <2>1, <1>2, <1>3, <1>5, Zenon
<1> HIDE DEF N
<1>a. /\ a \in Nat /\ c \in Nat /\ e \in Nat
      /\ r0 \in Nat /\ r0 < N /\ r1 \in Nat /\ r1 < N /\ r2 \in Nat /\ r2 < N * N
      /\ p = N * a + r0 /\ a = N * c + r1 /\ p = (N * N) * e + r2
  <2>1. p = N * a + r0 /\ a = N * c + r1 /\ p = (N * N) * e + r2
    BY <1>2, <1>3, <1>4, Zenon
  <2>2. \A m \in Nat : \A r \in 0 .. m - 1 : r \in Nat /\ r < m
    OBVIOUS
  <2>3. /\ r0 \in Nat /\ r0 < N /\ r1 \in Nat /\ r1 < N /\ r2 \in Nat /\ r2 < N * N
    BY <1>1, <2>2, Zenon
  <2> QED BY <2>1, <2>3, Zenon
<1>7. p = (N * N) * c + (N * r1 + r0)
  <2>1. p = N * (N * c + r1) + r0
    BY <1>a
  <2>2. N * (N * c + r1) = (N * N) * c + N * r1
    BY <1>1, <1>a
  <2> QED BY <1>1, <1>a, <2>1, <2>2
<1>8. N * r1 + r0 \in Nat /\ N * r1 + r0 < N * N
  <2>1. N * r1 <= N * (N - 1) /\ N * (N - 1) = N * N - N
    <3>1. PICK k \in Nat : N - 1 = r1 + k
      <4>1. (N - 1) - r1 \in Nat /\ N - 1 = r1 + ((N - 1) - r1)
        BY <1>1, <1>3
      <4> QED BY <4>1
    <3>2. N * (N - 1) = N * r1 + N * k /\ N * k >= 0
      BY <1>1, <1>3, <3>1
    <3>3. N * (N - 1) = N * N - N
      BY <1>1
    <3> QED BY <1>1, <1>3, <3>2, <3>3
  <2>2. N * r1 \in Nat
    BY <1>1, <1>3
  <2> QED BY <1>1, <1>2, <2>1, <2>2
<1>9. e = c
  <2> DEFINE b == N * N
             r == N * r1 + r0
  <2>1. b \in Nat /\ r \in Nat /\ r < b /\ r2 \in Nat /\ r2 < b /\ b * e + r2 = b * c + r
    BY <1>1, <1>a, <1>7, <1>8
  <2> HIDE DEF b, r
  <2> QED BY <2>1, DivisionUnique
<1>10. g = 0
  <2> SUFFICES ASSUME g # 0 PROVE FALSE
    OBVIOUS
  <2>1. PICK k \in Nat : g = 1 + k
    <3>1. g - 1 \in Nat /\ g = 1 + (g - 1)
      BY <1>5
    <3> QED BY <3>1
  <2>2. PICK m \in Nat : e = N + m
    <3>1. N * g = N + N * k /\ N * k \in Nat
      BY <1>1, <2>1
    <3>2. e = N + (N * k + r3) /\ N * k + r3 \in Nat
      BY <1>1, <1>5, <3>1
    <3> QED BY <3>2
  <2>3. (N * N) * e = (N * N) * N + (N * N) * m /\ (N * N) * m >= 0
    BY <1>1, <2>2
  <2> QED BY <1>1, <1>4, <2>3
<1>11. r3 = c
  BY <1>1, <1>3, <1>5, <1>9, <1>10
<1> QED BY <1>2, <1>3, <1>6, <1>11 DEF N

\* So two pages with the same three indices are the same page.
LEMMA IndexInjective ==
  ASSUME NEW p \in Pages, NEW q \in Pages,
         Index(p, 2) = Index(q, 2), Index(p, 1) = Index(q, 1), Index(p, 0) = Index(q, 0)
  PROVE  p = q
<1>1. p = PT_ENTRIES * (PT_ENTRIES * Index(q, 2) + Index(q, 1)) + Index(q, 0)
  BY IndexSpells
<1>2. q = PT_ENTRIES * (PT_ENTRIES * Index(q, 2) + Index(q, 1)) + Index(q, 0)
  BY IndexSpells
<1> QED BY <1>1, <1>2

----------------------------------------------------------------------------
(* The tree of tables.                                                     *)

Upper == {ROOT} \cup Level1

\* TableTree, entry by entry: what an upper table leads to, that nothing is led to
\* twice, that every table is led to.
TreeTargets ==
  \A t \in Upper, k \in Indices : tables[t][k].v => TableOf(tables[t][k]) \in TableFrames
TreeUnique ==
  \A t, u \in Upper, j, k \in Indices :
    tables[t][j].v /\ tables[u][k].v /\ TableOf(tables[t][j]) = TableOf(tables[u][k])
    => t = u /\ j = k
TreeReached ==
  \A f \in TableFrames :
    \E t \in Upper, k \in Indices : tables[t][k].v /\ f = TableOf(tables[t][k])
TreeOwned == TableFrames \subseteq handed \ others

\* Membership in the sets of tables and of upper entries.
LEMMA Level1Members ==
  \A f : f \in Level1 <=> \E k \in Indices : tables[ROOT][k].v /\ f = TableOf(tables[ROOT][k])
  BY DEF Level1

LEMMA Level0Members ==
  \A g : g \in Level0 <=>
    \E f \in Level1, k \in Indices : tables[f][k].v /\ g = TableOf(tables[f][k])
  BY DEF Level0

LEMMA UpperSlotMembers ==
  \A a : a \in UpperSlots <=>
    \E t \in Upper, k \in Indices : tables[t][k].v /\ a = <<t, k>>
  BY DEF UpperSlots, Slots, Upper

\* The root is no other table's frame.
LEMMA RootApart == ROOT \notin TableFrames /\ ROOT \notin Frames
  BY SizeAssumption DEF TableFrames, ROOT, Frames

\* The four parts are TableTree.
LEMMA TreeParts ==
  TableTree <=> TreeTargets /\ TreeUnique /\ TreeReached /\ TreeOwned
<1>1. ASSUME TableTree PROVE TreeTargets
  <2> SUFFICES ASSUME NEW t \in Upper, NEW k \in Indices, tables[t][k].v
               PROVE  TableOf(tables[t][k]) \in Level1 \cup Level0
    BY <1>1 DEF TreeTargets, TableTree
  <2>1. CASE t = ROOT
    BY <2>1, Level1Members, Zenon
  <2>2. CASE t \in Level1
    BY <2>2, Level0Members, Zenon
  <2> QED BY <2>1, <2>2 DEF Upper
<1>2. ASSUME TableTree PROVE TreeUnique
  <2> SUFFICES ASSUME NEW t \in Upper, NEW u \in Upper, NEW j \in Indices, NEW k \in Indices,
                      tables[t][j].v, tables[u][k].v,
                      TableOf(tables[t][j]) = TableOf(tables[u][k])
               PROVE  t = u /\ j = k
    BY DEF TreeUnique
  <2>1. <<t, j>> \in UpperSlots /\ <<u, k>> \in UpperSlots
    BY UpperSlotMembers, Zenon
  <2>2. <<t, j>>[1] = t /\ <<t, j>>[2] = j /\ <<u, k>>[1] = u /\ <<u, k>>[2] = k
    OBVIOUS
  <2>3. <<t, j>> = <<u, k>>
    <3>1. \A a, b \in UpperSlots : a # b =>
            TableOf(tables[a[1]][a[2]]) # TableOf(tables[b[1]][b[2]])
      BY <1>2, Zenon DEF TableTree
    <3> QED BY <2>1, <2>2, <3>1, Zenon
  <2> QED BY <2>3
<1>3. ASSUME TableTree PROVE TreeReached
  <2> SUFFICES ASSUME NEW f \in TableFrames
               PROVE  \E t \in Upper, k \in Indices : tables[t][k].v /\ f = TableOf(tables[t][k])
    BY DEF TreeReached
  <2>1. f \in Level1 \/ f \in Level0
    BY <1>3 DEF TableTree
  <2>2. CASE f \in Level1
    BY <2>2, Level1Members DEF Upper
  <2>3. CASE f \in Level0
    BY <2>3, Level0Members DEF Upper
  <2> QED BY <2>1, <2>2, <2>3
<1>4. ASSUME TreeTargets, TreeUnique, TreeReached, TreeOwned PROVE TableTree
  <2>1. Level1 \subseteq TableFrames
    <3> SUFFICES ASSUME NEW f \in Level1 PROVE f \in TableFrames
      OBVIOUS
    <3>1. PICK k \in Indices : tables[ROOT][k].v /\ f = TableOf(tables[ROOT][k])
      BY Level1Members, Zenon
    <3> QED BY <1>4, <3>1 DEF TreeTargets, Upper
  <2>2. Level0 \subseteq TableFrames /\ Level1 \cap Level0 = {}
    <3> SUFFICES ASSUME NEW g \in Level0 PROVE g \in TableFrames /\ g \notin Level1
      OBVIOUS
    <3>1. PICK f \in Level1, k \in Indices : tables[f][k].v /\ g = TableOf(tables[f][k])
      BY Level0Members, Zenon
    <3>2. g \in TableFrames
      BY <1>4, <3>1 DEF TreeTargets, Upper
    <3>3. ASSUME g \in Level1 PROVE FALSE
      <4>1. PICK j \in Indices : tables[ROOT][j].v /\ g = TableOf(tables[ROOT][j])
        BY <3>3, Level1Members, Zenon
      <4>2. f = ROOT
        BY <1>4, <3>1, <4>1 DEF TreeUnique, Upper
      <4> QED BY <2>1, <4>2, RootApart
    <3> QED BY <3>2, <3>3
  <2>3. TableFrames \subseteq Level1 \cup Level0
    <3> SUFFICES ASSUME NEW f \in TableFrames PROVE f \in Level1 \cup Level0
      OBVIOUS
    <3>1. PICK t \in Upper, k \in Indices : tables[t][k].v /\ f = TableOf(tables[t][k])
      BY <1>4 DEF TreeReached
    <3>2. CASE t = ROOT
      BY <3>1, <3>2, Level1Members, Zenon
    <3>3. CASE t \in Level1
      BY <3>1, <3>3, Level0Members, Zenon
    <3> QED BY <3>2, <3>3 DEF Upper
  <2>4. ASSUME NEW a \in UpperSlots, NEW b \in UpperSlots, a # b
        PROVE  TableOf(tables[a[1]][a[2]]) # TableOf(tables[b[1]][b[2]])
    <3>1. PICK t \in Upper, j \in Indices : tables[t][j].v /\ a = <<t, j>>
      BY UpperSlotMembers, Zenon
    <3>2. PICK u \in Upper, k \in Indices : tables[u][k].v /\ b = <<u, k>>
      BY UpperSlotMembers, Zenon
    <3>3. a[1] = t /\ a[2] = j /\ b[1] = u /\ b[2] = k
      BY <3>1, <3>2
    <3>4. TableOf(tables[t][j]) = TableOf(tables[u][k]) => t = u /\ j = k
      BY <1>4, <3>1, <3>2, Zenon DEF TreeUnique
    <3> QED BY <2>4, <3>1, <3>2, <3>3, <3>4, Zenon
  <2>5. TableFrames \subseteq handed \ others
    BY <1>4 DEF TreeOwned
  <2> QED BY <2>1, <2>2, <2>3, <2>4, <2>5 DEF TableTree
<1>5. ASSUME TableTree PROVE TreeOwned
  BY <1>5 DEF TableTree, TreeOwned
<1> QED BY <1>1, <1>2, <1>3, <1>4, <1>5

\* An upper table is the root or the frame of another one.
LEMMA UpperTables ==
  ASSUME RVType, TreeTargets
  PROVE  /\ Level1 \subseteq TableFrames /\ Upper \subseteq DOMAIN tables
         /\ TableFrames \subseteq Frames
<1>1. Level1 \subseteq TableFrames
  <2> SUFFICES ASSUME NEW f \in Level1 PROVE f \in TableFrames
    OBVIOUS
  <2>1. PICK k \in Indices : tables[ROOT][k].v /\ f = TableOf(tables[ROOT][k])
    BY Level1Members, Zenon
  <2> QED BY <2>1 DEF TreeTargets, Upper
<1> QED BY <1>1 DEF Upper, TableFrames, RVType

----------------------------------------------------------------------------
(* What a new table and a new entry leave alone.                           *)

\* A frame that becomes a table under entry k of table t.
Linked(t, k, f) ==
  /\ t \in DOMAIN tables /\ k \in Indices /\ f \in Frames \ DOMAIN tables
  /\ tables' = [NewTable(f) EXCEPT ![t][k] = Valid(KernPage + f, PAGE_TABLE_NODE)]

\* Every other entry keeps its value.
LEMMA LinkedElsewhere ==
  ASSUME RVType, NEW t, NEW k, NEW f, Linked(t, k, f),
         NEW x \in DOMAIN tables, NEW j \in Indices, x # t \/ j # k
  PROVE  tables'[x][j] = tables[x][j]
<1>1. PICK e : tables' = [NewTable(f) EXCEPT ![t][k] = e]
  BY DEF Linked
<1>2. /\ t \in DOMAIN tables /\ k \in Indices /\ f \notin DOMAIN tables
      /\ tables \in [DOMAIN tables -> [Indices -> PTEs]]
  BY DEF Linked, RVType
<1>3. DOMAIN NewTable(f) = DOMAIN tables \cup {f} /\ \A y \in DOMAIN tables : NewTable(f)[y] = tables[y]
  BY <1>2 DEF NewTable
<1>4. tables'[x] = IF x = t THEN [tables[t] EXCEPT ![k] = e] ELSE tables[x]
  BY <1>1, <1>2, <1>3
<1> QED BY <1>2, <1>4

\* The entry leads to the new table, and the new table is empty.
LEMMA LinkedEntries ==
  ASSUME RVType, NEW t, NEW k, NEW f, Linked(t, k, f)
  PROVE  /\ DOMAIN tables' = DOMAIN tables \cup {f}
         /\ tables' \in [DOMAIN tables' -> [Indices -> PTEs]]
         /\ tables'[t][k].v /\ TableOf(tables'[t][k]) = f
         /\ tables'[f] = ZeroTable /\ \A j \in Indices : ~ tables'[f][j].v
         /\ \A x \in DOMAIN tables : x # t => tables'[x] = tables[x]
         /\ \A j \in Indices : j # k => tables'[t][j] = tables[t][j]
         /\ f # ROOT
<1>1. PICK e : e = Valid(KernPage + f, PAGE_TABLE_NODE)
  OBVIOUS
<1>2. e \in PTEs /\ e.v /\ TableOf(e) = f
  <2>1. KernPage \in Nat /\ f \in Nat /\ KernPage + f \in Nat
    BY PagingAssumption DEF Linked, Frames
  <2>2. e = [v |-> TRUE, ppn |-> KernPage + f, flags |-> {}]
    BY <1>1 DEF Valid, PAGE_TABLE_NODE
  <2>3. e.ppn - KernPage = f
    BY <2>1, <2>2
  <2> QED BY <2>1, <2>2, <2>3 DEF PTEs, TableOf
<1>3. ZeroTable \in [Indices -> PTEs] /\ \A j \in Indices : ~ ZeroTable[j].v
  BY DEF ZeroTable, Invalid, PTEs
<1>4. tables' = [NewTable(f) EXCEPT ![t][k] = e]
  BY <1>1 DEF Linked
<1>5. /\ t \in DOMAIN tables /\ k \in Indices /\ f \notin DOMAIN tables /\ f \in Frames
      /\ tables \in [DOMAIN tables -> [Indices -> PTEs]]
  BY DEF Linked, RVType
<1>6. /\ NewTable(f) \in [DOMAIN tables \cup {f} -> [Indices -> PTEs]]
      /\ NewTable(f)[f] = ZeroTable
      /\ \A x \in DOMAIN tables : NewTable(f)[x] = tables[x]
  BY <1>3, <1>5 DEF NewTable
<1>7. /\ DOMAIN tables' = DOMAIN tables \cup {f}
      /\ tables'[t] = [tables[t] EXCEPT ![k] = e]
      /\ tables'[f] = ZeroTable
      /\ \A x \in DOMAIN tables : x # t => tables'[x] = tables[x]
  BY <1>4, <1>5, <1>6
<1>8. /\ tables'[t][k] = e
      /\ \A j \in Indices : j # k => tables'[t][j] = tables[t][j]
  BY <1>5, <1>7
<1>9. tables' \in [DOMAIN tables' -> [Indices -> PTEs]]
  <2>1. [tables[t] EXCEPT ![k] = e] \in [Indices -> PTEs]
    BY <1>2, <1>5
  <2>2. \A x \in DOMAIN tables' : tables'[x] \in [Indices -> PTEs]
    BY <1>3, <1>5, <1>7, <2>1
  <2>3. tables' = [x \in DOMAIN tables' |-> tables'[x]]
    BY <1>4, <1>6, <1>7
  <2> QED BY <2>2, <2>3
<1> QED BY <1>2, <1>3, <1>5, <1>7, <1>8, <1>9, RootApart


\* The tree stays one when a free frame is put under an empty entry of an upper table,
\* provided that it is the only one that may become an upper table.
LEMMA LinkKeepsTree ==
  ASSUME RVType, TableTree, NEW t \in Upper, NEW k, NEW f, Linked(t, k, f), ~ tables[t][k].v,
         Upper \subseteq Upper', Upper' \subseteq Upper \cup {f},
         handed' = handed \cup {f}, others' = others, f \notin others
  PROVE  TableTree'
<1>1. DOMAIN tables' = DOMAIN tables \cup {f} /\ f # ROOT
  BY LinkedEntries
<1>2. tables'[t][k].v /\ TableOf(tables'[t][k]) = f
  BY LinkedEntries
<1>3. \A j \in Indices : ~ tables'[f][j].v
  BY LinkedEntries
<1>4. /\ TreeTargets /\ TreeUnique /\ TreeReached /\ TreeOwned
      /\ k \in Indices /\ f \notin DOMAIN tables
  BY TreeParts DEF Linked
<1>5. Level1 \subseteq TableFrames /\ Upper \subseteq DOMAIN tables
  BY <1>4, UpperTables
<1>6. TableFrames' = TableFrames \cup {f} /\ f \notin Upper /\ f \notin TableFrames
  BY <1>1, <1>4, <1>5 DEF TableFrames, ROOT
<1>7. \A u \in Upper, j \in Indices : u # t \/ j # k => tables'[u][j] = tables[u][j]
  <2>1. \A x \in DOMAIN tables, j \in Indices : x # t \/ j # k => tables'[x][j] = tables[x][j]
    BY LinkedElsewhere
  <2> QED BY <1>5, <2>1
<1>8. \A u \in Upper', j \in Indices :
        tables'[u][j].v =>
          \/ u = t /\ j = k /\ TableOf(tables'[u][j]) = f
          \/ u \in Upper /\ tables'[u][j] = tables[u][j] /\ tables[u][j].v
             /\ TableOf(tables'[u][j]) \in TableFrames
  BY <1>2, <1>3, <1>4, <1>7 DEF TreeTargets
<1>9. TreeTargets'
  BY <1>6, <1>8 DEF TreeTargets
<1>10. TreeUnique'
  BY <1>4, <1>6, <1>8 DEF TreeUnique
<1>11. TreeReached'
  <2> SUFFICES ASSUME NEW g \in TableFrames'
               PROVE  \E u \in Upper', j \in Indices : tables'[u][j].v /\ g = TableOf(tables'[u][j])
    BY DEF TreeReached
  <2>1. CASE g = f
    BY <1>2, <1>4, <2>1
  <2>2. CASE g \in TableFrames
    <3>1. PICK u \in Upper, j \in Indices : tables[u][j].v /\ g = TableOf(tables[u][j])
      BY <1>4, <2>2 DEF TreeReached
    <3>2. tables'[u][j] = tables[u][j]
      BY <1>7, <3>1
    <3> QED BY <3>1, <3>2
  <2> QED BY <1>6, <2>1, <2>2
<1>12. TreeOwned'
  BY <1>4, <1>6 DEF TreeOwned
<1> QED BY <1>9, <1>10, <1>11, <1>12, TreeParts, PTL

\* A table under the root becomes an upper one.
LEMMA RootLinked ==
  ASSUME RVType, TableTree, NEW k, NEW f, Linked(ROOT, k, f), ~ tables[ROOT][k].v,
         handed' = handed \cup {f}, others' = others, f \notin others
  PROVE  TableTree'
<1>1. tables'[ROOT][k].v /\ TableOf(tables'[ROOT][k]) = f /\ k \in Indices
  <2>1. tables'[ROOT][k].v /\ TableOf(tables'[ROOT][k]) = f
    BY LinkedEntries
  <2> QED BY <2>1 DEF Linked
<1>2. \A j \in Indices : j # k => tables'[ROOT][j] = tables[ROOT][j]
  BY LinkedEntries
<1>3. \A g : g \in Level1' <=> \E j \in Indices : tables'[ROOT][j].v /\ g = TableOf(tables'[ROOT][j])
  BY DEF Level1
<1>4. ASSUME NEW g \in Level1' PROVE g \in Level1 \cup {f}
  <2>1. PICK j \in Indices : tables'[ROOT][j].v /\ g = TableOf(tables'[ROOT][j])
    BY <1>3, <1>4, Zenon
  <2>2. CASE j = k
    BY <1>1, <2>1, <2>2
  <2>3. CASE j # k
    <3>1. tables'[ROOT][j] = tables[ROOT][j]
      BY <1>2, <2>3
    <3> QED BY <2>1, <3>1, Level1Members, Zenon
  <2> QED BY <2>2, <2>3
<1>5. ASSUME NEW g \in Level1 PROVE g \in Level1'
  <2>1. PICK j \in Indices : tables[ROOT][j].v /\ g = TableOf(tables[ROOT][j])
    BY Level1Members, Zenon
  <2>2. tables'[ROOT][j] = tables[ROOT][j]
    BY <1>2, <2>1
  <2> QED BY <1>3, <2>1, <2>2, Zenon
<1>6. ROOT \in Upper /\ Upper \subseteq Upper' /\ Upper' \subseteq Upper \cup {f}
  BY <1>4, <1>5 DEF Upper, ROOT
<1> QED BY <1>6, LinkKeepsTree

\* A table under another one does not.
LEMMA MiddleLinked ==
  ASSUME RVType, TableTree, NEW t \in Level1, NEW k, NEW f, Linked(t, k, f), ~ tables[t][k].v,
         handed' = handed \cup {f}, others' = others, f \notin others
  PROVE  TableTree'
<1>1. t # ROOT
  BY TreeParts, UpperTables, RootApart
<1>2. tables'[ROOT] = tables[ROOT]
  <2>1. \A x \in DOMAIN tables : x # t => tables'[x] = tables[x]
    BY LinkedEntries
  <2> QED BY <1>1, <2>1 DEF RVType
<1>3. Level1' = Level1
  BY <1>2 DEF Level1, ROOT, TableOf
<1>4. t \in Upper /\ Upper' = Upper
  BY <1>3 DEF Upper, ROOT
<1> QED BY <1>4, LinkKeepsTree

\* An entry of a table of the last level is none of the tree's.
LEMMA EntryWritten ==
  ASSUME RVType, TableTree, NEW t \in Level0, NEW k \in Indices, NEW e \in PTEs,
         tables' = [tables EXCEPT ![t][k] = e], handed' = handed, others' = others
  PROVE  TableTree'
<1>1. /\ TreeTargets /\ TreeUnique /\ TreeReached /\ TreeOwned
      /\ t \in TableFrames /\ t \notin Upper
  BY TreeParts, RootApart DEF TableTree, Upper
<1>2. Upper \subseteq DOMAIN tables
  BY <1>1, UpperTables
<1>3. DOMAIN tables' = DOMAIN tables /\ \A u \in Upper : tables'[u] = tables[u]
  BY <1>1, <1>2 DEF RVType
<1>4. tables'[ROOT] = tables[ROOT]
  BY <1>3 DEF Upper
<1>5. Level1' = Level1
  BY <1>4 DEF Level1, ROOT, TableOf
<1>6. Upper' = Upper /\ TableFrames' = TableFrames
  BY <1>3, <1>5 DEF Upper, TableFrames, ROOT
<1>7. TreeTargets'
  BY <1>1, <1>3, <1>6 DEF TreeTargets
<1>8. TreeUnique'
  BY <1>1, <1>3, <1>6 DEF TreeUnique
<1>9. TreeReached'
  BY <1>1, <1>3, <1>6 DEF TreeReached
<1>10. TreeOwned'
  BY <1>1, <1>6 DEF TreeOwned
<1> QED BY <1>7, <1>8, <1>9, <1>10, TreeParts, PTL

----------------------------------------------------------------------------
(* The translation.                                                        *)

Pte0(page) == tables[TableOf(Pte1(page))][Index(page, 0)]

\* Where the entries on a page's way are.
LEMMA WalkEntries ==
  RVType /\ TableTree =>
    \A page \in Pages :
      /\ \A level \in 0 .. 2 : Index(page, level) \in Indices
      /\ Pte2(page).v => TableOf(Pte2(page)) \in Level1
      /\ Pte2(page).v /\ Pte1(page).v => TableOf(Pte1(page)) \in Level0
<1> SUFFICES ASSUME RVType, TableTree, NEW page \in Pages
             PROVE  /\ \A level \in 0 .. 2 : Index(page, level) \in Indices
                    /\ Pte2(page).v => TableOf(Pte2(page)) \in Level1
                    /\ Pte2(page).v /\ Pte1(page).v => TableOf(Pte1(page)) \in Level0
  OBVIOUS
<1>1. \A level \in 0 .. 2 : Index(page, level) \in Indices
  BY IndexType DEF Pages
<1>2. Index(page, 2) \in Indices /\ Index(page, 1) \in Indices
  BY <1>1
<1>3. Pte2(page).v => TableOf(Pte2(page)) \in Level1
  BY <1>2, Level1Members, Zenon DEF Pte2
<1>4. Pte2(page).v /\ Pte1(page).v => TableOf(Pte1(page)) \in Level0
  BY <1>2, <1>3, Level0Members, Zenon DEF Pte1
<1> QED BY <1>1, <1>3, <1>4

\* vmm_virt_to_phys in terms of the three entries.
Translates ==
  \A page \in Pages :
    vmm_virt_to_phys(page) =
      IF Pte2(page).v /\ Pte1(page).v /\ Pte0(page).v THEN Pte0(page) ELSE Invalid

LEMMA TranslateEntries == RVType /\ TableTree => Translates
<1> SUFFICES ASSUME RVType, TableTree, NEW page \in Pages
             PROVE  vmm_virt_to_phys(page) =
                      IF Pte2(page).v /\ Pte1(page).v /\ Pte0(page).v THEN Pte0(page) ELSE Invalid
  BY DEF Translates
<1>1. LookupTable(page) = IF Pte2(page).v /\ Pte1(page).v THEN TableOf(Pte1(page)) ELSE NoFrame
  BY DEF LookupTable, Pte2, Pte1
<1>2. CASE Pte2(page).v /\ Pte1(page).v
  <2>1. TableOf(Pte1(page)) \in Frames
    BY <1>2, WalkEntries, TreeParts, UpperTables DEF TableTree
  <2>2. LookupTable(page) = TableOf(Pte1(page)) /\ LookupTable(page) # NoFrame
    BY <1>1, <1>2, <2>1 DEF Frames, NoFrame
  <2> QED BY <1>2, <2>2 DEF vmm_virt_to_phys, Pte0
<1>3. CASE ~ (Pte2(page).v /\ Pte1(page).v)
  <2>1. LookupTable(page) = NoFrame
    BY <1>1, <1>3
  <2> QED BY <1>3, <2>1 DEF vmm_virt_to_phys
<1> QED BY <1>2, <1>3

\* A new table under the root changes no translation.
LEMMA RootLinkTranslates ==
  ASSUME RVType, TableTree, RVType', TableTree', NEW k, NEW f, Linked(ROOT, k, f),
         ~ tables[ROOT][k].v, NEW page \in Pages
  PROVE  vmm_virt_to_phys(page)' = vmm_virt_to_phys(page)
<1>1. /\ vmm_virt_to_phys(page) =
           IF Pte2(page).v /\ Pte1(page).v /\ Pte0(page).v THEN Pte0(page) ELSE Invalid
      /\ Index(page, 0) \in Indices /\ Index(page, 1) \in Indices /\ Index(page, 2) \in Indices
      /\ Pte2(page).v => TableOf(Pte2(page)) \in Level1
      /\ Pte2(page).v /\ Pte1(page).v => TableOf(Pte1(page)) \in Level0
  BY TranslateEntries, WalkEntries DEF Translates
<1>2. (vmm_virt_to_phys(page) =
           IF Pte2(page).v /\ Pte1(page).v /\ Pte0(page).v THEN Pte0(page) ELSE Invalid)'
  <2>1. Translates'
    BY TranslateEntries, PTL
  <2> QED BY <2>1 DEF Translates, Pages
<1>3. ROOT \in DOMAIN tables /\ Level1 \cup Level0 = TableFrames /\ TableFrames \subseteq DOMAIN tables
      /\ ROOT \notin TableFrames /\ k \in Indices
  BY RootApart DEF RVType, TableTree, TableFrames, Linked
<1>4. CASE Index(page, 2) = k
  <2>1. ~ Pte2(page).v
    BY <1>4 DEF Pte2
  <2>2. TableOf(tables'[ROOT][k]) = f
    BY LinkedEntries
  <2>3. \A j \in Indices : ~ tables'[f][j].v
    BY LinkedEntries
  <2>4. ~ Pte1(page)'.v
    <3>1. Pte1(page)' = tables'[f][Index(page, 1)]
      BY <1>4, <2>2 DEF Pte1, Pte2, TableOf, Index, ROOT
    <3> QED BY <1>1, <2>3, <3>1
  <2> QED BY <1>1, <1>2, <2>1, <2>4 DEF Invalid
<1>5. CASE Index(page, 2) # k
  <2>1. Pte2(page)' = Pte2(page)
    <3>1. tables'[ROOT][Index(page, 2)] = tables[ROOT][Index(page, 2)]
      BY <1>1, <1>3, <1>5, LinkedElsewhere
    <3> QED BY <3>1 DEF Pte2, Index, ROOT
  <2>2. ASSUME Pte2(page).v
        PROVE  Pte1(page)' = Pte1(page)
    <3>1. TableOf(Pte2(page)) \in DOMAIN tables /\ TableOf(Pte2(page)) # ROOT
      BY <1>1, <1>3, <2>2
    <3>2. tables'[TableOf(Pte2(page))][Index(page, 1)] = Pte1(page)
      BY <1>1, <3>1, LinkedElsewhere DEF Pte1
    <3> QED BY <2>1, <3>2 DEF Pte1, TableOf, Index
  <2>3. ASSUME Pte2(page).v, Pte1(page).v
        PROVE  Pte0(page)' = Pte0(page)
    <3>1. TableOf(Pte1(page)) \in DOMAIN tables /\ TableOf(Pte1(page)) # ROOT
      BY <1>1, <1>3, <2>3
    <3>2. tables'[TableOf(Pte1(page))][Index(page, 0)] = Pte0(page)
      BY <1>1, <3>1, LinkedElsewhere DEF Pte0
    <3> QED BY <2>2, <2>3, <3>2 DEF Pte0, TableOf, Index
  <2> QED BY <1>1, <1>2, <2>1, <2>2, <2>3 DEF Invalid
<1> QED BY <1>4, <1>5

\* Nor does one under a middle table.
LEMMA MiddleLinkTranslates ==
  ASSUME RVType, TableTree, RVType', TableTree', NEW t \in Level1, NEW k, NEW f, Linked(t, k, f),
         ~ tables[t][k].v, NEW page \in Pages
  PROVE  vmm_virt_to_phys(page)' = vmm_virt_to_phys(page)
<1>1. /\ vmm_virt_to_phys(page) =
           IF Pte2(page).v /\ Pte1(page).v /\ Pte0(page).v THEN Pte0(page) ELSE Invalid
      /\ Index(page, 0) \in Indices /\ Index(page, 1) \in Indices /\ Index(page, 2) \in Indices
      /\ Pte2(page).v => TableOf(Pte2(page)) \in Level1
      /\ Pte2(page).v /\ Pte1(page).v => TableOf(Pte1(page)) \in Level0
  BY TranslateEntries, WalkEntries DEF Translates
<1>2. (vmm_virt_to_phys(page) =
           IF Pte2(page).v /\ Pte1(page).v /\ Pte0(page).v THEN Pte0(page) ELSE Invalid)'
  <2>1. Translates'
    BY TranslateEntries, PTL
  <2> QED BY <2>1 DEF Translates, Pages
<1>3. /\ ROOT \in DOMAIN tables /\ Level1 \cup Level0 = TableFrames /\ TableFrames \subseteq DOMAIN tables
      /\ Level1 \cap Level0 = {} /\ ROOT \notin TableFrames /\ k \in Indices
  BY RootApart DEF RVType, TableTree, TableFrames, Linked
<1>4. Pte2(page)' = Pte2(page)
  <2>1. tables'[ROOT][Index(page, 2)] = tables[ROOT][Index(page, 2)]
    BY <1>1, <1>3, LinkedElsewhere
  <2> QED BY <2>1 DEF Pte2, Index, ROOT
<1>5. CASE Pte2(page).v /\ TableOf(Pte2(page)) = t /\ Index(page, 1) = k
  <2>1. ~ Pte1(page).v
    BY <1>5 DEF Pte1
  <2>2. TableOf(tables'[t][k]) = f
    BY LinkedEntries
  <2>3. \A j \in Indices : ~ tables'[f][j].v
    BY LinkedEntries
  <2>4. ~ Pte0(page)'.v
    <3>1. Pte1(page)' = tables'[t][k]
      BY <1>4, <1>5 DEF Pte1, TableOf, Index
    <3>2. Pte0(page)' = tables'[f][Index(page, 0)]
      BY <2>2, <3>1 DEF Pte0, TableOf, Index
    <3> QED BY <1>1, <2>3, <3>2
  <2> QED BY <1>1, <1>2, <2>1, <2>4 DEF Invalid
<1>6. CASE ~ (Pte2(page).v /\ TableOf(Pte2(page)) = t /\ Index(page, 1) = k)
  <2>1. ASSUME Pte2(page).v
        PROVE  Pte1(page)' = Pte1(page)
    <3>1. TableOf(Pte2(page)) \in DOMAIN tables
      BY <1>1, <1>3, <2>1
    <3>2. tables'[TableOf(Pte2(page))][Index(page, 1)] = Pte1(page)
      BY <1>1, <1>6, <2>1, <3>1, LinkedElsewhere DEF Pte1
    <3> QED BY <1>4, <3>2 DEF Pte1, TableOf, Index
  <2>2. ASSUME Pte2(page).v, Pte1(page).v
        PROVE  Pte0(page)' = Pte0(page)
    <3>1. TableOf(Pte1(page)) \in DOMAIN tables /\ TableOf(Pte1(page)) # t
      BY <1>1, <1>3, <2>2
    <3>2. tables'[TableOf(Pte1(page))][Index(page, 0)] = Pte0(page)
      BY <1>1, <3>1, LinkedElsewhere DEF Pte0
    <3> QED BY <2>1, <2>2, <3>2 DEF Pte0, TableOf, Index
  <2> QED BY <1>1, <1>2, <1>4, <2>1, <2>2 DEF Invalid
<1> QED BY <1>5, <1>6

\* The entry that vmm_map_page writes is the page's own: no other page's way ends there.
LEMMA WriteTranslates ==
  ASSUME RVType, TableTree, RVType', TableTree', NEW va \in Pages, NEW e \in PTEs, e.v,
         Pte2(va).v, Pte1(va).v,
         tables' = [tables EXCEPT ![TableOf(Pte1(va))][Index(va, 0)] = e],
         NEW page \in Pages
  PROVE  vmm_virt_to_phys(page)' = IF page = va THEN e ELSE vmm_virt_to_phys(page)
<1>1. \A p \in Pages :
        /\ vmm_virt_to_phys(p) =
             IF Pte2(p).v /\ Pte1(p).v /\ Pte0(p).v THEN Pte0(p) ELSE Invalid
        /\ Index(p, 0) \in Indices /\ Index(p, 1) \in Indices /\ Index(p, 2) \in Indices
        /\ Pte2(p).v => TableOf(Pte2(p)) \in Level1
        /\ Pte2(p).v /\ Pte1(p).v => TableOf(Pte1(p)) \in Level0
  BY TranslateEntries, WalkEntries DEF Translates
<1>2. (vmm_virt_to_phys(page) =
           IF Pte2(page).v /\ Pte1(page).v /\ Pte0(page).v THEN Pte0(page) ELSE Invalid)'
  <2>1. Translates'
    BY TranslateEntries, PTL
  <2> QED BY <2>1 DEF Translates, Pages
<1>3. /\ ROOT \in DOMAIN tables /\ Level1 \cup Level0 = TableFrames /\ TableFrames \subseteq DOMAIN tables
      /\ Level1 \cap Level0 = {} /\ ROOT \notin TableFrames
  BY RootApart DEF RVType, TableTree, TableFrames
<1>4. PICK t, k : t = TableOf(Pte1(va)) /\ k = Index(va, 0)
  OBVIOUS
<1>5. t \in Level0 /\ t \in DOMAIN tables /\ k \in Indices
  BY <1>1, <1>3, <1>4
<1>6. /\ tables'[t][k] = e
      /\ \A x \in DOMAIN tables, j \in Indices : x # t \/ j # k => tables'[x][j] = tables[x][j]
  <2>1. tables' = [tables EXCEPT ![t][k] = e]
    BY <1>4
  <2>2. tables'[t] = [tables[t] EXCEPT ![k] = e] /\ \A x \in DOMAIN tables : x # t => tables'[x] = tables[x]
    BY <1>5, <2>1 DEF RVType
  <2>3. tables[t] \in [Indices -> PTEs]
    BY <1>5 DEF RVType
  <2> QED BY <1>5, <2>2, <2>3
<1>7. Pte2(page)' = Pte2(page)
  <2>1. tables'[ROOT][Index(page, 2)] = tables[ROOT][Index(page, 2)]
    BY <1>1, <1>3, <1>5, <1>6
  <2> QED BY <2>1 DEF Pte2, Index, ROOT
<1>8. ASSUME Pte2(page).v
      PROVE  Pte1(page)' = Pte1(page)
  <2>1. TableOf(Pte2(page)) \in DOMAIN tables /\ TableOf(Pte2(page)) # t
    BY <1>1, <1>3, <1>5, <1>8
  <2>2. tables'[TableOf(Pte2(page))][Index(page, 1)] = Pte1(page)
    BY <1>1, <1>6, <2>1 DEF Pte1
  <2> QED BY <1>7, <2>2 DEF Pte1, TableOf, Index
<1>9. ASSUME Pte2(page).v, Pte1(page).v
      PROVE  Pte0(page)' = IF page = va THEN e ELSE Pte0(page)
  <2>1. TableOf(Pte1(page)) \in DOMAIN tables
    BY <1>1, <1>3, <1>9
  <2>2. Pte0(page)' = tables'[TableOf(Pte1(page))][Index(page, 0)]
    BY <1>8, <1>9 DEF Pte0, TableOf, Index
  <2>3. CASE page = va
    BY <1>4, <1>6, <2>2, <2>3
  <2>4. CASE page # va
    <3>1. ASSUME TableOf(Pte1(page)) = t, Index(page, 0) = k PROVE FALSE
      <4>1. TreeUnique
        BY TreeParts
      <4>2. TableOf(Pte2(page)) \in Upper /\ TableOf(Pte2(va)) \in Upper /\ ROOT \in Upper
        BY <1>1, <1>9 DEF Upper
      <4>3. TableOf(Pte2(page)) = TableOf(Pte2(va)) /\ Index(page, 1) = Index(va, 1)
        BY <1>1, <1>4, <1>9, <3>1, <4>1, <4>2 DEF TreeUnique, Pte1
      <4>4. Index(page, 2) = Index(va, 2)
        BY <1>1, <1>9, <4>1, <4>2, <4>3 DEF TreeUnique, Pte2
      <4> QED BY <1>4, <2>4, <3>1, <4>3, <4>4, IndexInjective
    <3>2. tables'[TableOf(Pte1(page))][Index(page, 0)] = Pte0(page)
      BY <1>1, <1>6, <2>1, <3>1 DEF Pte0
    <3> QED BY <2>2, <2>4, <3>2
  <2> QED BY <2>3, <2>4
<1>10. CASE page = va
  BY <1>2, <1>7, <1>8, <1>9, <1>10
<1>11. CASE page # va
  BY <1>1, <1>2, <1>7, <1>8, <1>9, <1>11 DEF Invalid
<1> QED BY <1>10, <1>11

----------------------------------------------------------------------------
(* The steps.                                                              *)

\* Steps of the frame allocator under the page table's.
LEMMA FramesStep == IInv /\ [RVNext]_rvVars => IInv'
<1> SUFFICES ASSUME IInv, [RVNext]_rvVars PROVE [Next]_vars
  BY NextIInv
<1>1. CASE UNCHANGED vars
  BY <1>1
<1>2. CASE BootStep
  BY <1>2 DEF BootStep, Next
<1>3. ASSUME pmm_alloc_frame(NextFrame) PROVE Next
  BY <1>3, AllocFacts DEF pmm_alloc_frame
<1>4. CASE vmm_walk
  BY <1>1, <1>3, <1>4 DEF vmm_walk
<1>5. CASE other_alloc
  BY <1>3, <1>5 DEF other_alloc
<1>6. CASE vmm_init
  BY <1>1, <1>6 DEF vmm_init
<1>7. CASE vmm_init_loop
  BY <1>1, <1>7 DEF vmm_init_loop
<1>8. CASE vmm_map_page_write
  BY <1>1, <1>8 DEF vmm_map_page_write
<1>9. ASSUME NEW page \in UserPages, NEW target \in UserPages,
             NEW flags \in {PAGE_KERNEL_EXEC, PAGE_KERNEL_DATA}, vmm_map_page(page, target, flags)
      PROVE  [Next]_vars
  BY <1>1, <1>9 DEF vmm_map_page
<1>10. CASE UNCHANGED rvVars
  BY <1>1, <1>10 DEF rvVars, vars
<1> QED BY <1>2, <1>4, <1>5, <1>6, <1>7, <1>8, <1>9, <1>10 DEF RVNext

\* vmm_init keeps the table it finds, which is still empty.
LEMMA InitKeepsTable ==
  ASSUME RVType, vmm_init
  PROVE  tables' = tables /\ call = NoCall
<1>1. tables = [f \in {ROOT} |-> ZeroTable] /\ call = NoCall
  BY DEF vmm_init, RVType
<1> QED BY <1>1 DEF vmm_init

\* vmm_walk, by what it finds.
WalkDown ==
  /\ tables[call.table][Index(call.va, call.level)].v
  /\ call' = [call EXCEPT !.level = @ - 1,
                !.table = TableOf(tables[call.table][Index(call.va, call.level)])]
  /\ UNCHANGED <<vars, tables, stage>>

WalkLinks(f) ==
  /\ ~ tables[call.table][Index(call.va, call.level)].v
  /\ Linked(call.table, Index(call.va, call.level), f)
  /\ call' = [call EXCEPT !.level = @ - 1, !.table = f]
  /\ handed' = handed \cup {f} /\ f \notin others
  /\ UNCHANGED stage

\* One of the three happens, and the frame that is linked was nobody's.
LEMMA WalkCases ==
  ASSUME IInv, RVType, TableTree, vmm_walk
  PROVE  /\ call # NoCall /\ call \in MapCalls /\ call.level > 0
         /\ UNCHANGED <<addr, others>>
         /\ WalkDown \/ (WalkFailed /\ handed' = handed) \/ \E f : WalkLinks(f)
<1>1. call # NoCall /\ call \in MapCalls /\ call.level > 0 /\ UNCHANGED <<addr, others>>
  BY DEF vmm_walk, NoCall, RVType
<1>2. Index(call.va, call.level) \in Indices
  BY <1>1, IndexType DEF MapCalls, Pages
<1>3. CASE tables[call.table][Index(call.va, call.level)].v
  BY <1>1, <1>3 DEF vmm_walk, WalkDown
<1>4. CASE ~ tables[call.table][Index(call.va, call.level)].v
  <2>1. pmm_alloc_frame(NextFrame)
    BY <1>4 DEF vmm_walk
  <2>2. /\ NextFrame \in Frames \cup {NoFrame} /\ NextFrame \notin handed
        /\ handed' = handed \cup ({NextFrame} \ {NoFrame})
    BY <2>1, AllocFacts DEF pmm_alloc_frame
  <2>3. CASE NextFrame = NoFrame
    BY <1>1, <1>4, <2>2, <2>3 DEF vmm_walk
  <2>4. CASE NextFrame # NoFrame
    <3>1. NextFrame \in Frames \ DOMAIN tables /\ NextFrame \notin others
      BY <2>2, <2>4, RootApart DEF TableTree, TableFrames, RVType
    <3>2. Linked(call.table, Index(call.va, call.level), NextFrame)
      BY <1>1, <1>2, <1>4, <2>4, <3>1 DEF vmm_walk, LinkTable, Linked, MapCalls
    <3>3. WalkLinks(NextFrame)
      BY <1>4, <2>2, <2>4, <3>1, <3>2 DEF vmm_walk, WalkLinks
    <3> QED BY <1>1, <3>3
  <2> QED BY <2>3, <2>4
<1> QED BY <1>1, <1>3, <1>4

----------------------------------------------------------------------------
(* Types and the way down.                                                 *)

\* Steps that leave the tables and the frames others have alone.
LEMMA SameTables ==
  ASSUME UNCHANGED tables
  PROVE  /\ \A page : /\ vmm_virt_to_phys(page)' = vmm_virt_to_phys(page)
                      /\ Pte2(page)' = Pte2(page) /\ Pte1(page)' = Pte1(page)
         /\ TableFrames' = TableFrames /\ Level1' = Level1 /\ Level0' = Level0
         /\ UpperSlots' = UpperSlots
  BY DEF vmm_virt_to_phys, LookupTable, Pte2, Pte1, TableOf, Index, ROOT, TableFrames, Level1,
         Level0, UpperSlots, Slots, Indices, NoFrame, Invalid

\* The tree depends on the tables and on who has their frames.
LEMMA SameTree ==
  ASSUME TableTree, UNCHANGED tables, TableFrames \subseteq handed' \ others'
  PROVE  TableTree'
<1>1. /\ TableFrames' = TableFrames /\ Level1' = Level1 /\ Level0' = Level0
      /\ UpperSlots' = UpperSlots
  BY SameTables
<1> QED BY <1>1 DEF TableTree, TableOf

\* The tables of a call in progress.
LEMMA CallTables ==
  ASSUME RVType, TableTree, CallPath, call # NoCall
  PROVE  /\ call \in MapCalls /\ Index(call.va, call.level) \in Indices
         /\ call.level = 2 => call.table = ROOT
         /\ call.level = 1 => call.table \in Level1
         /\ call.level = 0 => call.table \in Level0
<1>1. call \in MapCalls /\ call.va \in Pages /\ call.level \in 0 .. 2
  BY DEF RVType, MapCalls
<1>2. Index(call.va, call.level) \in Indices
  BY <1>1, IndexType DEF Pages
<1> QED BY <1>1, <1>2, WalkEntries DEF CallPath

\* Each target that is asked for is a page.
LEMMA AddressesArePages ==
  /\ KernPage .. KernPage + TotalFrames - 1 \subseteq Pages
  /\ UartPage \in Pages /\ UartPage + 1 \in Pages
  /\ UserPages \subseteq Pages
  BY LayoutAssumption, PagingAssumption, SizeAssumption DEF Pages

\* The first state.
LEMMA InitType == RVInit => IInv /\ RVType /\ TableTree /\ CallPath
<1> SUFFICES ASSUME RVInit PROVE IInv /\ RVType /\ TableTree /\ CallPath
  OBVIOUS
<1>1. IInv
  BY InitIInv DEF RVInit
<1>2. tables = [f \in {ROOT} |-> ZeroTable] /\ call = NoCall /\ others = {} /\ handed = {}
  BY DEF RVInit, Init
<1>3. ZeroTable \in [Indices -> PTEs] /\ \A j \in Indices : ~ ZeroTable[j].v
  BY DEF ZeroTable, Invalid, PTEs
<1>4. RVType
  BY <1>2, <1>3 DEF RVInit, RVType
<1>5. TableFrames = {} /\ Level1 = {}
  BY <1>2, <1>3 DEF TableFrames, Level1
<1>6. \A t \in Upper, j \in Indices : ~ tables[t][j].v
  BY <1>2, <1>3, <1>5 DEF Upper
<1>7. TableTree
  <2>1. TreeTargets /\ TreeUnique /\ TreeReached /\ TreeOwned
    BY <1>5, <1>6 DEF TreeTargets, TreeUnique, TreeReached, TreeOwned
  <2> QED BY <2>1, TreeParts
<1>8. CallPath
  BY <1>2 DEF CallPath
<1> QED BY <1>1, <1>4, <1>7, <1>8

----------------------------------------------------------------------------
(* vmm_init's loops.                                                       *)

\* The read-only loop ends where the next one starts: at the first page without a byte of
\* the read-only part.
LEMMA RoPages ==
  /\ RoPageEnd \in Nat
  /\ \A n \in Nat : n * PAGE_SIZE < RoBytes <=> n < RoPageEnd
<1>1. PAGE_SIZE \in Nat \ {0} /\ RoBytes \in Nat /\ RoBytes + PAGE_SIZE - 1 \in Nat
  BY SizeAssumption, PagingAssumption
<1>2. PICK q \in Nat, r \in 0 .. PAGE_SIZE - 1 :
        q = (RoBytes + PAGE_SIZE - 1) \div PAGE_SIZE
        /\ RoBytes + PAGE_SIZE - 1 = PAGE_SIZE * q + r
  BY <1>1, Division, Zenon
<1>3. q * PAGE_SIZE = PAGE_SIZE * q /\ q * PAGE_SIZE \in Nat
  BY <1>1
<1>4. PICK y \in Nat, z \in 0 .. PAGE_SIZE - 1 :
        y = (q * PAGE_SIZE) \div PAGE_SIZE /\ q * PAGE_SIZE = PAGE_SIZE * y + z
  BY <1>1, <1>3, Division, Zenon
<1>5. RoPageEnd = y
  BY <1>2, <1>4, Zenon DEF RoPageEnd, ALIGN_UP
<1>a. /\ RoBytes + PAGE_SIZE - 1 = PAGE_SIZE * q + r
      /\ PAGE_SIZE * q + 0 = PAGE_SIZE * y + z
  <2>1. RoBytes + PAGE_SIZE - 1 = PAGE_SIZE * q + r /\ PAGE_SIZE * q = PAGE_SIZE * y + z
    BY <1>2, <1>3, <1>4, Zenon
  <2>2. PAGE_SIZE * q \in Nat
    BY <1>1
  <2> QED BY <2>1, <2>2
<1>b. r \in Nat /\ r < PAGE_SIZE /\ z \in Nat /\ z < PAGE_SIZE /\ 0 < PAGE_SIZE
  <2>1. \A m \in Nat : \A i \in 0 .. m - 1 : i \in Nat /\ i < m
    OBVIOUS
  <2>2. r \in Nat /\ r < PAGE_SIZE /\ z \in Nat /\ z < PAGE_SIZE
    BY <1>1, <2>1, Zenon
  <2> QED BY <1>1, <2>2
<1>6. q = y
  BY <1>1, <1>a, <1>b, DivisionUnique
<1>7. ASSUME NEW n \in Nat
      PROVE  n * PAGE_SIZE < RoBytes <=> n < q
  <2>1. CASE n < q
    <3>1. PICK k \in Nat : q = (n + 1) + k
      <4>1. q - (n + 1) \in Nat /\ q = (n + 1) + (q - (n + 1))
        BY <2>1
      <4> QED BY <4>1
    <3>2. PAGE_SIZE * q = n * PAGE_SIZE + PAGE_SIZE + PAGE_SIZE * k /\ PAGE_SIZE * k >= 0
      BY <1>1, <3>1
    <3>3. n * PAGE_SIZE \in Nat /\ PAGE_SIZE * k \in Nat /\ PAGE_SIZE * q \in Nat
      BY <1>1
    <3> QED BY <1>1, <1>a, <1>b, <2>1, <3>2, <3>3
  <2>2. CASE n >= q
    <3>1. PICK k \in Nat : n = q + k
      <4>1. n - q \in Nat /\ n = q + (n - q)
        BY <2>2
      <4> QED BY <4>1
    <3>2. n * PAGE_SIZE = PAGE_SIZE * q + PAGE_SIZE * k /\ PAGE_SIZE * k >= 0
      BY <1>1, <3>1
    <3>3. n * PAGE_SIZE \in Nat /\ PAGE_SIZE * k \in Nat /\ PAGE_SIZE * q \in Nat
      BY <1>1
    <3> QED BY <1>1, <1>a, <1>b, <2>2, <3>2, <3>3
  <2> QED BY <2>1, <2>2
<1> QED BY <1>5, <1>6, <1>7

\* The read-only part ends within the frames.
LEMMA RoPagesFit == RoPageEnd <= TotalFrames
<1>1. PAGE_SIZE \in Nat \ {0} /\ TotalFrames \in Nat /\ RoBytes <= TotalFrames * PAGE_SIZE
  <2>1. TotalFrames * PAGE_SIZE \in Nat
    BY SizeAssumption
  <2>2. KernBytes \in Nat /\ KernBytes <= TotalFrames * PAGE_SIZE
    BY <2>1, SizeAssumption
  <2> QED BY <2>1, <2>2, SizeAssumption, PagingAssumption
<1>2. ~ (TotalFrames * PAGE_SIZE < RoBytes)
  <2>1. TotalFrames * PAGE_SIZE \in Nat /\ RoBytes \in Nat
    BY SizeAssumption, PagingAssumption
  <2> QED BY <1>1, <2>1
<1> QED BY <1>1, <1>2, RoPages

\* The page that a loop maps.
LEMMA LoopPage ==
  ASSUME RVType, LoopBounds, stage \in {"ro", "rw", "uart"}, LoopGoesOn
  PROVE  /\ stage \in {"ro", "rw"} =>
              /\ addr \in KernPage .. KernPage + TotalFrames - 1
              /\ LoopFlags = KernelFlags(addr)
         /\ stage = "uart" => addr \in Pages /\ addr < KernPage
         /\ addr \in Pages
<1>1. /\ KernPage \in Nat /\ UartPage \in Nat /\ TotalFrames \in Nat /\ addr \in Nat
      /\ RoPageEnd \in Nat /\ RoPageEnd <= TotalFrames /\ UartPage + 1 < KernPage
      /\ RamEnd <= KernPage + TotalFrames /\ RamEnd \in Nat
  BY PagingAssumption, SizeAssumption, LayoutAssumption, RoPages, RoPagesFit DEF RVType, RamEnd
<1>2. CASE stage = "ro"
  <2>1. addr - KernPage \in Nat /\ (addr - KernPage) * PAGE_SIZE < RoBytes
    BY <1>1, <1>2 DEF LoopBounds, LoopGoesOn
  <2>2. addr - KernPage < RoPageEnd
    BY <2>1, RoPages
  <2>3. addr \in KernPage .. KernPage + TotalFrames - 1
    BY <1>1, <2>1, <2>2
  <2>4. LoopFlags = KernelFlags(addr)
    BY <1>2, <2>1 DEF LoopFlags, KernelFlags
  <2> QED BY <1>2, <2>3, <2>4, AddressesArePages
<1>3. CASE stage = "rw"
  <2>1. addr >= KernPage + RoPageEnd /\ addr < RamEnd
    BY <1>3 DEF LoopBounds, LoopGoesOn
  <2>2. addr - KernPage \in Nat /\ ~ (addr - KernPage < RoPageEnd)
    BY <1>1, <2>1
  <2>3. ~ ((addr - KernPage) * PAGE_SIZE < RoBytes)
    BY <2>2, RoPages
  <2>4. addr \in KernPage .. KernPage + TotalFrames - 1
    BY <1>1, <2>1
  <2>5. LoopFlags = KernelFlags(addr)
    BY <1>3, <2>3 DEF LoopFlags, KernelFlags
  <2> QED BY <1>3, <2>4, <2>5, AddressesArePages
<1>4. CASE stage = "uart"
  <2>1. addr >= UartPage /\ addr < UartPage + 2
    BY <1>4 DEF LoopBounds, LoopGoesOn
  <2>2. addr = UartPage \/ addr = UartPage + 1
    BY <1>1, <2>1
  <2>3. addr \in Pages /\ addr < KernPage
    BY <1>1, <2>2, AddressesArePages
  <2> QED BY <1>4, <2>3
<1> QED BY <1>2, <1>3, <1>4

----------------------------------------------------------------------------
(* Types, tree and way down are kept by each step.                         *)

Shape == RVType /\ TableTree /\ CallPath

\* Steps of others, and no step.
LEMMA QuietShape ==
  ASSUME Shape, UNCHANGED <<tables, stage, addr, call>>, handed \subseteq handed',
         others' \subseteq handed', others' \cap TableFrames = {}
  PROVE  Shape'
<1>1. RVType'
  BY DEF Shape, RVType, PTEs, MapCalls, Pages, Indices, Frames, ROOT, NoCall, ZeroTable,
         Invalid, PAGE_KERNEL_EXEC, PAGE_KERNEL_DATA, R, W, X
<1>2. TableTree'
  <2>1. TableFrames \subseteq handed' \ others'
    BY DEF Shape, TableTree
  <2> QED BY <2>1, SameTree DEF Shape
<1>3. CallPath'
  BY SameTables DEF Shape, CallPath, TableOf, NoCall, ROOT
<1> QED BY <1>1, <1>2, <1>3 DEF Shape

\* A step that takes no frame and writes no entry; call' is a call that starts, or none.
LEMMA CallShape ==
  ASSUME Shape, UNCHANGED <<tables, others, handed>>,
         stage' \in {"ro", "rw", "uart", "on", "panic"}, addr' \in Nat,
         \/ call' = NoCall
         \/ call' \in MapCalls /\ call'.level = 2 /\ call'.table = ROOT
  PROVE  Shape'
<1>1. RVType'
  BY DEF Shape, RVType, PTEs, MapCalls, Pages, Indices, Frames, ROOT, NoCall,
         PAGE_KERNEL_EXEC, PAGE_KERNEL_DATA, R, W, X
<1>2. TableTree'
  <2>1. TableFrames \subseteq handed' \ others'
    BY DEF Shape, TableTree
  <2> QED BY <2>1, SameTree DEF Shape
<1>3. CallPath'
  <2>1. CASE call' = NoCall
    BY <2>1 DEF CallPath, NoCall
  <2>2. CASE call'.level = 2 /\ call'.table = ROOT
    BY <2>2 DEF CallPath, ROOT
  <2> QED BY <2>1, <2>2
<1> QED BY <1>1, <1>2, <1>3 DEF Shape

\* vmm_walk goes one level down.
LEMMA WalkDownShape ==
  ASSUME Shape, call # NoCall, call.level > 0, WalkDown, UNCHANGED <<addr, others>>
  PROVE  Shape'
<1>1. /\ call \in MapCalls /\ Index(call.va, call.level) \in Indices
      /\ call.level = 2 => call.table = ROOT
      /\ call.level = 1 => call.table \in Level1
  BY CallTables DEF Shape
<1>2. PICK t : t = TableOf(tables[call.table][Index(call.va, call.level)])
  OBVIOUS
<1>3. /\ call' = [call EXCEPT !.level = @ - 1, !.table = t]
      /\ UNCHANGED <<tables, stage, addr, others, handed>>
      /\ tables[call.table][Index(call.va, call.level)].v
  BY <1>2 DEF WalkDown, vars
<1>4. /\ call.level = 2 => Pte2(call.va).v /\ t = TableOf(Pte2(call.va))
      /\ call.level = 1 => Pte2(call.va).v /\ Pte1(call.va).v /\ t = TableOf(Pte1(call.va))
  BY <1>1, <1>2, <1>3 DEF Shape, CallPath, Pte2, Pte1
<1>5. t \in DOMAIN tables
  <2>1. call.va \in Pages /\ (call.level = 2 \/ call.level = 1)
    BY <1>1 DEF MapCalls
  <2>2. t \in Level1 \/ t \in Level0
    BY <1>4, <2>1, WalkEntries DEF Shape
  <2> QED BY <2>2 DEF Shape, TableTree, TableFrames
<1>6. call' \in MapCalls /\ call'.va = call.va /\ call'.level = call.level - 1 /\ call'.table = t
  <2>1. call.level - 1 \in 0 .. 2
    BY <1>1 DEF MapCalls
  <2>2. call' \in MapCalls
    BY <1>1, <1>3, <1>5, <2>1 DEF MapCalls
  <2>3. call'.va = call.va /\ call'.level = call.level - 1 /\ call'.table = t
    BY <1>1, <1>3 DEF MapCalls
  <2> QED BY <2>2, <2>3
<1>7. RVType'
  BY <1>3, <1>6 DEF Shape, RVType, PTEs, MapCalls, Pages, Indices, Frames, ROOT, NoCall,
         ZeroTable, Invalid, PAGE_KERNEL_EXEC, PAGE_KERNEL_DATA, R, W, X
<1>8. TableTree'
  <2>1. TableFrames \subseteq handed' \ others'
    BY <1>3 DEF Shape, TableTree
  <2> QED BY <1>3, <2>1, SameTree DEF Shape
<1>9. CallPath'
  <2>1. \A page : Pte2(page)' = Pte2(page) /\ Pte1(page)' = Pte1(page)
    BY <1>3, SameTables
  <2>2. call.level \in 1 .. 2
    BY <1>1 DEF MapCalls
  <2>3. PICK va : va = call.va
    OBVIOUS
  <2>4. Pte2(va)' = Pte2(va) /\ Pte1(va)' = Pte1(va) /\ va = call'.va
    BY <1>6, <2>1, <2>3
  <2>5. CASE call.level = 2
    <3>1. Pte2(va)'.v /\ TableOf(Pte2(va)') = t /\ call'.level = 1 /\ call'.table = t
      BY <1>4, <1>6, <2>3, <2>4, <2>5
    <3> QED BY <2>4, <3>1 DEF CallPath, TableOf, Pte2
  <2>6. CASE call.level = 1
    <3>1. /\ Pte2(va)'.v /\ Pte1(va)'.v /\ TableOf(Pte1(va)') = t
          /\ call'.level = 0 /\ call'.table = t
      BY <1>4, <1>6, <2>3, <2>4, <2>6
    <3> QED BY <2>4, <3>1 DEF CallPath, TableOf, Pte1, Pte2
  <2> QED BY <2>2, <2>5, <2>6
<1> QED BY <1>7, <1>8, <1>9 DEF Shape

\* vmm_walk takes a frame for the level below.
LEMMA WalkLinksShape ==
  ASSUME Shape, call # NoCall, call.level > 0, NEW f, WalkLinks(f), UNCHANGED <<addr, others>>
  PROVE  /\ Shape'
         /\ \A page \in Pages : vmm_virt_to_phys(page)' = vmm_virt_to_phys(page)
<1>1. /\ call \in MapCalls /\ Index(call.va, call.level) \in Indices
      /\ call.level = 2 => call.table = ROOT
      /\ call.level = 1 => call.table \in Level1
  BY CallTables DEF Shape
<1>2. RVType /\ TableTree
  BY DEF Shape
<1>3. PICK t, k, va : t = call.table /\ k = Index(call.va, call.level) /\ va = call.va
  OBVIOUS
<1>4. /\ Linked(t, k, f) /\ ~ tables[t][k].v
      /\ call' = [call EXCEPT !.level = @ - 1, !.table = f]
      /\ handed' = handed \cup {f} /\ f \notin others
      /\ UNCHANGED <<stage, addr, others>>
      /\ f \in Frames /\ va \in Pages
  BY <1>1, <1>3 DEF WalkLinks, Linked, MapCalls
<1>5. call.level = 2 \/ call.level = 1
  BY <1>1 DEF MapCalls
<1>6. /\ call' \in [op : {"map"}, va : Pages, ppn : Pages,
                    flags : {PAGE_KERNEL_EXEC, PAGE_KERNEL_DATA}, level : 0 .. 2, table : {f}]
      /\ call'.va = va /\ call'.level = call.level - 1 /\ call'.table = f
  <2>1. call.level - 1 \in 0 .. 2
    BY <1>5
  <2> QED BY <1>1, <1>3, <1>4, <2>1 DEF MapCalls
<1>7. DOMAIN tables' = DOMAIN tables \cup {f} /\ tables' \in [DOMAIN tables' -> [Indices -> PTEs]]
  BY <1>2, <1>4, LinkedEntries
<1>8. RVType'
  <2>1. stage # "boot"
    BY DEF Shape, RVType
  <2>2. ROOT \in DOMAIN tables' /\ DOMAIN tables' \subseteq Frames \cup {ROOT}
    BY <1>2, <1>4, <1>7 DEF RVType
  <2>3. (call \in MapCalls)'
    BY <1>6, <1>7 DEF MapCalls, Pages, PAGE_KERNEL_EXEC, PAGE_KERNEL_DATA, R, W, X
  <2>4. others' \subseteq handed'
    BY <1>2, <1>4 DEF RVType
  <2> QED BY <1>2, <1>4, <1>7, <2>1, <2>2, <2>3, <2>4 DEF RVType, PTEs, Indices, Frames, ROOT
<1>9. tables'[t][k].v /\ TableOf(tables'[t][k]) = f
  BY <1>2, <1>4, LinkedEntries
<1>10. CASE call.level = 2
  <2>1. t = ROOT /\ k = Index(va, 2)
    BY <1>1, <1>3, <1>10
  <2>2. TableTree'
    BY <1>2, <1>4, <2>1, RootLinked
  <2>3. \A page \in Pages : vmm_virt_to_phys(page)' = vmm_virt_to_phys(page)
    BY <1>2, <1>4, <1>8, <2>1, <2>2, RootLinkTranslates
  <2>4. CallPath'
    <3>1. call'.level = 1
      BY <1>6, <1>10
    <3>2. Pte2(va)' = tables'[t][k]
      BY <2>1 DEF Pte2, Index, ROOT
    <3> QED BY <1>6, <1>9, <3>1, <3>2 DEF CallPath, TableOf, Pte2
  <2> QED BY <1>8, <2>2, <2>3, <2>4 DEF Shape
<1>11. CASE call.level = 1
  <2>1. t \in Level1 /\ k = Index(va, 1) /\ t = TableOf(Pte2(va)) /\ Pte2(va).v
    BY <1>1, <1>3, <1>11 DEF Shape, CallPath
  <2>2. TableTree'
    BY <1>2, <1>4, <2>1, MiddleLinked
  <2>3. \A page \in Pages : vmm_virt_to_phys(page)' = vmm_virt_to_phys(page)
    BY <1>2, <1>4, <1>8, <2>1, <2>2, MiddleLinkTranslates
  <2>4. CallPath'
    <3>1. call'.level = 0
      BY <1>6, <1>11
    <3>2. Pte2(va)' = Pte2(va)
      <4>1. t # ROOT /\ ROOT \in DOMAIN tables
        BY <1>2, <2>1, RootApart DEF TableTree, RVType
      <4>2. Index(va, 2) \in Indices
        BY <1>4, IndexType DEF Pages
      <4>3. tables'[ROOT][Index(va, 2)] = tables[ROOT][Index(va, 2)]
        BY <1>2, <1>4, <4>1, <4>2, LinkedElsewhere
      <4> QED BY <4>3 DEF Pte2, Index, ROOT
    <3>3. Pte1(va)' = tables'[t][k]
      BY <2>1, <3>2 DEF Pte1, Index, TableOf
    <3> QED BY <1>6, <1>9, <2>1, <3>1, <3>2, <3>3 DEF CallPath, TableOf, Pte2, Pte1
  <2> QED BY <1>8, <2>2, <2>3, <2>4 DEF Shape
<1> QED BY <1>5, <1>10, <1>11

\* vmm_map_page writes the last entry.
LEMMA WriteShape ==
  ASSUME Shape, vmm_map_page_write
  PROVE  /\ Shape' /\ call \in MapCalls /\ call # NoCall
         /\ \A page \in Pages :
              vmm_virt_to_phys(page)' =
                IF page = call.va THEN Valid(call.ppn, call.flags) ELSE vmm_virt_to_phys(page)
<1>1. call # NoCall /\ call.level = 0 /\ call' = NoCall /\ RVType /\ TableTree
  BY DEF vmm_map_page_write, NoCall, Shape
<1>2. /\ call \in MapCalls /\ Index(call.va, call.level) \in Indices /\ call.table \in Level0
  BY <1>1, CallTables DEF Shape
<1>3. PICK t, k, va, e : /\ t = call.table /\ k = Index(call.va, 0) /\ va = call.va
                         /\ e = Valid(call.ppn, call.flags)
  OBVIOUS
<1>4. /\ Pte2(va).v /\ Pte1(va).v /\ t = TableOf(Pte1(va)) /\ t \in Level0
      /\ k \in Indices /\ va \in Pages /\ k = Index(va, 0)
  BY <1>1, <1>2, <1>3 DEF Shape, CallPath, MapCalls
<1>5. e \in PTEs /\ e.v
  BY <1>2, <1>3 DEF MapCalls, Pages, Valid, PTEs, PAGE_KERNEL_EXEC, PAGE_KERNEL_DATA
<1>6. /\ tables' = [tables EXCEPT ![t][k] = e]
      /\ UNCHANGED <<stage, addr, others, handed>>
  BY <1>3 DEF vmm_map_page_write, WriteEntry, vars
<1>7. tables' \in [DOMAIN tables' -> [Indices -> PTEs]] /\ DOMAIN tables' = DOMAIN tables
  BY <1>1, <1>4, <1>5, <1>6 DEF RVType
<1>8. RVType'
  <2>1. stage # "boot"
    BY <1>1 DEF Shape, RVType
  <2> QED BY <1>1, <1>6, <1>7, <2>1 DEF RVType, PTEs, Indices, Frames, ROOT, NoCall
<1>9. TableTree'
  BY <1>1, <1>4, <1>5, <1>6, EntryWritten
<1>10. CallPath'
  BY <1>1 DEF CallPath, NoCall
<1>11. \A page \in Pages :
         vmm_virt_to_phys(page)' = IF page = va THEN e ELSE vmm_virt_to_phys(page)
  BY <1>1, <1>4, <1>5, <1>6, <1>8, <1>9, WriteTranslates
<1> QED BY <1>1, <1>2, <1>3, <1>8, <1>9, <1>10, <1>11 DEF Shape

----------------------------------------------------------------------------
(* What a step is for the map that vmm_virt_to_phys shows.                 *)

SameMap == \A page \in Pages : vmm_virt_to_phys(page)' = vmm_virt_to_phys(page)

\* The step goes on with the call it finds, or there is none.
SameCall ==
  /\ UNCHANGED <<stage, addr>>
  /\ \/ UNCHANGED call
     \/ call # NoCall /\ call' # NoCall
        /\ call'.va = call.va /\ call'.ppn = call.ppn /\ call'.flags = call.flags

InitStarts == call = NoCall /\ call' = NoCall /\ stage' = "ro" /\ addr' = KernPage

CallFails == call # NoCall /\ WalkFailed /\ UNCHANGED addr

CallStarts(page, target, flags) ==
  /\ call = NoCall
  /\ call' # NoCall /\ call'.va = page /\ call'.ppn = target /\ call'.flags = flags
  /\ page \in Pages /\ target \in Pages /\ flags \in {PAGE_KERNEL_EXEC, PAGE_KERNEL_DATA}

LoopMaps ==
  /\ stage \in {"ro", "rw", "uart"} /\ LoopGoesOn
  /\ CallStarts(addr, addr, LoopFlags) /\ addr' = addr + 1 /\ UNCHANGED stage

LoopEnds ==
  /\ stage \in {"ro", "rw", "uart"} /\ ~ LoopGoesOn /\ UNCHANGED call /\ call = NoCall
  /\ stage' = After[stage] /\ addr' = LoopStart[After[stage]]

ClientMaps ==
  /\ stage = "on" /\ UNCHANGED <<stage, addr>>
  /\ \E page, target \in UserPages, flags \in {PAGE_KERNEL_EXEC, PAGE_KERNEL_DATA} :
       CallStarts(page, target, flags)

CallWrites ==
  /\ call # NoCall /\ call \in MapCalls /\ call' = NoCall /\ UNCHANGED <<stage, addr>>
  /\ \A page \in Pages :
       vmm_virt_to_phys(page)' =
         IF page = call.va THEN Valid(call.ppn, call.flags) ELSE vmm_virt_to_phys(page)

MapStep ==
  \/ SameMap /\ (SameCall \/ InitStarts \/ CallFails \/ LoopMaps \/ LoopEnds \/ ClientMaps)
  \/ CallWrites

\* A call that starts, in fields.
LEMMA CallsStart ==
  ASSUME RVType, call = NoCall, NEW page \in Pages, NEW target \in Pages,
         NEW flags \in {PAGE_KERNEL_EXEC, PAGE_KERNEL_DATA}, MapCall(page, target, flags)
  PROVE  /\ CallStarts(page, target, flags)
         /\ call' \in MapCalls /\ call'.level = 2 /\ call'.table = ROOT
<1>1. call' = [op |-> "map", va |-> page, ppn |-> target, flags |-> flags,
               level |-> 2, table |-> ROOT]
  BY DEF MapCall
<1>2. call'.op = "map" /\ NoCall.op = "none"
  BY <1>1 DEF NoCall
<1>3. call' # NoCall
  BY <1>2
<1>4. call' \in MapCalls
  BY <1>1 DEF MapCalls, RVType
<1> QED BY <1>1, <1>3, <1>4 DEF CallStarts

\* The map depends on the tables alone.
LEMMA SameTablesMap == UNCHANGED tables => SameMap
  BY SameTables DEF SameMap

\* Every step keeps the shape, and is one of those above.
LEMMA StepKinds ==
  ASSUME IInv, Shape, LoopBounds, [RVNext]_rvVars
  PROVE  Shape' /\ MapStep
<1>0. RVType /\ TableTree /\ others \subseteq handed /\ TableFrames \subseteq handed \ others
  BY DEF Shape, RVType, TableTree
<1>1. ASSUME UNCHANGED <<tables, stage, addr, call, others, handed>>
      PROVE  Shape' /\ MapStep
  <2>1. handed \subseteq handed' /\ others' \subseteq handed' /\ others' \cap TableFrames = {}
    BY <1>0, <1>1
  <2> QED BY <1>1, <2>1, QuietShape, SameTablesMap DEF MapStep, SameCall
<1>2. CASE BootStep
  BY <1>1, <1>2 DEF BootStep, mm_boot_init, pmm_init, pmm_free_region, pmm_reserve_region, pmmVars
<1>3. CASE vmm_init
  <2>1. tables' = tables /\ call = NoCall
    BY <1>0, <1>3, InitKeepsTable
  <2>2. /\ UNCHANGED <<tables, others, handed>> /\ stage' = "ro" /\ addr' = KernPage
        /\ call' = NoCall
    BY <1>3, <2>1 DEF vmm_init, vars, LoopStart
  <2>3. Shape'
    BY <2>2, PagingAssumption, CallShape
  <2> QED BY <2>1, <2>2, <2>3, SameTablesMap DEF MapStep, InitStarts
<1>4. CASE vmm_init_loop
  <2>1. /\ stage \in {"ro", "rw", "uart"} /\ call = NoCall
        /\ UNCHANGED <<tables, others, handed>>
    BY <1>4 DEF vmm_init_loop, vars
  <2>2. CASE LoopGoesOn
    <3>1. MapCall(addr, addr, LoopFlags) /\ addr' = addr + 1 /\ UNCHANGED stage
      BY <1>4, <2>2 DEF vmm_init_loop
    <3>2. addr \in Pages /\ addr + 1 \in Nat
      BY <1>0, <2>1, <2>2, LoopPage DEF Pages
    <3>3. LoopFlags \in {PAGE_KERNEL_EXEC, PAGE_KERNEL_DATA}
      BY DEF LoopFlags
    <3>4. PICK page, flags : page = addr /\ flags = LoopFlags
      OBVIOUS
    <3>5. /\ CallStarts(page, page, flags)
          /\ call' \in MapCalls /\ call'.level = 2 /\ call'.table = ROOT
      BY <1>0, <2>1, <3>1, <3>2, <3>3, <3>4, CallsStart
    <3>6. Shape'
      BY <2>1, <3>1, <3>2, <3>5, CallShape
    <3>7. LoopMaps
      BY <2>1, <2>2, <3>1, <3>4, <3>5 DEF LoopMaps
    <3> QED BY <2>1, <3>6, <3>7, SameTablesMap DEF MapStep
  <2>3. CASE ~ LoopGoesOn
    <3>1. stage' = After[stage] /\ addr' = LoopStart[After[stage]] /\ UNCHANGED call
      BY <1>4, <2>3 DEF vmm_init_loop
    <3>2. stage' \in {"ro", "rw", "uart", "on", "panic"} /\ addr' \in Nat
      BY <2>1, <3>1, PagingAssumption, RoPages DEF After, LoopStart
    <3>3. Shape'
      BY <2>1, <3>1, <3>2, CallShape
    <3> QED BY <2>1, <2>3, <3>1, <3>3, SameTablesMap DEF MapStep, LoopEnds
  <2> QED BY <2>2, <2>3
<1>5. CASE vmm_walk
  <2>1. /\ call # NoCall /\ call \in MapCalls /\ call.level > 0 /\ UNCHANGED <<addr, others>>
        /\ WalkDown \/ (WalkFailed /\ handed' = handed) \/ \E f : WalkLinks(f)
    BY <1>0, <1>5, WalkCases
  <2>2. ASSUME NEW t, call' = [call EXCEPT !.level = @ - 1, !.table = t], UNCHANGED stage
        PROVE  SameCall
    <3>1. call'.op = "map" /\ call'.va = call.va /\ call'.ppn = call.ppn /\ call'.flags = call.flags
      BY <2>1, <2>2 DEF MapCalls
    <3>2. call' # NoCall
      BY <3>1 DEF NoCall
    <3> QED BY <2>1, <2>2, <3>1, <3>2 DEF SameCall
  <2>3. CASE WalkDown
    <3>1. Shape'
      BY <2>1, <2>3, WalkDownShape
    <3>2. SameMap
      BY <2>3, SameTablesMap DEF WalkDown
    <3>3. SameCall
      BY <2>2, <2>3 DEF WalkDown
    <3> QED BY <3>1, <3>2, <3>3 DEF MapStep
  <2>4. CASE WalkFailed /\ handed' = handed
    <3>1. /\ UNCHANGED <<tables, others, handed>> /\ addr' \in Nat /\ call' = NoCall
          /\ stage' \in {"ro", "rw", "uart", "on", "panic"}
      BY <1>0, <2>1, <2>4 DEF WalkFailed, RVType
    <3>2. Shape'
      BY <3>1, CallShape
    <3> QED BY <2>1, <2>4, <3>1, <3>2, SameTablesMap DEF MapStep, CallFails
  <2>5. ASSUME NEW f, WalkLinks(f) PROVE Shape' /\ MapStep
    <3>1. Shape' /\ SameMap
      BY <2>1, <2>5, WalkLinksShape DEF SameMap
    <3>2. SameCall
      BY <2>2, <2>5 DEF WalkLinks
    <3> QED BY <3>1, <3>2 DEF MapStep
  <2> QED BY <2>1, <2>3, <2>4, <2>5
<1>6. CASE vmm_map_page_write
  BY <1>6, WriteShape DEF MapStep, CallWrites, vmm_map_page_write
<1>7. ASSUME NEW page \in UserPages, NEW target \in UserPages,
             NEW flags \in {PAGE_KERNEL_EXEC, PAGE_KERNEL_DATA}, vmm_map_page(page, target, flags)
      PROVE  Shape' /\ MapStep
  <2>1. /\ stage = "on" /\ call = NoCall /\ MapCall(page, target, flags)
        /\ UNCHANGED <<tables, stage, addr, others, handed>>
    BY <1>7 DEF vmm_map_page, vars
  <2>2. page \in Pages /\ target \in Pages
    BY AddressesArePages
  <2>3. /\ CallStarts(page, target, flags)
        /\ call' \in MapCalls /\ call'.level = 2 /\ call'.table = ROOT
    BY <1>0, <2>1, <2>2, CallsStart
  <2>4. addr' \in Nat /\ stage' = "on"
    BY <1>0, <2>1 DEF RVType
  <2>5. Shape'
    BY <2>1, <2>3, <2>4, CallShape
  <2> QED BY <2>1, <2>3, <2>5, SameTablesMap DEF MapStep, ClientMaps
<1>8. CASE other_alloc
  <2>1. /\ UNCHANGED <<tables, stage, addr, call>>
        /\ others' = others \cup ({NextFrame} \ {NoFrame})
    BY <1>8 DEF other_alloc
  <2>2. NextFrame \notin handed /\ handed' = handed \cup ({NextFrame} \ {NoFrame})
    BY <1>8, AllocFacts DEF other_alloc, pmm_alloc_frame
  <2>3. handed \subseteq handed' /\ others' \subseteq handed' /\ others' \cap TableFrames = {}
    BY <1>0, <2>1, <2>2
  <2> QED BY <2>1, <2>3, QuietShape, SameTablesMap DEF MapStep, SameCall
<1>9. CASE UNCHANGED rvVars
  BY <1>1, <1>9 DEF rvVars
<1> QED BY <1>2, <1>3, <1>4, <1>5, <1>6, <1>7, <1>8, <1>9 DEF RVNext

----------------------------------------------------------------------------
(* How far vmm_init has come.                                              *)

\* The loops' variable stays in its range.
LEMMA BoundsStep ==
  ASSUME RVType, LoopBounds, MapStep
  PROVE  LoopBounds'
<1>0. /\ KernPage \in Nat /\ UartPage \in Nat /\ RoPageEnd \in Nat /\ addr \in Nat
      /\ TotalFrames \in Nat /\ RoPageEnd <= TotalFrames
  BY PagingAssumption, SizeAssumption, RoPages, RoPagesFit DEF RVType
<1>c. RoPageEnd' = RoPageEnd
  BY DEF RoPageEnd, ALIGN_UP
<1>1. CASE UNCHANGED <<stage, addr>>
  BY <1>1, <1>c DEF LoopBounds
<1>2. CASE InitStarts
  BY <1>0, <1>2 DEF InitStarts, LoopBounds
<1>3. CASE CallFails
  BY <1>3, <1>c DEF CallFails, WalkFailed, LoopBounds
<1>4. CASE LoopMaps
  <2>1. stage \in {"ro", "rw"} => addr \in KernPage .. KernPage + TotalFrames - 1
    BY <1>4, LoopPage DEF LoopMaps
  <2> QED BY <1>0, <1>4, <1>c, <2>1 DEF LoopMaps, LoopBounds
<1>5. CASE LoopEnds
  <2>1. \/ stage = "ro" /\ stage' = "rw" /\ addr' = KernPage + RoPageEnd
        \/ stage = "rw" /\ stage' = "uart" /\ addr' = UartPage
        \/ stage = "uart" /\ stage' = "on" /\ addr' = 0
    BY <1>5 DEF LoopEnds, After, LoopStart
  <2> QED BY <1>0, <1>c, <2>1 DEF LoopBounds
<1> QED BY <1>1, <1>2, <1>3, <1>4, <1>5 DEF MapStep, SameCall, ClientMaps, CallWrites

\* The pages that the loops cover.
LEMMA CoveredPages ==
  ASSUME RVType, LoopBounds, stage \in {"ro", "rw", "uart", "on"}, NEW page \in KernPage .. Upto - 1
  PROVE  page \in Pages /\ page \in KernPage .. KernPage + TotalFrames - 1
<1>1. /\ KernPage \in Nat /\ TotalFrames \in Nat /\ RamEnd \in Nat
      /\ RamEnd <= KernPage + TotalFrames
  BY PagingAssumption, SizeAssumption DEF RamEnd
<1>2. Upto \in Nat /\ Upto <= KernPage + TotalFrames
  BY <1>1 DEF Upto, LoopBounds, RVType
<1>3. page \in KernPage .. KernPage + TotalFrames - 1
  BY <1>1, <1>2
<1> QED BY <1>3, AddressesArePages

\* The flags of a page do not depend on the state.
LEMMA KernelFlagsConstant == \A page : KernelFlags(page)' = KernelFlags(page)
  BY DEF KernelFlags, PAGE_KERNEL_EXEC, PAGE_KERNEL_DATA, R, W, X

\* No call for a page of the kernel comes from elsewhere than vmm_init.
LEMMA RightCallStep ==
  ASSUME RVType, LoopBounds, RightCall, MapStep
  PROVE  RightCall'
<1> USE KernelFlagsConstant
<1>1. CASE call' = NoCall
  BY <1>1 DEF RightCall, NoCall
<1>2. CASE SameCall
  BY <1>2 DEF SameCall, RightCall, NoCall
<1>3. CASE LoopMaps
  <2>1. /\ stage \in {"ro", "rw"} => LoopFlags = KernelFlags(addr)
        /\ stage = "uart" => addr < KernPage /\ addr \in Nat
        /\ stage' = stage /\ stage \in {"ro", "rw", "uart"}
        /\ call'.va = addr /\ call'.ppn = addr /\ call'.flags = LoopFlags
    BY <1>3, LoopPage DEF LoopMaps, CallStarts, Pages
  <2>2. stage = "uart" => addr \notin KernPage .. KernPage + TotalFrames - 1
    BY <2>1, PagingAssumption
  <2>3. stage \in {"ro", "rw"} => call'.flags = KernelFlags(call'.va)
    BY <2>1
  <2>4. KernelFlags(addr)' = KernelFlags(addr')
    BY DEF KernelFlags, PAGE_KERNEL_EXEC, PAGE_KERNEL_DATA, R, W, X
  <2>5. KernelFlags(call.va)' = KernelFlags(call'.va)
    BY DEF KernelFlags, PAGE_KERNEL_EXEC, PAGE_KERNEL_DATA, R, W, X
  <2> QED BY <2>1, <2>2, <2>3, <2>5 DEF RightCall
<1>4. CASE ClientMaps
  <2>1. PICK page \in UserPages : call'.va = page
    BY <1>4 DEF ClientMaps, CallStarts
  <2>2. call'.va \notin KernPage .. KernPage + TotalFrames - 1
    BY <2>1, LayoutAssumption
  <2> QED BY <2>2 DEF RightCall
<1> QED BY <1>1, <1>2, <1>3, <1>4 DEF MapStep, InitStarts, CallFails, WalkFailed, LoopEnds, CallWrites

\* What was mapped stays mapped, and a loop that ends has mapped its range.
LEMMA CoveredStep ==
  ASSUME RVType, LoopBounds, Covered, RightCall, MapStep, RVType', LoopBounds'
  PROVE  Covered'
<1>0. /\ KernPage \in Nat /\ RoPageEnd \in Nat /\ addr \in Nat /\ RamEnd \in Nat
  BY PagingAssumption, RoPages DEF RVType, RamEnd
<1>1. \A page : Mapped(page)' <=> vmm_virt_to_phys(page)' = Valid(page, KernelFlags(page))
  BY KernelFlagsConstant DEF Mapped, Valid
<1>2. ASSUME SameMap, NEW page \in Pages, Mapped(page) PROVE Mapped(page)'
  BY <1>1, <1>2 DEF SameMap, Mapped
<1>3. \A page \in KernPage .. Upto - 1 :
        stage \in {"ro", "rw", "uart", "on"} =>
          /\ page \in Pages /\ page \in KernPage .. KernPage + TotalFrames - 1
          /\ Mapped(page) \/ Asked(page)
  BY CoveredPages DEF Covered
<1>4. RamEnd' = RamEnd /\ RoPageEnd' = RoPageEnd
  BY DEF RamEnd, RoPageEnd, ALIGN_UP
<1>5. UNCHANGED <<stage, addr>> => Upto' = Upto
  BY <1>4 DEF Upto
<1>6. CASE SameMap /\ SameCall
  <2> SUFFICES ASSUME stage' \in {"ro", "rw", "uart", "on"}, NEW page \in KernPage .. Upto' - 1
               PROVE  Mapped(page)' \/ Asked(page)'
    BY DEF Covered
  <2>1. stage \in {"ro", "rw", "uart", "on"} /\ page \in KernPage .. Upto - 1
    BY <1>5, <1>6 DEF SameCall
  <2>2. Asked(page) => Asked(page)'
    BY <1>6 DEF SameCall, Asked, NoCall
  <2> QED BY <1>2, <1>3, <1>6, <2>1, <2>2
<1>7. CASE InitStarts
  <2>1. Upto' = KernPage
    BY <1>7 DEF InitStarts, Upto
  <2> QED BY <1>0, <2>1 DEF Covered
<1>8. CASE SameMap /\ CallFails
  <2> SUFFICES ASSUME stage' \in {"ro", "rw", "uart", "on"}, NEW page \in KernPage .. Upto' - 1
               PROVE  Mapped(page)'
    BY DEF Covered
  <2>1. stage = "on" /\ page \in KernPage .. Upto - 1
    BY <1>5, <1>8 DEF CallFails, WalkFailed
  <2>2. ~ Asked(page)
    BY <1>3, <2>1 DEF Asked, RightCall
  <2> QED BY <1>2, <1>3, <1>8, <2>1, <2>2
<1>9. CASE SameMap /\ LoopMaps
  <2> SUFFICES ASSUME NEW page \in KernPage .. Upto' - 1
               PROVE  Mapped(page)' \/ Asked(page)'
    BY DEF Covered
  <2>1. /\ stage \in {"ro", "rw", "uart"} /\ stage' = stage /\ addr' = addr + 1
        /\ call = NoCall /\ call' # NoCall /\ call'.va = addr
    BY <1>9 DEF LoopMaps, CallStarts
  <2>2. ASSUME page \in KernPage .. Upto - 1 PROVE Mapped(page)'
    BY <1>2, <1>3, <1>9, <2>1, <2>2 DEF Asked
  <2>3. page \in KernPage .. Upto - 1 \/ (page = addr)
    BY <1>0, <1>4, <2>1 DEF Upto
  <2>4. page = addr => Asked(page)'
    BY <2>1 DEF Asked, NoCall
  <2> QED BY <2>2, <2>3, <2>4
<1>10. CASE SameMap /\ LoopEnds
  <2> SUFFICES ASSUME NEW page \in KernPage .. Upto' - 1
               PROVE  Mapped(page)'
    BY DEF Covered
  <2>1. /\ stage \in {"ro", "rw", "uart"} /\ call = NoCall
        /\ \/ stage = "ro" /\ stage' = "rw" /\ addr' = KernPage + RoPageEnd
           \/ stage = "rw" /\ stage' = "uart"
           \/ stage = "uart" /\ stage' = "on"
    BY <1>10 DEF LoopEnds, After, LoopStart
  <2>2. Upto \in Nat /\ Upto' \in Nat /\ Upto' <= Upto
    <3>1. CASE stage = "ro"
      <4>1. addr - KernPage \in Nat /\ ~ ((addr - KernPage) * PAGE_SIZE < RoBytes)
        BY <1>0, <1>10, <3>1 DEF LoopEnds, LoopGoesOn, LoopBounds
      <4>2. ~ (addr - KernPage < RoPageEnd)
        BY <4>1, RoPages
      <4>3. Upto = addr /\ Upto' = KernPage + RoPageEnd
        BY <2>1, <3>1 DEF Upto
      <4> QED BY <1>0, <4>1, <4>2, <4>3
    <3>2. CASE stage = "rw"
      <4>1. ~ (addr < RamEnd)
        BY <1>10, <3>2 DEF LoopEnds, LoopGoesOn
      <4>2. Upto = addr /\ Upto' = RamEnd
        BY <1>4, <2>1, <3>2 DEF Upto
      <4> QED BY <1>0, <4>1, <4>2
    <3>3. CASE stage = "uart"
      <4>1. Upto = RamEnd /\ Upto' = RamEnd
        BY <1>4, <2>1, <3>3 DEF Upto
      <4> QED BY <1>0, <4>1
    <3> QED BY <2>1, <3>1, <3>2, <3>3
  <2>3. page \in KernPage .. Upto - 1
    <3>1. \A a, b \in Nat : b <= a => KernPage .. b - 1 \subseteq KernPage .. a - 1
      BY <1>0
    <3> QED BY <2>2, <3>1
  <2> QED BY <1>2, <1>3, <1>10, <2>1, <2>3 DEF Asked
<1>11. CASE SameMap /\ ClientMaps
  <2> SUFFICES ASSUME NEW page \in KernPage .. Upto' - 1
               PROVE  Mapped(page)'
    BY DEF Covered
  <2>1. stage = "on" /\ page \in KernPage .. Upto - 1 /\ call = NoCall
    BY <1>5, <1>11 DEF ClientMaps, CallStarts
  <2> QED BY <1>2, <1>3, <1>11, <2>1 DEF Asked
<1>12. CASE CallWrites
  <2> SUFFICES ASSUME stage' \in {"ro", "rw", "uart", "on"}, NEW page \in KernPage .. Upto' - 1
               PROVE  Mapped(page)'
    BY DEF Covered
  <2>1. stage \in {"ro", "rw", "uart", "on"} /\ page \in KernPage .. Upto - 1
    BY <1>5, <1>12 DEF CallWrites
  <2>2. page \in Pages /\ page \in KernPage .. KernPage + TotalFrames - 1 /\ (Mapped(page) \/ Asked(page))
    BY <1>3, <2>1
  <2>3. vmm_virt_to_phys(page)' =
          IF page = call.va THEN Valid(call.ppn, call.flags) ELSE vmm_virt_to_phys(page)
    BY <1>12, <2>2 DEF CallWrites
  <2>4. CASE page = call.va
    <3>1. call.ppn = page /\ call.flags = KernelFlags(page)
      BY <1>12, <2>2, <2>4 DEF RightCall, CallWrites
    <3> QED BY <1>1, <2>3, <2>4, <3>1
  <2>5. CASE page # call.va
    BY <1>1, <2>2, <2>3, <2>5 DEF Asked, Mapped
  <2> QED BY <2>4, <2>5
<1> QED BY <1>6, <1>7, <1>8, <1>9, <1>10, <1>11, <1>12 DEF MapStep

\* RVInv is inductive.
LEMMA InitRVInv == RVInit => RVInv
<1> SUFFICES ASSUME RVInit PROVE RVInv
  OBVIOUS
<1>1. IInv /\ RVType /\ TableTree /\ CallPath
  BY InitType
<1>2. stage = "boot" /\ call = NoCall
  BY DEF RVInit
<1>3. LoopBounds /\ Covered /\ RightCall
  BY <1>2 DEF LoopBounds, Covered, RightCall
<1> QED BY <1>1, <1>3 DEF RVInv

LEMMA NextRVInv == RVInv /\ [RVNext]_rvVars => RVInv'
<1> SUFFICES ASSUME RVInv, [RVNext]_rvVars PROVE RVInv'
  OBVIOUS
<1>1. IInv /\ Shape /\ LoopBounds /\ Covered /\ RightCall /\ RVType
  BY DEF RVInv, Shape
<1>2. IInv'
  BY <1>1, FramesStep
<1>3. Shape' /\ MapStep
  BY <1>1, StepKinds
<1>4. LoopBounds' /\ RightCall'
  BY <1>1, <1>3, BoundsStep, RightCallStep
<1>5. RVType'
  BY <1>3 DEF Shape
<1>6. Covered'
  BY <1>1, <1>3, <1>4, <1>5, CoveredStep
<1> QED BY <1>2, <1>3, <1>4, <1>6 DEF RVInv, Shape

LEMMA RVInvariance == RVSpec => []RVInv
<1>1. RVInv /\ [RVNext]_rvVars => RVInv'
  BY NextRVInv
<1> QED BY <1>1, InitRVInv, PTL DEF RVSpec

\* The tables that vmm_walk builds are a tree in every reachable state, between any two
\* steps of a walk too, and their frames are nobody else's.
THEOREM TablesAreATree == RVSpec => []TableTree
<1>1. RVInv => TableTree
  BY DEF RVInv
<1> QED BY <1>1, RVInvariance, PTL

\* Once vmm_init has turned paging on, every page of the RAM is mapped to itself with
\* the flags of its part of the image, and stays so whatever clients map.
THEOREM KernelIsMapped == RVSpec => []KernelMapped
<1>1. RVInv => KernelMapped
  <2> SUFFICES ASSUME RVInv, stage = "on", NEW page \in KernPage .. RamEnd - 1
               PROVE  vmm_virt_to_phys(page) = Valid(page, KernelFlags(page))
    BY DEF KernelMapped, KernelFlags
  <2>1. Upto = RamEnd /\ RVType /\ LoopBounds /\ Covered /\ RightCall
    BY DEF Upto, RVInv
  <2>2. page \in KernPage .. KernPage + TotalFrames - 1 /\ (Mapped(page) \/ Asked(page))
    BY <2>1, CoveredPages DEF Covered
  <2>3. ~ Asked(page)
    BY <2>1, <2>2 DEF Asked, RightCall
  <2> QED BY <2>2, <2>3 DEF Mapped
<1> QED BY <1>1, RVInvariance, PTL

----------------------------------------------------------------------------
(* The refinement.                                                         *)

Req == IF call = NoCall THEN <<>> ELSE <<"kernel", call.va, Valid(call.ppn, call.flags)>>

\* The first state maps no page.
LEMMA AbstractInit == RVInit => Abstract!Init
<1> SUFFICES ASSUME RVInit PROVE Abstract!Init
  OBVIOUS
<1>1. RVType /\ TableTree /\ call = NoCall
  BY InitType DEF RVInit
<1>2. ASSUME NEW page \in Pages PROVE vmm_virt_to_phys(page) = Invalid
  <2>1. Index(page, 2) \in Indices
    BY IndexType DEF Pages
  <2>2. ~ tables[ROOT][Index(page, 2)].v
    BY <2>1 DEF RVInit, ZeroTable, Invalid
  <2>3. LookupTable(page) = NoFrame
    BY <2>2 DEF LookupTable
  <2> QED BY <2>3 DEF vmm_virt_to_phys
<1>3. Mapping = [s \in {"kernel"} |-> [page \in Pages |-> Invalid]]
  BY <1>2 DEF Mapping
<1> QED BY <1>1, <1>3 DEF Abstract!Init, Abstract!Empty, Abstract!NoReq

\* A call that starts is a request, one that fails or writes ends it, all else stutters.
LEMMA AbstractStep ==
  ASSUME RVType, MapStep
  PROVE  [Abstract!Next]_<<Mapping, Req>>
<1>1. ASSUME SameMap PROVE Mapping' = Mapping
  BY <1>1 DEF Mapping, SameMap, Pages
<1>2. CASE SameMap /\ SameCall
  <2>1. Req' = Req
    BY <1>2 DEF Req, SameCall, NoCall, Valid
  <2> QED BY <1>1, <1>2, <2>1
<1>3. CASE SameMap /\ (InitStarts \/ LoopEnds)
  <2>1. Req' = Req
    BY <1>3 DEF Req, InitStarts, LoopEnds, NoCall
  <2> QED BY <1>1, <1>3, <2>1
<1>4. CASE SameMap /\ CallFails
  <2>1. Req # <<>> /\ Req' = <<>>
    BY <1>4 DEF Req, CallFails, WalkFailed, NoCall
  <2> QED BY <1>1, <1>4, <2>1 DEF Abstract!Next, Abstract!Fail, Abstract!NoReq, Req
<1>5. ASSUME SameMap, NEW page, NEW target, NEW flags, CallStarts(page, target, flags)
      PROVE  Abstract!Request
  <2>1. Req = <<>> /\ Req' = <<"kernel", page, Valid(target, flags)>>
    BY <1>5 DEF Req, CallStarts, NoCall, Valid
  <2>2. /\ page \in Pages
        /\ Valid(target, flags) \in {Valid(p, f) : p \in Pages, f \in {PAGE_KERNEL_EXEC, PAGE_KERNEL_DATA}}
    BY <1>5 DEF CallStarts
  <2> QED BY <1>1, <1>5, <2>1, <2>2 DEF Abstract!Request, Abstract!NoReq, Req, Pages
<1>6. CASE SameMap /\ (LoopMaps \/ ClientMaps)
  BY <1>5, <1>6 DEF LoopMaps, ClientMaps, Abstract!Next
<1>7. CASE CallWrites
  <2>1. /\ Req = <<"kernel", call.va, Valid(call.ppn, call.flags)>> /\ Req' = <<>>
        /\ call.va \in Pages
    BY <1>7 DEF Req, CallWrites, NoCall, MapCalls
  <2>2. Mapping' = [Mapping EXCEPT !["kernel"][call.va] = Valid(call.ppn, call.flags)]
    BY <1>7, <2>1 DEF Mapping, CallWrites, Pages
  <2> QED BY <2>1, <2>2 DEF Abstract!Next, Abstract!Done, Abstract!NoReq, Req
<1> QED BY <1>2, <1>3, <1>4, <1>6, <1>7 DEF MapStep

\* vmm_map_page implements the abstract address space: the steps of vmm_walk, with the
\* tables it allocates, change no translation, and the write changes that of the page.
THEOREM PagesImplementAddrSpace == RVSpec => ImplementsAddrSpace
<1>1. RVInv /\ [RVNext]_rvVars => [Abstract!Next]_<<Mapping, Req>>
  <2> SUFFICES ASSUME RVInv, [RVNext]_rvVars PROVE [Abstract!Next]_<<Mapping, Req>>
    OBVIOUS
  <2>1. IInv /\ Shape /\ LoopBounds /\ RVType
    BY DEF RVInv, Shape
  <2>2. MapStep
    BY <2>1, StepKinds
  <2> QED BY <2>1, <2>2, AbstractStep
<1> QED BY <1>1, AbstractInit, RVInvariance, PTL DEF RVSpec, ImplementsAddrSpace, Abstract!Spec, Req
=============================================================================
