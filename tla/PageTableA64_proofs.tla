------------------------- MODULE PageTableA64_proofs -------------------------
(***************************************************************************)
(* Proofs about the arm64 page tables: the pool of ASIDs (AsidsExclusive), *)
(* the tables of the roots (TablesAccounted), the TLB (TlbCoherent) and    *)
(* the refinement of AddrSpace, for any number of levels.                  *)
(***************************************************************************)
EXTENDS PageTableA64, PhysFrame_proofs

----------------------------------------------------------------------------
(* The pool of ASIDs.                                                      *)

\* A call of each kind has its fields; a root that is being created is not yet among the
\* roots, one that is being destroyed still is.
CallKinds ==
  \/ call = NoCall
  \/ \E s, t : call = [op |-> "create", root |-> s, table |-> t] /\ s \notin Live
  \/ \E s, st : call = [op |-> "destroy", root |-> s, stack |-> st] /\ s \in Live
  \/ \E o \in {"map", "unmap"} : \E s, p, e, l, t :
       call = [op |-> o, root |-> s, va |-> p, entry |-> e, level |-> l, table |-> t]
  \/ \E s, p : call = [op |-> "flush", root |-> s, va |-> p]

AsidInv ==
  /\ AsidsExclusive
  /\ \A s \in Live : roots[s].asid \in 1 .. ASID_POOL_SIZE - 1
  /\ CallKinds

\* The ASID that asid_alloc takes is free.
LEMMA NewAsid ==
  ASSUME AsidsFree # {}
  PROVE  Min(AsidsFree) \in 1 .. ASID_POOL_SIZE - 1 /\ Min(AsidsFree) \notin g_asid_used
<1>1. AsidsFree \in SUBSET Nat
  BY A64Assumption DEF AsidsFree
<1>2. Min(AsidsFree) \in AsidsFree
  BY <1>1, MinIsLeast
<1> QED BY <1>2 DEF AsidsFree

\* Steps that leave pool and roots alone.
LEMMA SamePool ==
  ASSUME AsidInv, UNCHANGED <<g_asid_used, roots>>, CallKinds'
  PROVE  AsidInv'
  BY DEF AsidInv, AsidsExclusive, Live

LEMMA CreateAsidPool ==
  ASSUME AsidInv, arch_pagetable_create_asid
  PROVE  AsidInv'
<1>1. call' = NoCall /\ CallKinds'
  BY DEF arch_pagetable_create_asid, CallKinds, NoCall
<1>2. CASE AsidsFree = {}
  BY <1>1, <1>2, SamePool DEF arch_pagetable_create_asid
<1>3. CASE AsidsFree # {}
  <2>1. PICK s : s = call.root /\ s \notin Live
    BY DEF arch_pagetable_create_asid, AsidInv, CallKinds, NoCall
  <2>2. PICK a : a = Min(AsidsFree) /\ a \in 1 .. ASID_POOL_SIZE - 1 /\ a \notin g_asid_used
    BY <1>3, NewAsid
  <2>3. /\ g_asid_used' = g_asid_used \cup {a}
        /\ roots' = [x \in Live \cup {s} |->
                       IF x = s THEN [ttbr0_phys |-> call.table, asid |-> a] ELSE roots[x]]
    BY <1>3, <2>1, <2>2 DEF arch_pagetable_create_asid, asid_alloc
  <2>4. /\ Live' = Live \cup {s} /\ roots'[s].asid = a
        /\ \A x \in Live : roots'[x] = roots[x]
    BY <2>1, <2>3 DEF Live
  <2>5. \A x \in Live : roots[x].asid \in g_asid_used
    BY DEF AsidInv, AsidsExclusive
  <2>6. g_asid_used' = {roots'[x].asid : x \in Live'}
    <3>1. {roots'[x].asid : x \in Live'} = {roots[x].asid : x \in Live} \cup {a}
      BY <2>1, <2>4
    <3> QED BY <2>3, <3>1 DEF AsidInv, AsidsExclusive
  <2>7. \A x, y \in Live' : roots'[x].asid = roots'[y].asid => x = y
    BY <2>2, <2>4, <2>5 DEF AsidInv, AsidsExclusive
  <2>8. AsidsExclusive'
    BY <2>6, <2>7 DEF AsidsExclusive
  <2>9. \A x \in Live' : roots'[x].asid \in 1 .. ASID_POOL_SIZE - 1
    BY <2>2, <2>4 DEF AsidInv
  <2> QED BY <1>1, <2>8, <2>9 DEF AsidInv
<1> QED BY <1>2, <1>3

LEMMA FreeTablePool ==
  ASSUME AsidInv, free_table_recursive
  PROVE  AsidInv'
<1>0. call.op = "destroy"
  BY DEF free_table_recursive
<1>1. PICK s, st : call = [op |-> "destroy", root |-> s, stack |-> st] /\ s \in Live
  BY <1>0 DEF AsidInv, CallKinds, NoCall
<1>2. CASE UNCHANGED <<g_asid_used, roots>> /\ \E new : call' = [call EXCEPT !.stack = new]
  <2>1. PICK new : call' = [call EXCEPT !.stack = new]
    BY <1>2
  <2>2. call' = [op |-> "destroy", root |-> s, stack |-> new] /\ s \in Live'
    BY <1>1, <1>2, <2>1 DEF Live
  <2>3. CallKinds'
    BY <2>2 DEF CallKinds
  <2> QED BY <1>2, <2>3, SamePool
<1>3. CASE /\ asid_free(roots[call.root].asid)
           /\ roots' = Restrict(roots, Live \ {call.root})
           /\ call' = NoCall
  <2>1. PICK a : a = roots[s].asid
    OBVIOUS
  <2>2. g_asid_used' = g_asid_used \ {a} /\ roots' = [x \in Live \ {s} |-> roots[x]]
    BY <1>1, <1>3, <2>1 DEF asid_free, Restrict
  <2>3. Live' = Live \ {s} /\ \A x \in Live' : roots'[x] = roots[x]
    BY <2>2 DEF Live
  <2>4. \A x \in Live' : roots[x].asid # a
    BY <1>1, <2>1, <2>3 DEF AsidInv, AsidsExclusive
  <2>5. g_asid_used' = {roots'[x].asid : x \in Live'}
    <3>1. g_asid_used = {roots[x].asid : x \in Live}
      BY DEF AsidInv, AsidsExclusive
    <3>2. {roots[x].asid : x \in Live} = {roots'[x].asid : x \in Live'} \cup {a}
      BY <1>1, <2>1, <2>3
    <3>3. a \notin {roots'[x].asid : x \in Live'}
      BY <2>3, <2>4
    <3> QED BY <2>2, <3>1, <3>2, <3>3
  <2>6. \A x, y \in Live' : roots'[x].asid = roots'[y].asid => x = y
    BY <2>3 DEF AsidInv, AsidsExclusive
  <2>7. AsidsExclusive'
    BY <2>5, <2>6 DEF AsidsExclusive
  <2>8. \A x \in Live' : roots'[x].asid \in 1 .. ASID_POOL_SIZE - 1
    BY <2>3 DEF AsidInv
  <2>9. CallKinds'
    BY <1>3 DEF CallKinds, NoCall
  <2> QED BY <2>7, <2>8, <2>9 DEF AsidInv
<1> QED BY <1>2, <1>3 DEF free_table_recursive

LEMMA CallSteps ==
  ASSUME AsidInv,
         \/ BootStep
         \/ \E s \in Spaces : arch_pagetable_create(s) \/ arch_pagetable_destroy(s)
         \/ \E s \in Spaces, page \in MapPages :
              \/ \E phys \in MapPhys, prot \in Prots : arch_map_page(s, page, phys, prot)
              \/ arch_unmap_page(s, page)
              \/ tlb_fill(s, page)
         \/ walk_create
         \/ write_entry
         \/ tlb_invalidate_va_asid
         \/ UNCHANGED a64Vars
  PROVE  AsidInv'
<1>1. UNCHANGED <<g_asid_used, roots>>
  BY DEF BootStep, ptVars, arch_pagetable_create, arch_pagetable_destroy, arch_map_page,
         arch_unmap_page, tlb_fill, walk_create, write_entry, tlb_invalidate_va_asid, a64Vars
<1>2. Live' = Live
  BY <1>1 DEF Live
<1>3. CASE UNCHANGED call
  <2>1. CallKinds'
    BY <1>2, <1>3 DEF AsidInv, CallKinds, NoCall
  <2> QED BY <1>1, <2>1, SamePool
<1>4. CASE call' = NoCall
  <2>1. CallKinds'
    BY <1>4 DEF CallKinds, NoCall
  <2> QED BY <1>1, <2>1, SamePool
<1>5. ASSUME NEW s \in Spaces, arch_pagetable_create(s) PROVE AsidInv'
  <2>1. CASE NextFrame = NoFrame
    BY <1>3, <1>5, <2>1 DEF arch_pagetable_create
  <2>2. CASE NextFrame # NoFrame
    <3>1. call' = [op |-> "create", root |-> s, table |-> NextFrame] /\ s \notin Live'
      BY <1>2, <1>5, <2>2 DEF arch_pagetable_create
    <3>2. CallKinds'
      BY <3>1 DEF CallKinds
    <3> QED BY <1>1, <3>2, SamePool
  <2> QED BY <2>1, <2>2
<1>6. ASSUME NEW s \in Spaces, arch_pagetable_destroy(s) PROVE AsidInv'
  <2>1. s \in Live' /\ \E st : call' = [op |-> "destroy", root |-> s, stack |-> st]
    BY <1>2, <1>6 DEF arch_pagetable_destroy
  <2>2. CallKinds'
    BY <2>1 DEF CallKinds
  <2> QED BY <1>1, <2>2, SamePool
<1>7. ASSUME NEW o \in {"map", "unmap"}, NEW s, NEW page, NEW entry, WalkCall(o, s, page, entry)
      PROVE  AsidInv'
  <2>1. CallKinds'
    BY <1>7 DEF CallKinds, WalkCall
  <2> QED BY <1>1, <2>1, SamePool
<1>8. CASE walk_create
  <2>1. PICK o \in {"map", "unmap"} : \E s, p, e, l, t :
          call = [op |-> o, root |-> s, va |-> p, entry |-> e, level |-> l, table |-> t]
    BY <1>8 DEF walk_create, AsidInv, CallKinds, NoCall
  <2>2. PICK s, p, e, l, t :
          call = [op |-> o, root |-> s, va |-> p, entry |-> e, level |-> l, table |-> t]
    BY <2>1
  <2>3. ASSUME NEW f, call' = [call EXCEPT !.level = @ + 1, !.table = f] PROVE AsidInv'
    <3>1. call' = [op |-> o, root |-> s, va |-> p, entry |-> e, level |-> l + 1, table |-> f]
      BY <2>2, <2>3
    <3>2. CallKinds'
      BY <3>1 DEF CallKinds
    <3> QED BY <1>1, <3>2, SamePool
  <2> QED BY <1>4, <1>8, <2>3 DEF walk_create
<1>9. CASE write_entry
  <2>1. CASE call' = [op |-> "flush", root |-> call.root, va |-> call.va]
    <3>1. CallKinds'
      BY <2>1 DEF CallKinds
    <3> QED BY <1>1, <3>1, SamePool
  <2> QED BY <1>4, <1>9, <2>1 DEF write_entry
<1> QED BY <1>3, <1>4, <1>5, <1>6, <1>7, <1>8, <1>9
    DEF BootStep, ptVars, arch_map_page, arch_unmap_page, tlb_fill, tlb_invalidate_va_asid, a64Vars

LEMMA NextAsidInv == AsidInv /\ [A64Next]_a64Vars => AsidInv'
  BY CallSteps, CreateAsidPool, FreeTablePool DEF A64Next

\* The ASIDs in use are those of the roots that exist, each of one root, whatever
\* roots are created and destroyed: also when arch_pagetable_create finds the pool
\* empty, and when a walk of another root is cut short by the lack of a frame.
THEOREM AsidsAreExclusive == A64Spec => []AsidsExclusive
<1>1. A64Init => AsidInv
  BY DEF A64Init, AsidInv, AsidsExclusive, Live, CallKinds, NoCall
<1>2. AsidInv => AsidsExclusive
  BY DEF AsidInv
<1> QED BY <1>1, <1>2, NextAsidInv, PTL DEF A64Spec

----------------------------------------------------------------------------
(* Induction, in the form that the provers can use, and page numbers.      *)

\* A set that has 0 and, with every number below m, the next one, has the numbers up to m.
LEMMA UpTo ==
  ASSUME NEW m \in Nat, NEW S, 0 \in S, \A n \in 0 .. m - 1 : n \in S => n + 1 \in S
  PROVE  \A n \in 0 .. m : n \in S
<1> SUFFICES ASSUME NEW x \in 0 .. m, x \notin S PROVE FALSE
  OBVIOUS
<1>1. PICK T : T = {n \in 0 .. m : n \notin S}
  OBVIOUS
<1>2. T \in SUBSET Nat /\ T # {}
  BY <1>1
<1>3. PICK k : k = Min(T) /\ k \in T /\ \A y \in T : k <= y
  BY <1>2, MinIsLeast
<1>4. k \in 0 .. m /\ k \notin S /\ k # 0
  BY <1>1, <1>3
<1>5. k - 1 \in 0 .. m - 1 /\ k - 1 \in S
  BY <1>1, <1>3, <1>4
<1>6. (k - 1) + 1 \in S
  BY <1>5
<1> QED BY <1>4, <1>6

\* Quotient and remainder.
LEMMA DivMod ==
  ASSUME NEW x \in Nat, NEW b \in Nat \ {0}
  PROVE  \E y \in Nat, z \in 0 .. b - 1 : y = x \div b /\ z = x % b /\ x = b * y + z
<1>1. PICK y, z : y = x \div b /\ z = x % b
  OBVIOUS
<1>2. y \in Nat /\ z \in 0 .. b - 1 /\ x = b * y + z
  BY <1>1
<1> QED BY <1>1, <1>2

\* A quotient is known by its bounds.
LEMMA QuotientIs ==
  ASSUME NEW x \in Nat, NEW b \in Nat \ {0}, NEW q \in Nat, b * q <= x, x < b * q + b
  PROVE  x \div b = q
<1>1. PICK y \in Nat, z \in 0 .. b - 1 : y = x \div b /\ z = x % b /\ x = b * y + z
  BY DivMod, Zenon
<1>2. ~ (y < q)
  <2> SUFFICES ASSUME y < q PROVE FALSE
    OBVIOUS
  <2>1. PICK k \in Nat : q = (y + 1) + k
    <3>1. q - (y + 1) \in Nat /\ q = (y + 1) + (q - (y + 1))
      OBVIOUS
    <3> QED BY <3>1
  <2>2. b * q = b * y + b + b * k /\ b * k >= 0
    BY <2>1
  <2> QED BY <1>1, <2>2
<1>3. ~ (q < y)
  <2> SUFFICES ASSUME q < y PROVE FALSE
    OBVIOUS
  <2>1. PICK k \in Nat : y = (q + 1) + k
    <3>1. y - (q + 1) \in Nat /\ y = (q + 1) + (y - (q + 1))
      OBVIOUS
    <3> QED BY <3>1
  <2>2. b * y = b * q + b + b * k /\ b * k >= 0
    BY <2>1
  <2> QED BY <1>1, <2>2
<1> QED BY <1>1, <1>2, <1>3

\* Dividing twice is dividing by the product.
LEMMA DivTwice ==
  ASSUME NEW x \in Nat, NEW b \in Nat \ {0}, NEW c \in Nat \ {0}
  PROVE  c * b \in Nat \ {0} /\ x \div (c * b) = (x \div b) \div c
<1>1. PICK y \in Nat, z \in 0 .. b - 1 : y = x \div b /\ z = x % b /\ x = b * y + z
  BY DivMod, Zenon
<1>2. PICK u \in Nat, v \in 0 .. c - 1 : u = y \div c /\ v = y % c /\ y = c * u + v
  BY DivMod, Zenon
<1>3. PICK d : d = c * b
  OBVIOUS
<1>4. d \in Nat \ {0}
  BY <1>3
<1>5. b * y = d * u + b * v
  <2>1. b * y = b * (c * u) + b * v
    BY <1>2
  <2>2. b * (c * u) = (c * b) * u
    BY <1>2
  <2> QED BY <2>1, <2>2, <1>3
<1>6. b * v \in Nat /\ b * v + b <= d
  <2>1. PICK k \in Nat : c = (v + 1) + k
    <3>1. c - (v + 1) \in Nat /\ c = (v + 1) + (c - (v + 1))
      BY <1>2
    <3> QED BY <3>1
  <2>2. b * c = b * v + b + b * k /\ b * k >= 0
    BY <2>1, <1>2
  <2>3. b * v \in Nat /\ c * b = b * c
    BY <1>2
  <2> QED BY <2>2, <2>3, <1>3
<1>7. d * u \in Nat
  BY <1>4, <1>2
<1>8. d * u <= x /\ x < d * u + d
  BY <1>1, <1>4, <1>5, <1>6, <1>7
<1>9. x \div d = u
  BY <1>4, <1>8, QuotientIs
<1> QED BY <1>1, <1>2, <1>3, <1>4, <1>9

\* Pages that take the same way through the first levels.
SameWay(p, q, l) == \A j \in 0 .. l - 1 : level_index(p, j) = level_index(q, j)

LEMMA IndexIsEntry ==
  ASSUME NEW p \in Nat, NEW l \in 0 .. PT_LEVELS - 1
  PROVE  level_index(p, l) \in Indices /\ MmuIndex(p, l) = level_index(p, l)
<1>1. PT_LEVELS - 1 - l \in 0 .. PT_LEVELS - 1
  BY A64Assumption
<1>2. PICK b : b = PT_ENTRIES ^ (PT_LEVELS - 1 - l) /\ b \in Nat \ {0}
  BY <1>1, PowerAssumption
<1>3. PICK y : y = p \div b /\ y \in Nat
  BY <1>2, DivMod
<1>4. y % PT_ENTRIES \in Indices
  BY <1>3, A64Assumption DEF Indices
<1> QED BY <1>2, <1>3, <1>4 DEF level_index, MmuIndex

\* Two pages that take the same way through all levels are one page.
LEMMA OnePage ==
  ASSUME NEW p \in Pages, NEW q \in Pages, SameWay(p, q, PT_LEVELS)
  PROVE  p = q
<1>1. PICK e : e = PT_ENTRIES /\ e \in Nat \ {0}
  BY A64Assumption
<1>2. PICK m : m = PT_LEVELS /\ m \in Nat \ {0}
  BY A64Assumption
<1>3. p \in Nat /\ q \in Nat /\ p < e ^ m /\ q < e ^ m
  <2>1. e ^ m \in Nat
    <3>1. m - 1 \in 0 .. m - 1 /\ (m - 1) + 1 = m
      BY <1>2
    <3>2. e ^ (m - 1) \in Nat \ {0} /\ e ^ ((m - 1) + 1) = e * e ^ (m - 1)
      BY <3>1, <1>1, <1>2, PowerAssumption
    <3>3. e * e ^ (m - 1) \in Nat
      BY <3>2, <1>1
    <3> QED BY <3>1, <3>2, <3>3, Zenon
  <2>2. p \in 0 .. e ^ m - 1 /\ q \in 0 .. e ^ m - 1
    BY <1>1, <1>2 DEF Pages
  <2> QED BY <2>1, <2>2
<1>4. PICK S : S = {l \in 0 .. m : p \div (e ^ (m - l)) = q \div (e ^ (m - l))}
  OBVIOUS
<1>5. 0 \in S
  <2>1. m - 1 \in 0 .. m - 1 /\ (m - 1) + 1 = m /\ m - 0 = m
    BY <1>2
  <2>2. e ^ (m - 1) \in Nat \ {0} /\ e ^ ((m - 1) + 1) = e * e ^ (m - 1)
    BY <2>1, <1>1, <1>2, PowerAssumption
  <2>3. PICK b : b = e ^ m /\ b \in Nat \ {0}
    <3>1. e * e ^ (m - 1) \in Nat \ {0}
      BY <2>2, <1>1
    <3> QED BY <3>1, <2>1, <2>2, Zenon
  <2>4. p < b /\ q < b
    BY <1>3, <2>3
  <2>5. b * 0 = 0
    BY <2>3
  <2>6. p \div b = 0 /\ q \div b = 0
    BY <1>3, <2>3, <2>4, <2>5, QuotientIs
  <2>7. 0 \in 0 .. m
    BY <1>2
  <2> QED BY <1>4, <2>1, <2>3, <2>6, <2>7
<1>6. ASSUME NEW l \in 0 .. m - 1, l \in S PROVE l + 1 \in S
  <2>1. PICK k : k = m - (l + 1) /\ k \in 0 .. m - 1 /\ k + 1 = m - l /\ k = m - 1 - l
    BY <1>2
  <2>2. PICK b : b = e ^ k /\ b \in Nat \ {0} /\ e ^ (k + 1) = e * b
    BY <2>1, <1>1, <1>2, PowerAssumption
  <2>3. PICK y : y = p \div b /\ y \in Nat
    BY <1>3, <2>2, DivMod
  <2>4. PICK z : z = q \div b /\ z \in Nat
    BY <1>3, <2>2, DivMod
  <2>5. y % e = z % e
    <3>1. level_index(p, l) = y % e /\ level_index(q, l) = z % e
      BY <1>1, <1>2, <2>1, <2>2, <2>3, <2>4 DEF level_index
    <3>2. level_index(p, l) = level_index(q, l)
      BY <1>2 DEF SameWay
    <3> QED BY <3>1, <3>2
  <2>6. y \div e = z \div e
    <3>1. p \div (e * b) = y \div e
      BY <1>1, <1>3, <2>2, <2>3, DivTwice
    <3>2. q \div (e * b) = z \div e
      BY <1>1, <1>3, <2>2, <2>4, DivTwice
    <3>3. p \div (e ^ (m - l)) = q \div (e ^ (m - l))
      BY <1>4, <1>6
    <3> QED BY <3>1, <3>2, <3>3, <2>1, <2>2
  <2>7. y = z
    <3>1. PICK a \in Nat, c \in 0 .. e - 1 : a = y \div e /\ c = y % e /\ y = e * a + c
      BY <1>1, <2>3, DivMod, Zenon
    <3>2. PICK f \in Nat, g \in 0 .. e - 1 : f = z \div e /\ g = z % e /\ z = e * f + g
      BY <1>1, <2>4, DivMod, Zenon
    <3> QED BY <2>5, <2>6, <3>1, <3>2
  <2>8. l + 1 \in 0 .. m
    BY <1>2
  <2> QED BY <1>4, <2>1, <2>2, <2>3, <2>4, <2>7, <2>8
<1>7. m \in S
  <2>1. \A l \in 0 .. m : l \in S
    BY <1>2, <1>5, <1>6, UpTo
  <2> QED BY <1>2, <2>1
<1>8. e ^ (m - m) = 1
  <2>1. m - m = 0 /\ e ^ 0 = 1
    BY <1>1, <1>2, PowerAssumption
  <2> QED BY <2>1
<1>9. p \div 1 = p /\ q \div 1 = q
  BY <1>3
<1> QED BY <1>4, <1>7, <1>8, <1>9

\* Facts about pages that take the same way.
LEMMA SameWayZero == \A p, q : SameWay(p, q, 0)
<1>1. 0 .. 0 - 1 = {}
  OBVIOUS
<1> QED BY <1>1, Zenon DEF SameWay

LEMMA SameWaySelf == \A p, l : SameWay(p, p, l)
  BY Zenon DEF SameWay

LEMMA SameWaySym == \A p, q, l : SameWay(p, q, l) => SameWay(q, p, l)
  BY Zenon DEF SameWay

LEMMA SameWayTrans == \A p, q, r, l : SameWay(p, q, l) /\ SameWay(q, r, l) => SameWay(p, r, l)
  BY Zenon DEF SameWay

LEMMA SameWayNext ==
  ASSUME NEW p, NEW q, NEW l \in Nat
  PROVE  SameWay(p, q, l + 1) <=> SameWay(p, q, l) /\ level_index(p, l) = level_index(q, l)
<1>1. \A j : j \in 0 .. (l + 1) - 1 <=> j \in 0 .. l - 1 \/ j = l
  OBVIOUS
<1> QED BY <1>1, Zenon DEF SameWay

----------------------------------------------------------------------------
(* The tables are trees.                                                   *)

\* An entry that free_table_recursive has left behind: of the entries before the next
\* one only the last may still lead to a table, the one that is being freed.
Stale(f, k) ==
  /\ call.op = "destroy"
  /\ \E j \in 1 .. Len(call.stack) :
       /\ call.stack[j].table = f /\ k < call.stack[j].i
       /\ ~ (j > 1 /\ k = call.stack[j].i - 1)

Edge(f, k) == tables[f][k].v /\ ~ Stale(f, k)

\* Table f lies at level l of space s, on the way of a page.
Slot(own, lev, pg, s, page, l, f) ==
  f \in DOMAIN tables /\ own[f] = s /\ lev[f] = l /\ SameWay(pg[f], page, l)

\* Entry k of table f leads to table c.
Leads(own, lev, pg, f, k, c) ==
  /\ c \in DOMAIN tables /\ own[c] = own[f] /\ lev[c] = lev[f] + 1
  /\ SameWay(pg[c], pg[f], lev[f]) /\ level_index(pg[c], lev[f]) = k

Placed(own, lev, pg) ==
  /\ own \in [DOMAIN tables -> Spaces]
  /\ lev \in [DOMAIN tables -> 0 .. PT_LEVELS - 1]
  /\ pg \in [DOMAIN tables -> Nat]

OnePlace(own, lev, pg) ==
  \A f, g \in DOMAIN tables :
    own[f] = own[g] /\ lev[f] = lev[g] /\ SameWay(pg[f], pg[g], lev[f]) => f = g

EdgesLead(own, lev, pg) ==
  \A f \in DOMAIN tables : \A k \in Indices :
    lev[f] < PT_LEVELS - 1 /\ Edge(f, k) => Leads(own, lev, pg, f, k, tables[f][k].addr)

Linked(own, lev, pg) ==
  \A c \in DOMAIN tables : lev[c] > 0 =>
    \E f \in DOMAIN tables : \E k \in Indices :
      Edge(f, k) /\ tables[f][k].addr = c /\ Leads(own, lev, pg, f, k, c)

Owned(own, lev) ==
  /\ \A s \in Live : /\ roots[s].ttbr0_phys \in DOMAIN tables
                     /\ own[roots[s].ttbr0_phys] = s /\ lev[roots[s].ttbr0_phys] = 0
  /\ \A f \in DOMAIN tables :
       own[f] \in Live \/ (call.op = "create" /\ own[f] = call.root /\ f = call.table)

\* The calls of free_table_recursive in progress are a path from the root downwards.
StackPath(own, lev) ==
  /\ call.stack \in Seq([table : DOMAIN tables, level : 0 .. PT_LEVELS - 1, i : 0 .. PT_ENTRIES])
  /\ call.stack # <<>>
  /\ call.stack[Len(call.stack)].table = roots[call.root].ttbr0_phys
  /\ \A j \in 1 .. Len(call.stack) :
       /\ call.stack[j].level = Len(call.stack) - j
       /\ own[call.stack[j].table] = call.root /\ lev[call.stack[j].table] = call.stack[j].level
  /\ \A j \in 1 .. Len(call.stack) : j > 1 =>
       /\ call.stack[j].i > 0
       /\ tables[call.stack[j].table][call.stack[j].i - 1].v
       /\ tables[call.stack[j].table][call.stack[j].i - 1].addr = call.stack[j - 1].table

\* What the call in progress holds.
CallPlace(own, lev, pg) ==
  /\ call.op = "create" =>
       /\ call.table \in DOMAIN tables /\ own[call.table] = call.root /\ lev[call.table] = 0
       /\ tables[call.table] = ZeroTable
  /\ call.op = "destroy" => StackPath(own, lev)
  /\ call.op \in {"map", "unmap"} =>
       /\ call.level \in 0 .. PT_LEVELS - 1 /\ call.root \in Live /\ call.va \in MapPages
       /\ Slot(own, lev, pg, call.root, call.va, call.level, call.table)
  /\ call.op = "flush" => call.root \in Live /\ call.va \in MapPages

Forest(own, lev, pg) ==
  /\ Placed(own, lev, pg)
  /\ OnePlace(own, lev, pg)
  /\ EdgesLead(own, lev, pg)
  /\ Linked(own, lev, pg)
  /\ Owned(own, lev)
  /\ CallPlace(own, lev, pg)

TableType ==
  /\ tables = [f \in DOMAIN tables |-> tables[f]]
  /\ DOMAIN tables \subseteq Frames
  /\ \A f \in DOMAIN tables : tables[f] = [k \in Indices |-> tables[f][k]]
  /\ handed = DOMAIN tables
  /\ Live \subseteq Spaces
  /\ call # NoCall => phase = "run"

A64Inv == IInv /\ AsidInv /\ TableType /\ \E own, lev, pg : Forest(own, lev, pg)

----------------------------------------------------------------------------
(* Where the walks of the MMU end.                                         *)

Down(f, page, l) ==
  IF f = NoFrame THEN NoFrame
  ELSE LET entry == tables[f][MmuIndex(page, l)]
       IN  IF entry.v THEN entry.addr ELSE NoFrame

IsWalk(t, s, page) ==
  t = [l \in 0 .. PT_LEVELS - 1 |-> IF l = 0 THEN roots[s].ttbr0_phys ELSE Down(t[l - 1], page, l - 1)]

LEMMA WalkExists ==
  ASSUME NEW s, NEW page
  PROVE  \E t : IsWalk(t, s, page)
<1>1. PICK r : r = roots[s].ttbr0_phys
  OBVIOUS
<1>2. PICK m : m = PT_LEVELS - 1 /\ m \in Nat
  BY A64Assumption
<1>3. PICK S : S = {n \in 0 .. m : \E t :
                   t = [l \in 0 .. n |-> IF l = 0 THEN r ELSE Down(t[l - 1], page, l - 1)]}
  OBVIOUS
<1>4. 0 \in S
  <2>1. PICK t : t = [l \in 0 .. 0 |-> r]
    OBVIOUS
  <2>2. t = [l \in 0 .. 0 |-> IF l = 0 THEN r ELSE Down(t[l - 1], page, l - 1)]
    BY <2>1
  <2> QED BY <1>2, <1>3, <2>2
<1>5. ASSUME NEW n \in 0 .. m - 1, n \in S PROVE n + 1 \in S
  <2>1. PICK t : t = [l \in 0 .. n |-> IF l = 0 THEN r ELSE Down(t[l - 1], page, l - 1)]
    BY <1>3, <1>5
  <2>2. PICK u : u = [l \in 0 .. n + 1 |-> IF l <= n THEN t[l] ELSE Down(t[n], page, n)]
    OBVIOUS
  <2>3. \A l \in 0 .. n + 1 : u[l] = IF l = 0 THEN r ELSE Down(u[l - 1], page, l - 1)
    <3> SUFFICES ASSUME NEW l \in 0 .. n + 1 PROVE u[l] = IF l = 0 THEN r ELSE Down(u[l - 1], page, l - 1)
      OBVIOUS
    <3>1. CASE l = 0
      BY <2>1, <2>2, <3>1
    <3>2. CASE l # 0 /\ l <= n
      <4>1. l - 1 \in 0 .. n + 1 /\ l - 1 <= n /\ l \in 0 .. n
        BY <3>2
      <4>2. u[l] = t[l] /\ u[l - 1] = t[l - 1]
        BY <2>2, <3>2, <4>1
      <4>3. t[l] = Down(t[l - 1], page, l - 1)
        BY <2>1, <3>2, <4>1
      <4> QED BY <3>2, <4>2, <4>3
    <3>3. CASE l = n + 1
      <4>1. l - 1 = n /\ n \in 0 .. n + 1 /\ l # 0 /\ ~ (l <= n)
        BY <3>3
      <4>2. u[n] = t[n] /\ u[l] = Down(t[n], page, n)
        BY <2>2, <4>1
      <4> QED BY <4>1, <4>2
    <3> QED BY <3>1, <3>2, <3>3
  <2>4. u = [l \in 0 .. n + 1 |-> IF l = 0 THEN r ELSE Down(u[l - 1], page, l - 1)]
    BY <2>2, <2>3
  <2>5. n + 1 \in 0 .. m
    BY <1>2
  <2> QED BY <1>3, <2>4, <2>5
<1>6. m \in S
  <2>1. \A n \in 0 .. m : n \in S
    BY <1>2, <1>4, <1>5, UpTo
  <2> QED BY <1>2, <2>1
<1> QED BY <1>1, <1>2, <1>3, <1>6 DEF IsWalk

LEMMA LastTableWalk ==
  ASSUME NEW s, NEW page
  PROVE  \E t : IsWalk(t, s, page) /\ LastTable(s, page) = t[PT_LEVELS - 1]
<1>1. \E t : IsWalk(t, s, page)
  BY WalkExists
<1> QED BY <1>1 DEF LastTable, IsWalk, Down

\* The tables of a space that nobody is destroying have no entry left behind.
LEMMA UsableNotStale ==
  ASSUME NEW own, NEW lev, NEW pg, Forest(own, lev, pg), NEW s, Usable(s),
         NEW f, own[f] = s, NEW k
  PROVE  ~ Stale(f, k)
<1> SUFFICES ASSUME Stale(f, k) PROVE FALSE
  OBVIOUS
<1>1. call.op = "destroy" /\ call.root # s
  BY DEF Stale, Usable
<1>2. PICK j \in 1 .. Len(call.stack) : call.stack[j].table = f
  BY DEF Stale
<1>3. own[call.stack[j].table] = call.root
  BY <1>1, <1>2 DEF Forest, CallPlace, StackPath
<1> QED BY <1>1, <1>2, <1>3

\* The table on the way of a page at the next level hangs from the one at this level, by
\* the entry of the page.
LEMMA ParentSlot ==
  ASSUME NEW own, NEW lev, NEW pg, Forest(own, lev, pg), NEW s, NEW page, NEW l \in Nat,
         NEW g, Slot(own, lev, pg, s, page, l + 1, g)
  PROVE  \E f : /\ Slot(own, lev, pg, s, page, l, f) /\ Edge(f, level_index(page, l))
               /\ tables[f][level_index(page, l)].addr = g
<1>1. PICK k : k = level_index(page, l)
  OBVIOUS
<1>2. g \in DOMAIN tables /\ own[g] = s /\ lev[g] = l + 1 /\ SameWay(pg[g], page, l + 1) /\ lev[g] > 0
  BY DEF Slot
<1>3. PICK f \in DOMAIN tables, j \in Indices :
        Edge(f, j) /\ tables[f][j].addr = g /\ Leads(own, lev, pg, f, j, g)
  BY <1>2 DEF Forest, Linked
<1>4. /\ own[g] = own[f] /\ lev[g] = lev[f] + 1
      /\ SameWay(pg[g], pg[f], lev[f]) /\ level_index(pg[g], lev[f]) = j
  BY <1>3 DEF Leads
<1>5. lev[f] = l
  <2>1. lev[f] \in Nat
    BY A64Assumption DEF Forest, Placed
  <2> QED BY <1>2, <1>4, <2>1
<1>6. SameWay(pg[g], page, l) /\ level_index(pg[g], l) = k
  <2>1. \A p : SameWay(p, page, l + 1) => SameWay(p, page, l) /\ level_index(p, l) = level_index(page, l)
    BY SameWayNext
  <2> QED BY <1>1, <1>2, <2>1, Zenon
<1>7. SameWay(pg[f], page, l)
  BY <1>4, <1>5, <1>6, SameWaySym, SameWayTrans
<1>8. j = k
  BY <1>4, <1>5, <1>6
<1> QED BY <1>1, <1>2, <1>3, <1>4, <1>5, <1>7, <1>8 DEF Slot

LEMMA DownSlot ==
  ASSUME NEW own, NEW lev, NEW pg, Forest(own, lev, pg), NEW s, NEW page \in Nat,
         NEW l \in 0 .. PT_LEVELS - 1, l < PT_LEVELS - 1,
         NEW f, Slot(own, lev, pg, s, page, l, f), Edge(f, level_index(page, l))
  PROVE  Slot(own, lev, pg, s, page, l + 1, tables[f][level_index(page, l)].addr)
<1>1. PICK k : k = level_index(page, l) /\ k \in Indices
  BY IndexIsEntry
<1>2. PICK c : c = tables[f][k].addr
  OBVIOUS
<1>3. f \in DOMAIN tables /\ own[f] = s /\ lev[f] = l /\ SameWay(pg[f], page, l) /\ l \in Nat
  BY A64Assumption DEF Slot
<1>4. Leads(own, lev, pg, f, k, c)
  BY <1>1, <1>2, <1>3 DEF Forest, EdgesLead
<1>5. /\ c \in DOMAIN tables /\ own[c] = s /\ lev[c] = l + 1
      /\ SameWay(pg[c], pg[f], l) /\ level_index(pg[c], l) = k
  BY <1>3, <1>4 DEF Leads
<1>6. SameWay(pg[c], page, l)
  BY <1>3, <1>5, SameWayTrans
<1>7. SameWay(pg[c], page, l + 1)
  BY <1>1, <1>3, <1>5, <1>6, SameWayNext
<1> QED BY <1>1, <1>2, <1>5, <1>7 DEF Slot

\* One table at most lies at a place.
LEMMA SlotUnique ==
  ASSUME NEW own, NEW lev, NEW pg, Forest(own, lev, pg), NEW s, NEW page, NEW l,
         NEW f, NEW g, Slot(own, lev, pg, s, page, l, f), Slot(own, lev, pg, s, page, l, g)
  PROVE  f = g
<1>1. /\ f \in DOMAIN tables /\ g \in DOMAIN tables /\ own[f] = own[g] /\ lev[f] = lev[g]
      /\ SameWay(pg[f], page, lev[f]) /\ SameWay(pg[g], page, lev[f])
  BY DEF Slot
<1>2. SameWay(pg[f], pg[g], lev[f])
  BY <1>1, SameWaySym, SameWayTrans
<1> QED BY <1>1, <1>2 DEF Forest, OnePlace

\* A walk meets, level by level, the tables on the way of its page.
WalkFinds(own, lev, pg, s, page, t, l) ==
  \/ Slot(own, lev, pg, s, page, l, t[l])
  \/ t[l] = NoFrame /\ \A f : ~ Slot(own, lev, pg, s, page, l, f)

LEMMA WalkStep ==
  ASSUME NEW own, NEW lev, NEW pg, Forest(own, lev, pg), TableType,
         NEW s, Usable(s), NEW page \in Nat, NEW t, IsWalk(t, s, page),
         NEW l \in 0 .. PT_LEVELS - 1, l < PT_LEVELS - 1, WalkFinds(own, lev, pg, s, page, t, l)
  PROVE  WalkFinds(own, lev, pg, s, page, t, l + 1)
<1>1. PICK k : k = level_index(page, l) /\ k = MmuIndex(page, l) /\ k \in Indices
  BY IndexIsEntry
<1>2. l \in Nat /\ l + 1 \in 0 .. PT_LEVELS - 1 /\ l + 1 # 0 /\ (l + 1) - 1 = l
  BY A64Assumption
<1>3. t[l + 1] = Down(t[l], page, l)
  BY <1>2 DEF IsWalk
<1>4. ASSUME NEW g, Slot(own, lev, pg, s, page, l + 1, g)
      PROVE  \E f : Slot(own, lev, pg, s, page, l, f) /\ Edge(f, k)
  <2>1. l \in Nat
    BY <1>2
  <2>2. PICK f : Slot(own, lev, pg, s, page, l, f) /\ Edge(f, level_index(page, l))
    BY <1>4, <2>1, ParentSlot
  <2> QED BY <1>1, <2>2
<1>5. CASE t[l] = NoFrame /\ \A f : ~ Slot(own, lev, pg, s, page, l, f)
  <2>1. t[l + 1] = NoFrame
    BY <1>3, <1>5 DEF Down
  <2>2. \A g : ~ Slot(own, lev, pg, s, page, l + 1, g)
    BY <1>4, <1>5
  <2> QED BY <2>1, <2>2 DEF WalkFinds
<1>6. CASE Slot(own, lev, pg, s, page, l, t[l])
  <2>1. PICK f : f = t[l]
    OBVIOUS
  <2>2. f # NoFrame /\ own[f] = s
    <3>1. NoFrame \notin DOMAIN tables
      BY SizeAssumption DEF TableType, Frames, NoFrame
    <3> QED BY <1>6, <2>1, <3>1 DEF Slot
  <2>3. CASE tables[f][k].v
    <3>1. t[l + 1] = tables[f][k].addr
      BY <1>1, <1>3, <2>1, <2>2, <2>3 DEF Down
    <3>2. Edge(f, k)
      BY <2>2, <2>3, UsableNotStale DEF Edge
    <3>3. Slot(own, lev, pg, s, page, l + 1, tables[f][k].addr)
      BY <1>1, <1>6, <2>1, <3>2, DownSlot
    <3> QED BY <3>1, <3>3 DEF WalkFinds
  <2>4. CASE ~ tables[f][k].v
    <3>1. t[l + 1] = NoFrame
      BY <1>1, <1>3, <2>1, <2>2, <2>4 DEF Down
    <3>2. ASSUME NEW g, Slot(own, lev, pg, s, page, l + 1, g) PROVE FALSE
      <4>1. PICK h : Slot(own, lev, pg, s, page, l, h) /\ Edge(h, k)
        BY <1>4, <3>2
      <4>2. h = f
        BY <1>6, <2>1, <4>1, SlotUnique
      <4> QED BY <2>4, <4>1, <4>2 DEF Edge
    <3> QED BY <3>1, <3>2 DEF WalkFinds
  <2> QED BY <2>3, <2>4
<1> QED BY <1>5, <1>6 DEF WalkFinds

\* The entry that a page has in the last table on its way, if that table is there.
EntryAt(own, lev, pg, s, page, e) ==
  \/ \E f : /\ Slot(own, lev, pg, s, page, PT_LEVELS - 1, f)
            /\ e = tables[f][level_index(page, PT_LEVELS - 1)]
  \/ /\ e = Invalid
     /\ \A f : ~ Slot(own, lev, pg, s, page, PT_LEVELS - 1, f)

LEMMA TranslateIs ==
  ASSUME NEW own, NEW lev, NEW pg, Forest(own, lev, pg), TableType,
         NEW s, Usable(s), NEW page \in Nat
  PROVE  EntryAt(own, lev, pg, s, page, Translate(s, page))
<1>1. PICK m : m = PT_LEVELS - 1 /\ m \in Nat
  BY A64Assumption
<1>2. PICK t : IsWalk(t, s, page) /\ LastTable(s, page) = t[m]
  BY <1>1, LastTableWalk
<1>3. PICK S : S = {l \in 0 .. m : WalkFinds(own, lev, pg, s, page, t, l)}
  OBVIOUS
<1>4. 0 \in S
  <2>1. 0 \in 0 .. m
    BY <1>1
  <2>2. t[0] = roots[s].ttbr0_phys
    BY <1>1, <1>2, <2>1 DEF IsWalk
  <2>3. s \in Live
    BY DEF Usable
  <2>4. t[0] \in DOMAIN tables /\ own[t[0]] = s /\ lev[t[0]] = 0
    BY <2>2, <2>3 DEF Forest, Owned
  <2>5. SameWay(pg[t[0]], page, 0)
    BY SameWayZero
  <2>6. WalkFinds(own, lev, pg, s, page, t, 0)
    BY <2>4, <2>5 DEF WalkFinds, Slot
  <2> QED BY <1>3, <2>1, <2>6
<1>5. ASSUME NEW l \in 0 .. m - 1, l \in S PROVE l + 1 \in S
  <2>1. l \in 0 .. PT_LEVELS - 1 /\ l < PT_LEVELS - 1 /\ l + 1 \in 0 .. m
    BY <1>1, A64Assumption
  <2>2. WalkFinds(own, lev, pg, s, page, t, l)
    BY <1>3, <1>5
  <2>3. WalkFinds(own, lev, pg, s, page, t, l + 1)
    BY <1>2, <2>1, <2>2, WalkStep
  <2> QED BY <1>3, <2>1, <2>3
<1>6. WalkFinds(own, lev, pg, s, page, t, m)
  <2>1. \A l \in 0 .. m : l \in S
    BY <1>1, <1>4, <1>5, UpTo
  <2> QED BY <1>1, <1>3, <2>1
<1>7. MmuIndex(page, m) = level_index(page, m)
  BY <1>1, IndexIsEntry
<1>8. NoFrame \notin DOMAIN tables
  BY SizeAssumption DEF TableType, Frames, NoFrame
<1>9. CASE Slot(own, lev, pg, s, page, m, t[m])
  <2>1. t[m] # NoFrame
    BY <1>8, <1>9 DEF Slot
  <2>2. Translate(s, page) = tables[t[m]][level_index(page, m)]
    BY <1>1, <1>2, <1>7, <2>1 DEF Translate
  <2> QED BY <1>1, <1>9, <2>2 DEF EntryAt
<1>10. CASE t[m] = NoFrame /\ \A f : ~ Slot(own, lev, pg, s, page, m, f)
  <2>1. Translate(s, page) = Invalid
    BY <1>2, <1>10 DEF Translate
  <2> QED BY <1>1, <1>10, <2>1 DEF EntryAt
<1> QED BY <1>6, <1>9, <1>10 DEF WalkFinds

LEMMA EntryUnique ==
  ASSUME NEW own, NEW lev, NEW pg, Forest(own, lev, pg), NEW s, NEW page,
         NEW d, EntryAt(own, lev, pg, s, page, d), NEW e, EntryAt(own, lev, pg, s, page, e)
  PROVE  d = e
<1>1. ASSUME NEW f, NEW g, Slot(own, lev, pg, s, page, PT_LEVELS - 1, f),
             Slot(own, lev, pg, s, page, PT_LEVELS - 1, g)
      PROVE  f = g
  BY <1>1, SlotUnique
<1>2. CASE \E f : Slot(own, lev, pg, s, page, PT_LEVELS - 1, f)
  <2>1. PICK f : Slot(own, lev, pg, s, page, PT_LEVELS - 1, f)
    BY <1>2
  <2>2. d = tables[f][level_index(page, PT_LEVELS - 1)]
    BY <1>1, <2>1 DEF EntryAt
  <2>3. e = tables[f][level_index(page, PT_LEVELS - 1)]
    BY <1>1, <2>1 DEF EntryAt
  <2> QED BY <2>2, <2>3
<1>3. CASE ~ \E f : Slot(own, lev, pg, s, page, PT_LEVELS - 1, f)
  BY <1>3 DEF EntryAt
<1> QED BY <1>2, <1>3

----------------------------------------------------------------------------
(* The tables that are reached from a root.                                *)

IsLevels(t, s) ==
  t = [l \in 0 .. PT_LEVELS - 1 |-> IF l = 0 THEN {roots[s].ttbr0_phys} ELSE Children(t[l - 1])]

LEMMA LevelsExist ==
  ASSUME NEW s
  PROVE  \E t : IsLevels(t, s)
<1>1. PICK r : r = {roots[s].ttbr0_phys}
  OBVIOUS
<1>2. PICK m : m = PT_LEVELS - 1 /\ m \in Nat
  BY A64Assumption
<1>3. PICK S : S = {n \in 0 .. m : \E t : t = [l \in 0 .. n |-> IF l = 0 THEN r ELSE Children(t[l - 1])]}
  OBVIOUS
<1>4. 0 \in S
  <2>1. PICK t : t = [l \in 0 .. 0 |-> r]
    OBVIOUS
  <2>2. t = [l \in 0 .. 0 |-> IF l = 0 THEN r ELSE Children(t[l - 1])]
    BY <2>1
  <2> QED BY <1>2, <1>3, <2>2
<1>5. ASSUME NEW n \in 0 .. m - 1, n \in S PROVE n + 1 \in S
  <2>1. PICK t : t = [l \in 0 .. n |-> IF l = 0 THEN r ELSE Children(t[l - 1])]
    BY <1>3, <1>5
  <2>2. PICK u : u = [l \in 0 .. n + 1 |-> IF l <= n THEN t[l] ELSE Children(t[n])]
    OBVIOUS
  <2>3. \A l \in 0 .. n + 1 : u[l] = IF l = 0 THEN r ELSE Children(u[l - 1])
    <3> SUFFICES ASSUME NEW l \in 0 .. n + 1 PROVE u[l] = IF l = 0 THEN r ELSE Children(u[l - 1])
      OBVIOUS
    <3>1. CASE l = 0
      BY <2>1, <2>2, <3>1
    <3>2. CASE l # 0 /\ l <= n
      <4>1. l - 1 \in 0 .. n + 1 /\ l - 1 <= n /\ l \in 0 .. n
        BY <3>2
      <4>2. u[l] = t[l] /\ u[l - 1] = t[l - 1]
        BY <2>2, <3>2, <4>1
      <4>3. t[l] = Children(t[l - 1])
        BY <2>1, <3>2, <4>1
      <4> QED BY <3>2, <4>2, <4>3
    <3>3. CASE l = n + 1
      <4>1. l - 1 = n /\ n \in 0 .. n + 1 /\ l # 0 /\ ~ (l <= n)
        BY <3>3
      <4>2. u[n] = t[n] /\ u[l] = Children(t[n])
        BY <2>2, <4>1
      <4> QED BY <4>1, <4>2
    <3> QED BY <3>1, <3>2, <3>3
  <2>4. u = [l \in 0 .. n + 1 |-> IF l = 0 THEN r ELSE Children(u[l - 1])]
    BY <2>2, <2>3
  <2>5. n + 1 \in 0 .. m
    BY <1>2
  <2> QED BY <1>3, <2>4, <2>5
<1>6. m \in S
  <2>1. \A n \in 0 .. m : n \in S
    BY <1>2, <1>4, <1>5, UpTo
  <2> QED BY <1>2, <2>1
<1> QED BY <1>1, <1>2, <1>3, <1>6 DEF IsLevels

LEMMA ReachedLevels ==
  ASSUME NEW s
  PROVE  \E t : IsLevels(t, s) /\ Reached(s) = UNION {t[l] : l \in 0 .. PT_LEVELS - 1}
<1>1. \E t : IsLevels(t, s)
  BY LevelsExist
<1> QED BY <1>1 DEF Reached, IsLevels

\* The tables of space s at level l.
AtLevel(own, lev, s, l) == {f \in DOMAIN tables : own[f] = s /\ lev[f] = l}

LEMMA ChildrenLevel ==
  ASSUME NEW own, NEW lev, NEW pg, Forest(own, lev, pg), NEW s, Usable(s),
         NEW l \in 0 .. PT_LEVELS - 1, l < PT_LEVELS - 1
  PROVE  Children(AtLevel(own, lev, s, l)) = AtLevel(own, lev, s, l + 1)
<1>1. ASSUME NEW c, c \in Children(AtLevel(own, lev, s, l)) PROVE c \in AtLevel(own, lev, s, l + 1)
  <2>1. PICK f \in AtLevel(own, lev, s, l), k \in Indices : tables[f][k].v /\ c = tables[f][k].addr
    BY <1>1 DEF Children
  <2>2. f \in DOMAIN tables /\ own[f] = s /\ lev[f] = l
    BY <2>1 DEF AtLevel
  <2>3. Edge(f, k)
    BY <2>1, <2>2, UsableNotStale DEF Edge
  <2>4. Leads(own, lev, pg, f, k, c)
    BY <2>1, <2>2, <2>3 DEF Forest, EdgesLead
  <2> QED BY <2>2, <2>4 DEF Leads, AtLevel
<1>2. ASSUME NEW c, c \in AtLevel(own, lev, s, l + 1) PROVE c \in Children(AtLevel(own, lev, s, l))
  <2>1. c \in DOMAIN tables /\ own[c] = s /\ lev[c] = l + 1 /\ lev[c] > 0
    BY <1>2 DEF AtLevel
  <2>2. PICK f \in DOMAIN tables, k \in Indices :
          Edge(f, k) /\ tables[f][k].addr = c /\ Leads(own, lev, pg, f, k, c)
    BY <2>1 DEF Forest, Linked
  <2>3. own[f] = s /\ lev[c] = lev[f] + 1
    BY <2>1, <2>2 DEF Leads
  <2>4. lev[f] \in Nat
    BY A64Assumption DEF Forest, Placed
  <2>5. lev[f] = l
    BY <2>1, <2>3, <2>4
  <2>6. f \in AtLevel(own, lev, s, l) /\ tables[f][k].v
    BY <2>2, <2>3, <2>5 DEF AtLevel, Edge
  <2> QED BY <2>2, <2>6 DEF Children
<1> QED BY <1>1, <1>2

LEMMA ReachedIsOwned ==
  ASSUME NEW own, NEW lev, NEW pg, Forest(own, lev, pg), NEW s, Usable(s)
  PROVE  Reached(s) = {f \in DOMAIN tables : own[f] = s}
<1>1. PICK m : m = PT_LEVELS - 1 /\ m \in Nat
  BY A64Assumption
<1>2. PICK t : IsLevels(t, s) /\ Reached(s) = UNION {t[l] : l \in 0 .. m}
  BY <1>1, ReachedLevels
<1>3. PICK S : S = {l \in 0 .. m : t[l] = AtLevel(own, lev, s, l)}
  OBVIOUS
<1>4. 0 \in S
  <2>1. 0 \in 0 .. m
    BY <1>1
  <2>2. PICK r : r = roots[s].ttbr0_phys
    OBVIOUS
  <2>3. t[0] = {r}
    BY <1>1, <1>2, <2>1, <2>2 DEF IsLevels
  <2>4. r \in DOMAIN tables /\ own[r] = s /\ lev[r] = 0
    BY <2>2 DEF Usable, Forest, Owned
  <2>5. \A f \in DOMAIN tables : own[f] = s /\ lev[f] = 0 => f = r
    BY <2>4, SameWayZero DEF Forest, OnePlace
  <2> QED BY <1>3, <2>1, <2>3, <2>4, <2>5 DEF AtLevel
<1>5. ASSUME NEW l \in 0 .. m - 1, l \in S PROVE l + 1 \in S
  <2>1. l \in 0 .. PT_LEVELS - 1 /\ l < PT_LEVELS - 1 /\ l + 1 \in 0 .. m /\ l + 1 # 0 /\ (l + 1) - 1 = l
    BY <1>1, A64Assumption
  <2>2. t[l + 1] = Children(t[l])
    BY <1>1, <1>2, <2>1 DEF IsLevels
  <2>3. t[l] = AtLevel(own, lev, s, l)
    BY <1>3, <1>5
  <2>4. Children(AtLevel(own, lev, s, l)) = AtLevel(own, lev, s, l + 1)
    BY <2>1, ChildrenLevel
  <2> QED BY <1>3, <2>1, <2>2, <2>3, <2>4
<1>6. \A l \in 0 .. m : t[l] = AtLevel(own, lev, s, l)
  <2>1. \A l \in 0 .. m : l \in S
    BY <1>1, <1>4, <1>5, UpTo
  <2> QED BY <1>3, <2>1
<1>7. \A f \in DOMAIN tables : lev[f] \in 0 .. m
  BY <1>1 DEF Forest, Placed
<1> QED BY <1>2, <1>6, <1>7 DEF AtLevel

LEMMA InvAccounted == A64Inv => TablesAccounted
<1> SUFFICES ASSUME A64Inv, call = NoCall
             PROVE  /\ UNION {Reached(s) : s \in Live} = DOMAIN tables
                    /\ \A s, t \in Live : s # t => Reached(s) \cap Reached(t) = {}
                    /\ phase = "run" => handed = DOMAIN tables
  BY DEF TablesAccounted
<1>1. PICK own, lev, pg : Forest(own, lev, pg)
  BY DEF A64Inv
<1>2. call.op = "none"
  BY DEF NoCall
<1>3. \A s \in Live : Reached(s) = {f \in DOMAIN tables : own[f] = s}
  BY <1>1, <1>2, ReachedIsOwned DEF Usable
<1>4. \A f \in DOMAIN tables : own[f] \in Live
  BY <1>1, <1>2 DEF Forest, Owned
<1>5. UNION {Reached(s) : s \in Live} = DOMAIN tables
  BY <1>3, <1>4
<1>6. \A s, t \in Live : s # t => Reached(s) \cap Reached(t) = {}
  BY <1>3
<1> QED BY <1>5, <1>6 DEF A64Inv, TableType

----------------------------------------------------------------------------
(* Steps that leave the tables alone.                                      *)

\* Freeing the frame of a table.
LEMMA FreeFacts ==
  ASSUME IInv, NEW f \in handed, pmm_free_frame(f)
  PROVE  handed' = handed \ {f} /\ phase' = phase /\ phase = "run" /\ Next
<1>1. phase = "run" /\ phase' = phase
  BY DEF pmm_free_frame
<1>2. f \in Frames /\ f \in used
  BY <1>1 DEF IInv, TypeOK, Partition
<1>3. handed' = handed \ {f}
  BY <1>2 DEF pmm_free_frame
<1>4. f \in Freeable
  BY <1>2, SizeAssumption DEF Freeable, Frames
<1> QED BY <1>1, <1>3, <1>4 DEF Next

LEMMA SameTablesForest ==
  ASSUME NEW own, NEW lev, NEW pg, Forest(own, lev, pg), UNCHANGED tables,
         Owned(own, lev)', CallPlace(own, lev, pg)',
         \A f \in DOMAIN tables : \A k \in Indices :
           tables[f][k].v => (Stale(f, k)' <=> Stale(f, k))
  PROVE  Forest(own, lev, pg)'
<1>1. \A f \in DOMAIN tables : \A k \in Indices : Edge(f, k)' <=> Edge(f, k)
  BY DEF Edge
<1>2. \A f, k, c : Leads(own, lev, pg, f, k, c)' <=> Leads(own, lev, pg, f, k, c)
  BY DEF Leads
<1>3. Placed(own, lev, pg)'
  BY DEF Forest, Placed
<1>4. OnePlace(own, lev, pg)'
  BY DEF Forest, OnePlace
<1>5. EdgesLead(own, lev, pg)'
  BY <1>1, <1>2 DEF Forest, EdgesLead
<1>6. Linked(own, lev, pg)'
  <2> SUFFICES ASSUME NEW c \in DOMAIN tables, lev[c] > 0
               PROVE  \E f \in DOMAIN tables : \E k \in Indices :
                        Edge(f, k)' /\ tables[f][k].addr = c /\ Leads(own, lev, pg, f, k, c)'
    BY DEF Linked
  <2>1. PICK f \in DOMAIN tables, k \in Indices :
          Edge(f, k) /\ tables[f][k].addr = c /\ Leads(own, lev, pg, f, k, c)
    BY DEF Forest, Linked
  <2> QED BY <1>1, <1>2, <2>1
<1> QED BY <1>3, <1>4, <1>5, <1>6 DEF Forest

LEMMA ForestSame ==
  ASSUME NEW own, NEW lev, NEW pg, Forest(own, lev, pg), UNCHANGED <<tables, roots>>,
         call.op # "create", CallPlace(own, lev, pg)',
         \A f \in DOMAIN tables : \A k \in Indices :
           tables[f][k].v => (Stale(f, k)' <=> Stale(f, k))
  PROVE  Forest(own, lev, pg)'
<1>1. Owned(own, lev)'
  BY DEF Forest, Owned, Live
<1> QED BY <1>1, SameTablesForest

LEMMA ForestQuiet ==
  ASSUME NEW own, NEW lev, NEW pg, Forest(own, lev, pg), UNCHANGED <<tables, roots>>,
         call.op \notin {"create", "destroy"}, call'.op # "destroy", CallPlace(own, lev, pg)'
  PROVE  Forest(own, lev, pg)'
<1>1. \A f, k : ~ Stale(f, k) /\ ~ Stale(f, k)'
  BY DEF Stale
<1> QED BY <1>1, ForestSame

\* Nothing but the frame allocator and the TLB changes.
LEMMA ForestUnchanged ==
  ASSUME NEW own, NEW lev, NEW pg, Forest(own, lev, pg), UNCHANGED <<tables, roots, call>>
  PROVE  Forest(own, lev, pg)'
  BY DEF Forest, Placed, OnePlace, EdgesLead, Linked, Owned, CallPlace, StackPath, Leads, Slot, Edge,
         Stale, Live

\* A call that ends, and one that starts, without a change of tables.
LEMMA ForestReturns ==
  ASSUME NEW own, NEW lev, NEW pg, Forest(own, lev, pg), UNCHANGED <<tables, roots>>,
         call.op \notin {"create", "destroy"}, call' = NoCall
  PROVE  Forest(own, lev, pg)'
<1>1. call'.op = "none"
  BY DEF NoCall
<1>2. CallPlace(own, lev, pg)'
  BY <1>1 DEF CallPlace
<1> QED BY <1>1, <1>2, ForestQuiet

LEMMA ForestWalkStarts ==
  ASSUME NEW own, NEW lev, NEW pg, Forest(own, lev, pg), UNCHANGED <<tables, roots>>,
         call = NoCall, NEW o \in {"map", "unmap"}, NEW s \in Live, NEW page \in MapPages,
         NEW entry, WalkCall(o, s, page, entry)
  PROVE  Forest(own, lev, pg)'
<1>1. call.op = "none"
  BY DEF NoCall
<1>2. /\ call'.op = o /\ call'.root = s /\ call'.va = page /\ call'.level = 0
      /\ call'.table = roots[s].ttbr0_phys
  BY DEF WalkCall
<1>3. PICK r : r = roots[s].ttbr0_phys /\ r \in DOMAIN tables /\ own[r] = s /\ lev[r] = 0
  BY DEF Forest, Owned
<1>4. Slot(own, lev, pg, s, page, 0, r)'
  BY <1>3, SameWayZero DEF Slot
<1>5. 0 \in 0 .. PT_LEVELS - 1 /\ s \in Live'
  BY A64Assumption DEF Live
<1>6. CallPlace(own, lev, pg)'
  BY <1>2, <1>3, <1>4, <1>5 DEF CallPlace
<1> QED BY <1>1, <1>2, <1>6, ForestQuiet

LEMMA ForestDestroyStarts ==
  ASSUME NEW own, NEW lev, NEW pg, Forest(own, lev, pg), NEW s, arch_pagetable_destroy(s)
  PROVE  Forest(own, lev, pg)'
<1>1. call.op = "none" /\ s \in Live /\ UNCHANGED <<tables, roots>>
  BY DEF NoCall, arch_pagetable_destroy
<1>2. PICK r : r = roots[s].ttbr0_phys /\ r \in DOMAIN tables /\ own[r] = s /\ lev[r] = 0
  BY <1>1 DEF Forest, Owned
<1>3. PICK x : x = [table |-> r, level |-> 0, i |-> 0]
  OBVIOUS
<1>4. call'.op = "destroy" /\ call'.root = s /\ call'.stack = <<x>>
  BY <1>2, <1>3 DEF arch_pagetable_destroy
<1>5. Len(<<x>>) = 1 /\ <<x>>[1] = x
  OBVIOUS
<1>6. \A f : \A k \in Indices : ~ Stale(f, k) /\ ~ Stale(f, k)'
  <2>1. \A k \in Indices : ~ (k < x.i)
    BY <1>3 DEF Indices
  <2>2. \A j \in 1 .. Len(<<x>>) : <<x>>[j] = x
    BY <1>5
  <2> QED BY <1>1, <1>4, <2>1, <2>2 DEF Stale
<1>7. x \in [table : DOMAIN tables, level : 0 .. PT_LEVELS - 1, i : 0 .. PT_ENTRIES]
  BY <1>2, <1>3, A64Assumption
<1>8. <<x>> \in Seq([table : DOMAIN tables, level : 0 .. PT_LEVELS - 1, i : 0 .. PT_ENTRIES])
  BY <1>7
<1>9. StackPath(own, lev)'
  BY <1>1, <1>2, <1>3, <1>4, <1>5, <1>8 DEF StackPath
<1>10. CallPlace(own, lev, pg)'
  BY <1>4, <1>9 DEF CallPlace
<1> QED BY <1>1, <1>6, <1>10, ForestSame

----------------------------------------------------------------------------
(* The walk of arch_map_page and arch_unmap_page.                          *)

\* What a walk in progress holds.
LEMMA WalkAt ==
  ASSUME NEW own, NEW lev, NEW pg, Forest(own, lev, pg), AsidInv, call.op \in {"map", "unmap"}
  PROVE  /\ call.level \in 0 .. PT_LEVELS - 1 /\ call.root \in Live /\ call.va \in MapPages
         /\ Slot(own, lev, pg, call.root, call.va, call.level, call.table)
         /\ call.va \in Nat /\ call.va \in Pages
         /\ \E s, p, e, l, t :
              call = [op |-> call.op, root |-> s, va |-> p, entry |-> e, level |-> l, table |-> t]
<1>1. /\ call.level \in 0 .. PT_LEVELS - 1 /\ call.root \in Live /\ call.va \in MapPages
      /\ Slot(own, lev, pg, call.root, call.va, call.level, call.table)
  BY DEF Forest, CallPlace
<1>2. call.va \in Pages /\ call.va \in Nat
  <2>1. call.va \in 0 .. PT_ENTRIES ^ PT_LEVELS - 1
    BY <1>1, A64Assumption
  <2> QED BY <2>1 DEF Pages
<1>3. \E s, p, e, l, t :
        call = [op |-> call.op, root |-> s, va |-> p, entry |-> e, level |-> l, table |-> t]
  BY DEF AsidInv, CallKinds, NoCall
<1> QED BY <1>1, <1>2, <1>3

LEMMA ForestWalksDown ==
  ASSUME NEW own, NEW lev, NEW pg, Forest(own, lev, pg), AsidInv, UNCHANGED <<tables, roots>>,
         call.op \in {"map", "unmap"}, call.level < PT_LEVELS - 1,
         NEW e, e = tables[call.table][level_index(call.va, call.level)], e.v,
         call' = [call EXCEPT !.level = @ + 1, !.table = e.addr]
  PROVE  Forest(own, lev, pg)'
<1>1. PICK s, p, d, l, t :
        call = [op |-> call.op, root |-> s, va |-> p, entry |-> d, level |-> l, table |-> t]
  BY WalkAt
<1>2. call.root = s /\ call.va = p /\ call.level = l /\ call.table = t
  BY <1>1
<1>3. l \in 0 .. PT_LEVELS - 1 /\ s \in Live /\ p \in MapPages /\ p \in Nat /\ Slot(own, lev, pg, s, p, l, t)
  BY <1>2, WalkAt
<1>4. /\ call'.op = call.op /\ call'.root = s /\ call'.va = p /\ call'.level = l + 1
      /\ call'.table = e.addr
  BY <1>1
<1>5. Edge(t, level_index(p, l)) /\ e = tables[t][level_index(p, l)]
  <2>1. ~ Stale(t, level_index(p, l))
    BY DEF Stale
  <2> QED BY <1>2, <2>1 DEF Edge
<1>6. Slot(own, lev, pg, s, p, l + 1, e.addr)
  BY <1>2, <1>3, <1>5, DownSlot
<1>7. Slot(own, lev, pg, s, p, l + 1, e.addr)'
  BY <1>6 DEF Slot
<1>8. l + 1 \in 0 .. PT_LEVELS - 1 /\ s \in Live'
  BY <1>2, <1>3, A64Assumption DEF Live
<1>9. CallPlace(own, lev, pg)'
  BY <1>3, <1>4, <1>7, <1>8 DEF CallPlace
<1> QED BY <1>4, <1>9, ForestQuiet

\* A map with one more table.
With(own, f, x) == [y \in DOMAIN own \cup {f} |-> IF y = f THEN x ELSE own[y]]

\* What linking a new table f into entry k of table t does to the tables.
LinkedIn(t, k, f) ==
  /\ f \notin DOMAIN tables /\ DOMAIN tables' = DOMAIN tables \cup {f}
  /\ tables'[f] = ZeroTable
  /\ tables'[t][k] = Node(f)
  /\ \A j \in Indices : j # k => tables'[t][j] = tables[t][j]
  /\ \A g \in DOMAIN tables : g # t => tables'[g] = tables[g]

LEMMA LinkTableFacts ==
  ASSUME TableType, NEW t \in DOMAIN tables, t = call.table, NEW k \in Indices,
         k = level_index(call.va, call.level), NEW f \in Frames, f \notin DOMAIN tables, LinkTable(f)
  PROVE  /\ LinkedIn(t, k, f)
         /\ tables' = [g \in DOMAIN tables' |-> tables'[g]]
         /\ \A g \in DOMAIN tables' : tables'[g] = [j \in Indices |-> tables'[g][j]]
<1>1. PICK n : n = NewTable(f)
  OBVIOUS
<1>2. /\ DOMAIN n = DOMAIN tables \cup {f} /\ n = [g \in DOMAIN n |-> n[g]]
      /\ n[f] = ZeroTable /\ \A g \in DOMAIN tables : n[g] = tables[g]
  BY <1>1 DEF NewTable
<1>3. tables' = [n EXCEPT ![t][k] = Node(f)]
  BY <1>1 DEF LinkTable
<1>4. DOMAIN tables' = DOMAIN n /\ tables' = [g \in DOMAIN tables' |-> tables'[g]]
  BY <1>2, <1>3
<1>5. tables'[t] = [tables[t] EXCEPT ![k] = Node(f)] /\ \A g \in DOMAIN n : g # t => tables'[g] = n[g]
  BY <1>2, <1>3
<1>6. tables[t] = [j \in Indices |-> tables[t][j]]
  BY DEF TableType
<1>7. /\ tables'[t][k] = Node(f) /\ \A j \in Indices : j # k => tables'[t][j] = tables[t][j]
      /\ tables'[t] = [j \in Indices |-> tables'[t][j]]
  BY <1>5, <1>6
<1>8. tables'[f] = ZeroTable /\ ZeroTable = [j \in Indices |-> ZeroTable[j]]
  BY <1>2, <1>5 DEF ZeroTable
<1>9. \A g \in DOMAIN tables : g # t => tables'[g] = tables[g]
  BY <1>2, <1>5
<1>10. \A g \in DOMAIN tables' : tables'[g] = [j \in Indices |-> tables'[g][j]]
  BY <1>2, <1>4, <1>7, <1>8, <1>9 DEF TableType
<1> QED BY <1>2, <1>4, <1>7, <1>8, <1>9, <1>10 DEF LinkedIn

\* own, lev and pg placed a new table f as well.
PlacedToo(own, lev, pg, own2, lev2, pg2) ==
  \A g \in DOMAIN tables : own2[g] = own[g] /\ lev2[g] = lev[g] /\ pg2[g] = pg[g]

LEMMA ForestLinks ==
  ASSUME NEW own, NEW lev, NEW pg, Forest(own, lev, pg), AsidInv, TableType, UNCHANGED roots,
         call.op \in {"map", "unmap"}, call.level < PT_LEVELS - 1,
         NEW k, k = level_index(call.va, call.level), ~ tables[call.table][k].v,
         NEW f, LinkedIn(call.table, k, f),
         call' = [call EXCEPT !.level = @ + 1, !.table = f]
  PROVE  \E own2, lev2, pg2 :
           Forest(own2, lev2, pg2)' /\ PlacedToo(own, lev, pg, own2, lev2, pg2)
<1>1. PICK s, p, d, l, t :
        call = [op |-> call.op, root |-> s, va |-> p, entry |-> d, level |-> l, table |-> t]
  BY WalkAt
<1>2. call.root = s /\ call.va = p /\ call.level = l /\ call.table = t
  BY <1>1
<1>3. l \in 0 .. PT_LEVELS - 1 /\ s \in Live /\ p \in MapPages /\ p \in Nat /\ Slot(own, lev, pg, s, p, l, t)
  BY <1>2, WalkAt
<1>4. /\ call'.op = call.op /\ call'.root = s /\ call'.va = p /\ call'.level = l + 1
      /\ call'.table = f
  BY <1>1
<1>5. t \in DOMAIN tables /\ own[t] = s /\ lev[t] = l /\ SameWay(pg[t], p, l)
  BY <1>3 DEF Slot
<1>6. l \in Nat /\ l < PT_LEVELS - 1 /\ l + 1 \in 0 .. PT_LEVELS - 1 /\ s \in Spaces /\ l + 1 > 0
  BY <1>2, <1>3, A64Assumption DEF TableType
<1>7. k = level_index(p, l) /\ k \in Indices
  BY <1>2, <1>3, IndexIsEntry
<1>8. /\ f \notin DOMAIN tables /\ DOMAIN tables' = DOMAIN tables \cup {f}
      /\ tables'[f] = ZeroTable /\ tables'[t][k] = Node(f)
      /\ \A j \in Indices : j # k => tables'[t][j] = tables[t][j]
      /\ \A g \in DOMAIN tables : g # t => tables'[g] = tables[g]
  BY <1>2 DEF LinkedIn
<1>9. PICK own2 : own2 = With(own, f, s)
  OBVIOUS
<1>10. PICK lev2 : lev2 = With(lev, f, l + 1)
  OBVIOUS
<1>11. PICK pg2 : pg2 = With(pg, f, p)
  OBVIOUS
<1>30. PICK D : D = DOMAIN tables
  OBVIOUS
<1>31. PICK E : E = DOMAIN tables' /\ E = D \cup {f} /\ f \notin D
  BY <1>30, <1>8
<1>32. own \in [D -> Spaces] /\ lev \in [D -> 0 .. PT_LEVELS - 1] /\ pg \in [D -> Nat]
  BY <1>30 DEF Forest, Placed
<1>12. /\ own2 \in [DOMAIN tables' -> Spaces] /\ own2[f] = s
       /\ \A g \in DOMAIN tables : own2[g] = own[g]
  <2>1. own2 \in [E -> Spaces] /\ own2[f] = s /\ \A g \in D : own2[g] = own[g]
    BY <1>6, <1>31, <1>32, <1>9 DEF With
  <2> QED BY <1>30, <1>31, <2>1
<1>13. /\ lev2 \in [DOMAIN tables' -> 0 .. PT_LEVELS - 1] /\ lev2[f] = l + 1
       /\ \A g \in DOMAIN tables : lev2[g] = lev[g]
  <2>1. lev2 \in [E -> 0 .. PT_LEVELS - 1] /\ lev2[f] = l + 1 /\ \A g \in D : lev2[g] = lev[g]
    BY <1>6, <1>31, <1>32, <1>10 DEF With
  <2> QED BY <1>30, <1>31, <2>1
<1>14. /\ pg2 \in [DOMAIN tables' -> Nat] /\ pg2[f] = p
       /\ \A g \in DOMAIN tables : pg2[g] = pg[g]
  <2>1. pg2 \in [E -> Nat] /\ pg2[f] = p /\ \A g \in D : pg2[g] = pg[g]
    BY <1>3, <1>31, <1>32, <1>11 DEF With
  <2> QED BY <1>30, <1>31, <2>1
<1>15. \A g, j : ~ Stale(g, j) /\ ~ Stale(g, j)'
  BY <1>4 DEF Stale
<1>16. /\ ~ Edge(t, k) /\ Edge(t, k)' /\ tables'[t][k].addr = f
       /\ \A j \in Indices : ~ Edge(f, j)'
       /\ \A g \in DOMAIN tables : \A j \in Indices : ~ (g = t /\ j = k) =>
            (Edge(g, j)' <=> Edge(g, j)) /\ tables'[g][j] = tables[g][j]
  <2>1. ~ Edge(t, k) /\ Edge(t, k)' /\ tables'[t][k].addr = f
    BY <1>2, <1>8, <1>15 DEF Edge, Node
  <2>2. \A j \in Indices : ~ Edge(f, j)'
    BY <1>8 DEF Edge, ZeroTable, Invalid
  <2>3. \A g \in DOMAIN tables : \A j \in Indices : ~ (g = t /\ j = k) => tables'[g][j] = tables[g][j]
    BY <1>8
  <2>4. \A g \in DOMAIN tables : \A j \in Indices : ~ (g = t /\ j = k) => (Edge(g, j)' <=> Edge(g, j))
    BY <1>15, <2>3 DEF Edge
  <2> QED BY <2>1, <2>2, <2>3, <2>4
<1>17. \A g \in DOMAIN tables : \A j, c : Leads(own, lev, pg, g, j, c) => Leads(own2, lev2, pg2, g, j, c)'
  BY <1>8, <1>12, <1>13, <1>14 DEF Leads
<1>18. Leads(own2, lev2, pg2, t, k, f)'
  BY <1>5, <1>7, <1>8, <1>12, <1>13, <1>14, SameWaySym DEF Leads
<1>19. Placed(own2, lev2, pg2)'
  BY <1>12, <1>13, <1>14 DEF Placed
<1>20. \A g \in DOMAIN tables : ~ (own[g] = s /\ lev[g] = l + 1 /\ SameWay(pg[g], p, l + 1))
  <2> SUFFICES ASSUME NEW g, Slot(own, lev, pg, s, p, l + 1, g) PROVE FALSE
    BY DEF Slot
  <2>1. PICK h : Slot(own, lev, pg, s, p, l, h) /\ Edge(h, level_index(p, l))
    BY <1>6, ParentSlot
  <2>2. h = t
    BY <1>3, <2>1, SlotUnique
  <2> QED BY <1>7, <1>16, <2>1, <2>2
<1>21. OnePlace(own2, lev2, pg2)'
  <2> SUFFICES ASSUME NEW g \in DOMAIN tables', NEW h \in DOMAIN tables', own2[g] = own2[h],
                      lev2[g] = lev2[h], SameWay(pg2[g], pg2[h], lev2[g])
               PROVE  g = h
    BY DEF OnePlace
  <2>1. CASE g \in DOMAIN tables /\ h \in DOMAIN tables
    BY <1>12, <1>13, <1>14, <2>1 DEF Forest, OnePlace
  <2>2. CASE g = f /\ h \in DOMAIN tables
    <3>1. own[h] = s /\ lev[h] = l + 1 /\ SameWay(p, pg[h], l + 1)
      BY <1>12, <1>13, <1>14, <2>2
    <3> QED BY <1>20, <2>2, <3>1, SameWaySym
  <2>3. CASE h = f /\ g \in DOMAIN tables
    <3>1. own[g] = s /\ lev[g] = l + 1 /\ SameWay(pg[g], p, l + 1)
      BY <1>12, <1>13, <1>14, <2>3
    <3> QED BY <1>20, <2>3, <3>1
  <2> QED BY <1>8, <2>1, <2>2, <2>3
<1>22. EdgesLead(own2, lev2, pg2)'
  <2> SUFFICES ASSUME NEW g \in DOMAIN tables', NEW j \in Indices, lev2[g] < PT_LEVELS - 1, Edge(g, j)',
                      NEW c, c = tables'[g][j].addr
               PROVE  Leads(own2, lev2, pg2, g, j, c)'
    BY DEF EdgesLead, Leads
  <2>1. g # f
    BY <1>16
  <2>2. g \in DOMAIN tables /\ lev[g] < PT_LEVELS - 1
    BY <1>8, <1>13, <2>1
  <2>3. CASE g = t /\ j = k
    BY <1>16, <1>18, <2>3
  <2>4. CASE ~ (g = t /\ j = k)
    <3>1. Edge(g, j) /\ tables'[g][j] = tables[g][j]
      BY <1>16, <2>2, <2>4
    <3>2. Leads(own, lev, pg, g, j, c)
      BY <2>2, <3>1 DEF Forest, EdgesLead
    <3> QED BY <1>17, <2>2, <3>1, <3>2
  <2> QED BY <2>3, <2>4
<1>23. Linked(own2, lev2, pg2)'
  <2> SUFFICES ASSUME NEW c \in DOMAIN tables', lev2[c] > 0
               PROVE  \E g \in DOMAIN tables' : \E j \in Indices :
                        Edge(g, j)' /\ tables'[g][j].addr = c /\ Leads(own2, lev2, pg2, g, j, c)'
    BY DEF Linked
  <2>1. CASE c = f
    BY <1>5, <1>7, <1>8, <1>16, <1>18, <2>1
  <2>2. CASE c # f
    <3>1. c \in DOMAIN tables /\ lev[c] > 0
      BY <1>8, <1>13, <2>2
    <3>2. PICK g \in DOMAIN tables, j \in Indices :
            Edge(g, j) /\ tables[g][j].addr = c /\ Leads(own, lev, pg, g, j, c)
      BY <3>1 DEF Forest, Linked
    <3>3. Edge(g, j)' /\ tables'[g][j].addr = c
      BY <1>16, <3>2
    <3>4. Leads(own2, lev2, pg2, g, j, c)'
      BY <1>17, <3>2
    <3>5. g \in DOMAIN tables'
      BY <1>8
    <3> QED BY <3>3, <3>4, <3>5
  <2> QED BY <2>1, <2>2
<1>24. Owned(own2, lev2)'
  <2>1. Live' = Live
    BY DEF Live
  <2>2. \A x \in Live : /\ roots[x].ttbr0_phys \in DOMAIN tables
                        /\ own[roots[x].ttbr0_phys] = x /\ lev[roots[x].ttbr0_phys] = 0
    BY DEF Forest, Owned
  <2>3. \A g \in DOMAIN tables : own[g] \in Live
    BY DEF Forest, Owned
  <2>4. \A x \in Live : /\ roots'[x].ttbr0_phys \in DOMAIN tables'
                        /\ own2[roots'[x].ttbr0_phys] = x /\ lev2[roots'[x].ttbr0_phys] = 0
    BY <1>8, <1>12, <1>13, <2>2
  <2>5. \A g \in DOMAIN tables' : own2[g] \in Live
    BY <1>3, <1>8, <1>12, <2>3
  <2> QED BY <2>1, <2>4, <2>5 DEF Owned
<1>25. CallPlace(own2, lev2, pg2)'
  <2>1. Slot(own2, lev2, pg2, s, p, l + 1, f)'
    BY <1>8, <1>12, <1>13, <1>14, SameWaySelf DEF Slot
  <2>2. s \in Live'
    BY <1>3 DEF Live
  <2> QED BY <1>3, <1>4, <1>6, <2>1, <2>2 DEF CallPlace
<1>26. PlacedToo(own, lev, pg, own2, lev2, pg2)
  BY <1>12, <1>13, <1>14 DEF PlacedToo
<1>27. Forest(own2, lev2, pg2)'
  BY <1>19, <1>21, <1>22, <1>23, <1>24, <1>25 DEF Forest
<1> QED BY <1>26, <1>27

\* The last entry is written: no entry that leads to a table is touched.
LEMMA ForestWrites ==
  ASSUME NEW own, NEW lev, NEW pg, Forest(own, lev, pg), AsidInv, TableType, UNCHANGED roots,
         call.op \in {"map", "unmap"}, call.level = PT_LEVELS - 1,
         NEW k, k = level_index(call.va, call.level),
         tables' = [tables EXCEPT ![call.table][k] = call.entry],
         call' = [op |-> "flush", root |-> call.root, va |-> call.va]
  PROVE  /\ Forest(own, lev, pg)' /\ DOMAIN tables' = DOMAIN tables
         /\ tables' = [g \in DOMAIN tables' |-> tables'[g]]
         /\ \A g \in DOMAIN tables' : tables'[g] = [j \in Indices |-> tables'[g][j]]
         /\ tables'[call.table][k] = call.entry
         /\ \A g \in DOMAIN tables : \A j \in Indices :
              ~ (g = call.table /\ j = k) => tables'[g][j] = tables[g][j]
<1>1. PICK t : t = call.table
  OBVIOUS
<1>2. /\ t \in DOMAIN tables /\ lev[t] = PT_LEVELS - 1 /\ call.root \in Live /\ call.va \in MapPages
      /\ call.va \in Nat
  BY <1>1, WalkAt DEF Slot
<1>3. k \in Indices
  BY <1>2, WalkAt, IndexIsEntry
<1>4. call'.op = "flush" /\ call'.root = call.root /\ call'.va = call.va
  OBVIOUS
<1>5. PICK e : e = call.entry
  OBVIOUS
<1>6. tables' = [tables EXCEPT ![t][k] = e]
  BY <1>1, <1>5
<1>7. tables = [g \in DOMAIN tables |-> tables[g]] /\ tables[t] = [j \in Indices |-> tables[t][j]]
  BY <1>2 DEF TableType
<1>8. /\ DOMAIN tables' = DOMAIN tables /\ tables' = [g \in DOMAIN tables' |-> tables'[g]]
      /\ tables'[t] = [tables[t] EXCEPT ![k] = e]
      /\ \A g \in DOMAIN tables : g # t => tables'[g] = tables[g]
  BY <1>2, <1>6, <1>7
<1>9. /\ tables'[t][k] = e /\ \A j \in Indices : j # k => tables'[t][j] = tables[t][j]
      /\ tables'[t] = [j \in Indices |-> tables'[t][j]]
  BY <1>3, <1>7, <1>8
<1>10. \A g \in DOMAIN tables' : tables'[g] = [j \in Indices |-> tables'[g][j]]
  BY <1>8, <1>9 DEF TableType
<1>11. \A g, j : ~ Stale(g, j) /\ ~ Stale(g, j)'
  BY <1>4 DEF Stale
<1>12. \A g \in DOMAIN tables : \A j \in Indices : lev[g] < PT_LEVELS - 1 =>
         (Edge(g, j)' <=> Edge(g, j)) /\ tables'[g][j] = tables[g][j]
  <2>1. \A g \in DOMAIN tables : lev[g] < PT_LEVELS - 1 => g # t
    BY <1>2, A64Assumption
  <2>2. \A g \in DOMAIN tables : lev[g] < PT_LEVELS - 1 => tables'[g] = tables[g]
    BY <1>8, <2>1
  <2> QED BY <1>11, <2>2 DEF Edge
<1>13. \A f, j, c : Leads(own, lev, pg, f, j, c)' <=> Leads(own, lev, pg, f, j, c)
  BY <1>8 DEF Leads
<1>14. Placed(own, lev, pg)' /\ OnePlace(own, lev, pg)'
  BY <1>8 DEF Forest, Placed, OnePlace
<1>15. EdgesLead(own, lev, pg)'
  BY <1>8, <1>12, <1>13 DEF Forest, EdgesLead
<1>16. Linked(own, lev, pg)'
  <2> SUFFICES ASSUME NEW c \in DOMAIN tables, lev[c] > 0
               PROVE  \E f \in DOMAIN tables : \E j \in Indices :
                        Edge(f, j)' /\ tables'[f][j].addr = c /\ Leads(own, lev, pg, f, j, c)'
    BY <1>8 DEF Linked
  <2>1. PICK f \in DOMAIN tables, j \in Indices :
          Edge(f, j) /\ tables[f][j].addr = c /\ Leads(own, lev, pg, f, j, c)
    BY DEF Forest, Linked
  <2>2. lev[f] < PT_LEVELS - 1
    <3>1. lev[f] \in Nat /\ lev[c] \in 0 .. PT_LEVELS - 1
      BY A64Assumption DEF Forest, Placed
    <3>2. lev[c] = lev[f] + 1
      BY <2>1 DEF Leads
    <3> QED BY <3>1, <3>2, A64Assumption
  <2> QED BY <1>12, <1>13, <2>1, <2>2
<1>17. Owned(own, lev)'
  <2>1. call.op # "create"
    OBVIOUS
  <2> QED BY <1>8, <2>1 DEF Forest, Owned, Live
<1>18. CallPlace(own, lev, pg)'
  BY <1>2, <1>4 DEF CallPlace, Live
<1>19. Forest(own, lev, pg)'
  BY <1>14, <1>15, <1>16, <1>17, <1>18 DEF Forest
<1> QED BY <1>1, <1>5, <1>8, <1>9, <1>10, <1>19

----------------------------------------------------------------------------
(* A root is created.                                                      *)

\* What adding an empty table f does to the tables.
Added(f) ==
  /\ f \notin DOMAIN tables /\ DOMAIN tables' = DOMAIN tables \cup {f}
  /\ tables'[f] = ZeroTable
  /\ \A g \in DOMAIN tables : tables'[g] = tables[g]

LEMMA ForestCreates ==
  ASSUME NEW own, NEW lev, NEW pg, Forest(own, lev, pg), TableType, UNCHANGED roots,
         call = NoCall, NEW s \in Spaces, s \notin Live, NEW f, Added(f),
         call' = [op |-> "create", root |-> s, table |-> f]
  PROVE  \E own2, lev2, pg2 :
           Forest(own2, lev2, pg2)' /\ PlacedToo(own, lev, pg, own2, lev2, pg2)
<1>1. call.op = "none" /\ call'.op = "create" /\ call'.root = s /\ call'.table = f
  BY DEF NoCall
<1>2. /\ f \notin DOMAIN tables /\ DOMAIN tables' = DOMAIN tables \cup {f}
      /\ tables'[f] = ZeroTable /\ \A g \in DOMAIN tables : tables'[g] = tables[g]
  BY DEF Added
<1>3. PICK D : D = DOMAIN tables
  OBVIOUS
<1>4. PICK E : E = DOMAIN tables' /\ E = D \cup {f} /\ f \notin D
  BY <1>2, <1>3
<1>5. own \in [D -> Spaces] /\ lev \in [D -> 0 .. PT_LEVELS - 1] /\ pg \in [D -> Nat]
  BY <1>3 DEF Forest, Placed
<1>6. PICK own2 : own2 = With(own, f, s)
  OBVIOUS
<1>7. PICK lev2 : lev2 = With(lev, f, 0)
  OBVIOUS
<1>8. PICK pg2 : pg2 = With(pg, f, 0)
  OBVIOUS
<1>9. /\ own2 \in [DOMAIN tables' -> Spaces] /\ own2[f] = s
      /\ \A g \in DOMAIN tables : own2[g] = own[g]
  <2>1. own2 \in [E -> Spaces] /\ own2[f] = s /\ \A g \in D : own2[g] = own[g]
    BY <1>4, <1>5, <1>6 DEF With
  <2> QED BY <1>3, <1>4, <2>1
<1>10. /\ lev2 \in [DOMAIN tables' -> 0 .. PT_LEVELS - 1] /\ lev2[f] = 0
       /\ \A g \in DOMAIN tables : lev2[g] = lev[g]
  <2>1. 0 \in 0 .. PT_LEVELS - 1
    BY A64Assumption
  <2>2. lev2 \in [E -> 0 .. PT_LEVELS - 1] /\ lev2[f] = 0 /\ \A g \in D : lev2[g] = lev[g]
    BY <1>4, <1>5, <1>7, <2>1 DEF With
  <2> QED BY <1>3, <1>4, <2>2
<1>11. /\ pg2 \in [DOMAIN tables' -> Nat]
       /\ \A g \in DOMAIN tables : pg2[g] = pg[g]
  <2>1. pg2 \in [E -> Nat] /\ \A g \in D : pg2[g] = pg[g]
    BY <1>4, <1>5, <1>8 DEF With
  <2> QED BY <1>3, <1>4, <2>1
<1>12. \A g \in DOMAIN tables : own[g] \in Live /\ own[g] # s
  BY <1>1 DEF Forest, Owned
<1>13. \A g, j : ~ Stale(g, j) /\ ~ Stale(g, j)'
  BY <1>1 DEF Stale
<1>14. /\ \A j \in Indices : ~ Edge(f, j)'
       /\ \A g \in DOMAIN tables : \A j : Edge(g, j)' <=> Edge(g, j)
  <2>1. \A j \in Indices : ~ Edge(f, j)'
    BY <1>2 DEF Edge, ZeroTable, Invalid
  <2>2. \A g \in DOMAIN tables : \A j : Edge(g, j)' <=> Edge(g, j)
    BY <1>2, <1>13 DEF Edge
  <2> QED BY <2>1, <2>2
<1>15. \A g \in DOMAIN tables : \A j, c : Leads(own, lev, pg, g, j, c) => Leads(own2, lev2, pg2, g, j, c)'
  BY <1>2, <1>9, <1>10, <1>11 DEF Leads
<1>16. Placed(own2, lev2, pg2)'
  BY <1>9, <1>10, <1>11 DEF Placed
<1>17. OnePlace(own2, lev2, pg2)'
  <2> SUFFICES ASSUME NEW g \in DOMAIN tables', NEW h \in DOMAIN tables', own2[g] = own2[h],
                      lev2[g] = lev2[h], SameWay(pg2[g], pg2[h], lev2[g])
               PROVE  g = h
    BY DEF OnePlace
  <2>1. CASE g \in DOMAIN tables /\ h \in DOMAIN tables
    BY <1>9, <1>10, <1>11, <2>1 DEF Forest, OnePlace
  <2>2. CASE ~ (g \in DOMAIN tables /\ h \in DOMAIN tables)
    BY <1>2, <1>9, <1>12, <2>2
  <2> QED BY <2>1, <2>2
<1>18. EdgesLead(own2, lev2, pg2)'
  <2> SUFFICES ASSUME NEW g \in DOMAIN tables', NEW j \in Indices, lev2[g] < PT_LEVELS - 1, Edge(g, j)',
                      NEW c, c = tables'[g][j].addr
               PROVE  Leads(own2, lev2, pg2, g, j, c)'
    BY DEF EdgesLead, Leads
  <2>1. g # f
    BY <1>14
  <2>2. g \in DOMAIN tables /\ lev[g] < PT_LEVELS - 1
    BY <1>2, <1>10, <2>1
  <2>3. Edge(g, j) /\ tables'[g] = tables[g]
    BY <1>2, <1>14, <2>2
  <2>4. Leads(own, lev, pg, g, j, c)
    BY <2>2, <2>3 DEF Forest, EdgesLead
  <2> QED BY <1>15, <2>2, <2>4
<1>19. Linked(own2, lev2, pg2)'
  <2> SUFFICES ASSUME NEW c \in DOMAIN tables', lev2[c] > 0
               PROVE  \E g \in DOMAIN tables' : \E j \in Indices :
                        Edge(g, j)' /\ tables'[g][j].addr = c /\ Leads(own2, lev2, pg2, g, j, c)'
    BY DEF Linked
  <2>1. c # f
    BY <1>10
  <2>2. c \in DOMAIN tables /\ lev[c] > 0
    BY <1>2, <1>10, <2>1
  <2>3. PICK g \in DOMAIN tables, j \in Indices :
          Edge(g, j) /\ tables[g][j].addr = c /\ Leads(own, lev, pg, g, j, c)
    BY <2>2 DEF Forest, Linked
  <2>4. Edge(g, j)' /\ tables'[g][j].addr = c
    BY <1>2, <1>14, <2>3
  <2>5. Leads(own2, lev2, pg2, g, j, c)'
    BY <1>15, <2>3
  <2>6. g \in DOMAIN tables'
    BY <1>2
  <2> QED BY <2>4, <2>5, <2>6
<1>20. Owned(own2, lev2)'
  <2>1. Live' = Live
    BY DEF Live
  <2>2. \A x \in Live : /\ roots[x].ttbr0_phys \in DOMAIN tables
                        /\ own[roots[x].ttbr0_phys] = x /\ lev[roots[x].ttbr0_phys] = 0
    BY DEF Forest, Owned
  <2>3. \A x \in Live : /\ roots'[x].ttbr0_phys \in DOMAIN tables'
                        /\ own2[roots'[x].ttbr0_phys] = x /\ lev2[roots'[x].ttbr0_phys] = 0
    BY <1>2, <1>9, <1>10, <2>2
  <2>4. \A g \in DOMAIN tables' : own2[g] \in Live \/ (own2[g] = s /\ g = f)
    BY <1>2, <1>9, <1>12
  <2> QED BY <1>1, <2>1, <2>3, <2>4 DEF Owned
<1>21. CallPlace(own2, lev2, pg2)'
  BY <1>1, <1>2, <1>9, <1>10 DEF CallPlace
<1>22. Forest(own2, lev2, pg2)'
  BY <1>16, <1>17, <1>18, <1>19, <1>20, <1>21 DEF Forest
<1>23. PlacedToo(own, lev, pg, own2, lev2, pg2)
  BY <1>9, <1>10, <1>11 DEF PlacedToo
<1> QED BY <1>22, <1>23

----------------------------------------------------------------------------
(* Tables are freed.                                                       *)

\* A table that has no entry in force goes, and with it the entry that led to it.
Removed(own, lev, f) ==
  /\ f \in DOMAIN tables /\ tables' = [g \in DOMAIN tables \ {f} |-> tables[g]]
  /\ \A k \in Indices : lev[f] < PT_LEVELS - 1 => ~ Edge(f, k)
  /\ \A g \in DOMAIN tables \ {f} : \A k \in Indices : lev[g] < PT_LEVELS - 1 =>
       (Edge(g, k)' <=> Edge(g, k) /\ tables[g][k].addr # f)

\* own, lev and pg, without the table that is gone.
PlacedLess(own, lev, pg, own2, lev2, pg2) ==
  /\ own2 = [g \in DOMAIN tables' |-> own[g]]
  /\ lev2 = [g \in DOMAIN tables' |-> lev[g]]
  /\ pg2 = [g \in DOMAIN tables' |-> pg[g]]

LEMMA ForestRemoves ==
  ASSUME NEW own, NEW lev, NEW pg, Forest(own, lev, pg), NEW f, Removed(own, lev, f),
         NEW own2, NEW lev2, NEW pg2, PlacedLess(own, lev, pg, own2, lev2, pg2),
         Owned(own2, lev2)', CallPlace(own2, lev2, pg2)'
  PROVE  Forest(own2, lev2, pg2)'
<1>1. /\ DOMAIN tables' = DOMAIN tables \ {f} /\ f \in DOMAIN tables
      /\ \A g \in DOMAIN tables' : tables'[g] = tables[g] /\ g \in DOMAIN tables
  BY DEF Removed
<1>2. Placed(own2, lev2, pg2)'
  BY <1>1 DEF Forest, Placed, PlacedLess
<1>3. \A g \in DOMAIN tables' : own2[g] = own[g] /\ lev2[g] = lev[g] /\ pg2[g] = pg[g]
  BY DEF PlacedLess
<1>4. OnePlace(own2, lev2, pg2)'
  BY <1>1, <1>3 DEF Forest, OnePlace
<1>5. \A g \in DOMAIN tables' : \A j : \A c \in DOMAIN tables' :
        Leads(own, lev, pg, g, j, c) => Leads(own2, lev2, pg2, g, j, c)'
  BY <1>3 DEF Leads
<1>6. EdgesLead(own2, lev2, pg2)'
  <2> SUFFICES ASSUME NEW g \in DOMAIN tables', NEW j \in Indices, lev2[g] < PT_LEVELS - 1, Edge(g, j)',
                      NEW c, c = tables'[g][j].addr
               PROVE  Leads(own2, lev2, pg2, g, j, c)'
    BY DEF EdgesLead, Leads
  <2>1. g \in DOMAIN tables /\ g # f /\ lev[g] < PT_LEVELS - 1
    BY <1>1, <1>3
  <2>2. Edge(g, j) /\ tables[g][j].addr # f /\ c = tables[g][j].addr
    BY <1>1, <2>1 DEF Removed
  <2>3. Leads(own, lev, pg, g, j, c)
    BY <2>1, <2>2 DEF Forest, EdgesLead
  <2>4. c \in DOMAIN tables'
    BY <1>1, <2>2, <2>3 DEF Leads
  <2> QED BY <1>5, <2>3, <2>4
<1>7. Linked(own2, lev2, pg2)'
  <2> SUFFICES ASSUME NEW c \in DOMAIN tables', lev2[c] > 0
               PROVE  \E g \in DOMAIN tables' : \E j \in Indices :
                        Edge(g, j)' /\ tables'[g][j].addr = c /\ Leads(own2, lev2, pg2, g, j, c)'
    BY DEF Linked
  <2>1. c \in DOMAIN tables /\ c # f /\ lev[c] > 0
    BY <1>1, <1>3
  <2>2. PICK g \in DOMAIN tables, j \in Indices :
          Edge(g, j) /\ tables[g][j].addr = c /\ Leads(own, lev, pg, g, j, c)
    BY <2>1 DEF Forest, Linked
  <2>3. lev[g] < PT_LEVELS - 1
    <3>1. lev[g] \in Nat /\ lev[c] \in 0 .. PT_LEVELS - 1
      BY <2>1, A64Assumption DEF Forest, Placed
    <3>2. lev[c] = lev[g] + 1
      BY <2>2 DEF Leads
    <3> QED BY <3>1, <3>2, A64Assumption
  <2>4. g # f
    BY <2>2, <2>3 DEF Removed
  <2>5. g \in DOMAIN tables' /\ Edge(g, j)' /\ tables'[g][j].addr = c
    BY <1>1, <2>1, <2>2, <2>3, <2>4 DEF Removed
  <2> QED BY <1>5, <2>2, <2>5
<1> QED BY <1>2, <1>4, <1>6, <1>7 DEF Forest

\* No ASID is left: the new table goes again.
LEMMA ForestCreateFails ==
  ASSUME NEW own, NEW lev, NEW pg, Forest(own, lev, pg), AsidInv, UNCHANGED roots,
         call.op = "create", call' = NoCall,
         tables' = [g \in DOMAIN tables \ {call.table} |-> tables[g]]
  PROVE  \E own2, lev2, pg2 :
           Forest(own2, lev2, pg2)' /\ PlacedLess(own, lev, pg, own2, lev2, pg2)
<1>1. PICK f : f = call.table
  OBVIOUS
<1>2. f \in DOMAIN tables /\ own[f] = call.root /\ tables[f] = ZeroTable /\ call.root \notin Live
  BY <1>1 DEF Forest, CallPlace, AsidInv, CallKinds, NoCall
<1>3. DOMAIN tables' = DOMAIN tables \ {f} /\ \A g \in DOMAIN tables' : tables'[g] = tables[g]
  BY <1>1
<1>4. call'.op = "none"
  BY DEF NoCall
<1>5. \A g, j : ~ Stale(g, j) /\ ~ Stale(g, j)'
  BY <1>4 DEF Stale
<1>6. \A k \in Indices : ~ Edge(f, k)
  BY <1>2 DEF Edge, ZeroTable, Invalid
<1>7. \A g \in DOMAIN tables \ {f} : own[g] # call.root
  BY <1>1, <1>2 DEF Forest, Owned
<1>8. ASSUME NEW g \in DOMAIN tables \ {f}, NEW k \in Indices, lev[g] < PT_LEVELS - 1
      PROVE  Edge(g, k)' <=> Edge(g, k) /\ tables[g][k].addr # f
  <2>1. Edge(g, k)' <=> Edge(g, k)
    BY <1>3, <1>5 DEF Edge
  <2>2. Edge(g, k) => tables[g][k].addr # f
    <3> SUFFICES ASSUME Edge(g, k), tables[g][k].addr = f PROVE FALSE
      OBVIOUS
    <3>1. Leads(own, lev, pg, g, k, f)
      BY <1>8 DEF Forest, EdgesLead
    <3>2. own[g] = own[f]
      BY <3>1 DEF Leads
    <3> QED BY <1>2, <1>7, <3>2
  <2> QED BY <2>1, <2>2
<1>9. Removed(own, lev, f)
  BY <1>1, <1>2, <1>6, <1>8 DEF Removed
<1>10. PICK own2, lev2, pg2 : PlacedLess(own, lev, pg, own2, lev2, pg2)
  BY DEF PlacedLess
<1>11. Owned(own2, lev2)'
  <2>1. Live' = Live
    BY DEF Live
  <2>2. \A x \in Live : /\ roots[x].ttbr0_phys \in DOMAIN tables
                        /\ own[roots[x].ttbr0_phys] = x /\ lev[roots[x].ttbr0_phys] = 0
    BY DEF Forest, Owned
  <2>3. \A x \in Live : roots[x].ttbr0_phys \in DOMAIN tables'
    BY <1>2, <1>3, <2>2
  <2>4. \A g \in DOMAIN tables' : own[g] \in Live
    BY <1>1, <1>3 DEF Forest, Owned
  <2> QED BY <1>10, <2>1, <2>2, <2>3, <2>4 DEF PlacedLess, Owned
<1>12. CallPlace(own2, lev2, pg2)'
  BY <1>4 DEF CallPlace
<1>13. Forest(own2, lev2, pg2)'
  BY <1>9, <1>10, <1>11, <1>12, ForestRemoves
<1> QED BY <1>10, <1>13

\* The root is there.
LEMMA ForestCreated ==
  ASSUME NEW own, NEW lev, NEW pg, Forest(own, lev, pg), UNCHANGED tables,
         call.op = "create", call' = NoCall, NEW a,
         roots' = [s \in Live \cup {call.root} |->
                     IF s = call.root THEN [ttbr0_phys |-> call.table, asid |-> a] ELSE roots[s]]
  PROVE  Forest(own, lev, pg)'
<1>1. call'.op = "none"
  BY DEF NoCall
<1>2. \A g, j : ~ Stale(g, j) /\ ~ Stale(g, j)'
  BY <1>1 DEF Stale
<1>3. CallPlace(own, lev, pg)'
  BY <1>1 DEF CallPlace
<1>4. PICK s, t : s = call.root /\ t = call.table /\ t \in DOMAIN tables /\ own[t] = s /\ lev[t] = 0
  BY DEF Forest, CallPlace
<1>5. /\ Live' = Live \cup {s} /\ roots'[s].ttbr0_phys = t
      /\ \A x \in Live : x # s => roots'[x] = roots[x]
  BY <1>4 DEF Live
<1>6. \A x \in Live' : /\ roots'[x].ttbr0_phys \in DOMAIN tables
                       /\ own[roots'[x].ttbr0_phys] = x /\ lev[roots'[x].ttbr0_phys] = 0
  BY <1>4, <1>5 DEF Forest, Owned
<1>7. \A g \in DOMAIN tables : own[g] \in Live'
  BY <1>4, <1>5 DEF Forest, Owned
<1>8. Owned(own, lev)'
  BY <1>6, <1>7 DEF Owned
<1> QED BY <1>2, <1>3, <1>8, SameTablesForest

\* The stack of free_table_recursive: n calls, the innermost first.
StackIs(own, lev, s, st, n) ==
  /\ n \in Nat /\ n >= 1 /\ Len(st) = n
  /\ st[n].table = roots[s].ttbr0_phys
  /\ \A j \in 1 .. n :
       /\ st[j].table \in DOMAIN tables /\ st[j].i \in 0 .. PT_ENTRIES
       /\ st[j].level \in 0 .. PT_LEVELS - 1 /\ st[j].level = n - j
       /\ own[st[j].table] = s /\ lev[st[j].table] = st[j].level
  /\ \A j \in 1 .. n : j > 1 =>
       /\ st[j].i > 0
       /\ tables[st[j].table][st[j].i - 1].v
       /\ tables[st[j].table][st[j].i - 1].addr = st[j - 1].table

Frame == [table : DOMAIN tables, level : 0 .. PT_LEVELS - 1, i : 0 .. PT_ENTRIES]

LEMMA StackFacts ==
  ASSUME NEW own, NEW lev, NEW pg, Forest(own, lev, pg), AsidInv, call.op = "destroy"
  PROVE  \E s, st : /\ call = [op |-> "destroy", root |-> s, stack |-> st] /\ s \in Live
                    /\ st \in Seq(Frame) /\ st # <<>> /\ StackIs(own, lev, s, st, Len(st))
<1>1. PICK s, st : call = [op |-> "destroy", root |-> s, stack |-> st] /\ s \in Live
  BY DEF AsidInv, CallKinds, NoCall
<1>2. call.stack = st /\ call.root = s
  BY <1>1
<1>3. st \in Seq(Frame) /\ st # <<>>
  BY <1>2 DEF Forest, CallPlace, StackPath, Frame
<1>4. Len(st) \in Nat /\ Len(st) >= 1
  BY <1>3
<1>5. \A j \in 1 .. Len(st) : st[j] \in Frame
  BY <1>3
<1>6. \A j \in 1 .. Len(st) : /\ st[j].table \in DOMAIN tables /\ st[j].i \in 0 .. PT_ENTRIES
                              /\ st[j].level \in 0 .. PT_LEVELS - 1
  BY <1>5 DEF Frame
<1>7. StackPath(own, lev)
  BY DEF Forest, CallPlace
<1>8. \A j \in 1 .. Len(st) : /\ st[j].level = Len(st) - j
                              /\ own[st[j].table] = s /\ lev[st[j].table] = st[j].level
  BY <1>2, <1>7 DEF StackPath
<1>9. \A j \in 1 .. Len(st) : j > 1 =>
        /\ st[j].i > 0 /\ tables[st[j].table][st[j].i - 1].v
        /\ tables[st[j].table][st[j].i - 1].addr = st[j - 1].table
  BY <1>2, <1>7 DEF StackPath
<1>10. st[Len(st)].table = roots[s].ttbr0_phys
  BY <1>2, <1>7 DEF StackPath
<1>11. StackIs(own, lev, s, st, Len(st))
  BY <1>4, <1>6, <1>8, <1>9, <1>10 DEF StackIs
<1> QED BY <1>1, <1>3, <1>11

\* The other direction, after a step.
LEMMA StackBack ==
  ASSUME NEW own, NEW lev, NEW pg, NEW s, NEW st, NEW n, StackIs(own, lev, s, st, n)',
         st \in Seq(Frame'), call' = [op |-> "destroy", root |-> s, stack |-> st]
  PROVE  CallPlace(own, lev, pg)'
<1>1. call'.op = "destroy" /\ call'.root = s /\ call'.stack = st
  OBVIOUS
<1>2. n \in Nat /\ n >= 1 /\ Len(st) = n /\ st # <<>>
  BY DEF StackIs
<1>3. \A j \in 1 .. n : st[j].level = n - j /\ own[st[j].table] = s /\ lev[st[j].table] = st[j].level
  BY DEF StackIs
<1>4. \A j \in 1 .. n : j > 1 =>
        /\ st[j].i > 0 /\ tables'[st[j].table][st[j].i - 1].v
        /\ tables'[st[j].table][st[j].i - 1].addr = st[j - 1].table
  BY DEF StackIs
<1>5. st[n].table = roots'[s].ttbr0_phys
  BY DEF StackIs
<1>6. StackPath(own, lev)'
  BY <1>1, <1>2, <1>3, <1>4, <1>5 DEF StackPath, Frame
<1> QED BY <1>1, <1>6 DEF CallPlace

\* A call of a table at another level is for another table.
LEMMA StackApart ==
  ASSUME NEW own, NEW lev, NEW s, NEW st, NEW n, StackIs(own, lev, s, st, n),
         NEW i \in 1 .. n, NEW j \in 1 .. n, st[i].table = st[j].table
  PROVE  i = j
<1>1. n \in Nat /\ st[i].level = n - i /\ st[j].level = n - j
  BY DEF StackIs
<1>2. lev[st[i].table] = st[i].level /\ lev[st[j].table] = st[j].level
  BY DEF StackIs
<1>3. n - i = n - j
  BY <1>1, <1>2
<1> QED BY <1>1, <1>3

\* Which entries are left behind, in terms of the stack.
StaleIn(st, n, f, k) ==
  \E j \in 1 .. n : st[j].table = f /\ k < st[j].i /\ ~ (j > 1 /\ k = st[j].i - 1)

LEMMA StaleIs ==
  ASSUME NEW s, NEW st, call = [op |-> "destroy", root |-> s, stack |-> st], NEW f, NEW k
  PROVE  Stale(f, k) <=> StaleIn(st, Len(st), f, k)
<1>1. call.op = "destroy" /\ call.stack = st
  OBVIOUS
<1> QED BY <1>1 DEF Stale, StaleIn

LEMMA StaleNext ==
  ASSUME NEW s, NEW st, call' = [op |-> "destroy", root |-> s, stack |-> st], NEW f, NEW k
  PROVE  Stale(f, k)' <=> StaleIn(st, Len(st), f, k)
<1>1. call'.op = "destroy" /\ call'.stack = st
  OBVIOUS
<1> QED BY <1>1 DEF Stale, StaleIn

\* Elements of the stacks that free_table_recursive builds.
LEMMA StackShapes ==
  ASSUME NEW S, NEW st \in Seq(S), st # <<>>, NEW x \in S, NEW y \in S
  PROVE  /\ Len(st) \in Nat \ {0} /\ Head(st) = st[1]
         /\ Tail(st) \in Seq(S) /\ Len(Tail(st)) = Len(st) - 1
         /\ \A j \in 1 .. Len(st) - 1 : Tail(st)[j] = st[j + 1]
         /\ <<>> \o <<y>> \o Tail(st) \in Seq(S) /\ Len(<<>> \o <<y>> \o Tail(st)) = Len(st)
         /\ (<<>> \o <<y>> \o Tail(st))[1] = y
         /\ \A j \in 2 .. Len(st) : (<<>> \o <<y>> \o Tail(st))[j] = st[j]
         /\ <<x>> \o <<y>> \o Tail(st) \in Seq(S) /\ Len(<<x>> \o <<y>> \o Tail(st)) = Len(st) + 1
         /\ (<<x>> \o <<y>> \o Tail(st))[1] = x /\ (<<x>> \o <<y>> \o Tail(st))[2] = y
         /\ \A j \in 2 .. Len(st) : (<<x>> \o <<y>> \o Tail(st))[j + 1] = st[j]
<1>1. Len(st) \in Nat \ {0} /\ Head(st) = st[1]
  OBVIOUS
<1>2. PICK n : n = Len(st) /\ n \in Nat \ {0}
  BY <1>1
<1>3. PICK r : r = Tail(st)
  OBVIOUS
<1>4. r \in Seq(S) /\ Len(r) = n - 1 /\ \A j \in 1 .. n - 1 : r[j] = st[j + 1]
  BY <1>2, <1>3
<1>5. PICK u : u = <<>> \o <<y>> \o r
  OBVIOUS
<1>6. u = <<y>> \o r
  <2>1. <<>> \o <<y>> = <<y>>
    OBVIOUS
  <2> QED BY <1>5, <2>1
<1>7. u \in Seq(S) /\ Len(u) = n /\ u[1] = y /\ \A j \in 2 .. n : u[j] = r[j - 1]
  BY <1>2, <1>4, <1>6
<1>8. \A j \in 2 .. n : u[j] = st[j]
  <2>1. \A j \in 2 .. n : j - 1 \in 1 .. n - 1 /\ (j - 1) + 1 = j
    BY <1>2
  <2> QED BY <1>4, <1>7, <2>1
<1>9. PICK w : w = <<x>> \o <<y>> \o r
  OBVIOUS
<1>10. w = <<x>> \o u
  BY <1>4, <1>6, <1>9
<1>11. w \in Seq(S) /\ Len(w) = n + 1 /\ w[1] = x /\ \A j \in 1 .. n : w[j + 1] = u[j]
  BY <1>2, <1>7, <1>10
<1>12. w[2] = y
  <2>1. 1 \in 1 .. n /\ 1 + 1 = 2
    BY <1>2
  <2> QED BY <1>7, <1>11, <2>1
<1>13. \A j \in 2 .. n : w[j + 1] = st[j]
  <2>1. \A j \in 2 .. n : j \in 1 .. n
    BY <1>2
  <2> QED BY <1>8, <1>11, <2>1
<1> QED BY <1>1, <1>2, <1>3, <1>4, <1>5, <1>7, <1>8, <1>9, <1>11, <1>12, <1>13

NextStack(top, entry, st) ==
  (IF entry.v THEN <<[table |-> entry.addr, level |-> top.level + 1, i |-> 0]>> ELSE <<>>)
    \o <<[top EXCEPT !.i = @ + 1]>> \o Tail(st)

\* free_table_recursive comes to the next entry, and enters the table that it leads to.
LEMMA ForestAdvances ==
  ASSUME NEW own, NEW lev, NEW pg, Forest(own, lev, pg), AsidInv, call.op = "destroy",
         UNCHANGED <<tables, roots>>,
         NEW top, top = Head(call.stack), HasTables(top.level), top.i < PT_ENTRIES,
         NEW entry, entry = tables[top.table][top.i],
         call' = [call EXCEPT !.stack = NextStack(top, entry, call.stack)]
  PROVE  Forest(own, lev, pg)'
<1>1. PICK s, st : /\ call = [op |-> "destroy", root |-> s, stack |-> st] /\ s \in Live
                   /\ st \in Seq(Frame) /\ st # <<>> /\ StackIs(own, lev, s, st, Len(st))
  BY StackFacts
<1>2. PICK n : n = Len(st) /\ n \in Nat \ {0}
  BY <1>1
<1>3. call.stack = st /\ call.root = s /\ top = st[1] /\ StackIs(own, lev, s, st, n)
  BY <1>1, <1>2
<1>4. /\ top \in Frame /\ top.table \in DOMAIN tables /\ top.level = n - 1 /\ own[top.table] = s
      /\ lev[top.table] = n - 1 /\ top.i \in 0 .. PT_ENTRIES
  <2>1. 1 \in 1 .. n
    BY <1>2
  <2> QED BY <1>1, <1>2, <1>3, <2>1 DEF StackIs
<1>5. top.i \in Indices /\ n - 1 < PT_LEVELS - 1 /\ n \in 0 .. PT_LEVELS - 1
  BY <1>2, <1>4, A64Assumption DEF Indices, HasTables
<1>6. PICK next : next = [top EXCEPT !.i = @ + 1]
  OBVIOUS
<1>7. next \in Frame /\ next.table = top.table /\ next.level = n - 1 /\ next.i = top.i + 1
  BY <1>4, <1>6, A64Assumption DEF Frame
<1>8. \A j \in 2 .. n : j \in 1 .. n /\ j > 1
  BY <1>2
<1>9. CASE ~ entry.v
  <2>1. PICK u : u = <<>> \o <<next>> \o Tail(st)
    OBVIOUS
  <2>2. u \in Seq(Frame) /\ Len(u) = n /\ u[1] = next /\ \A j \in 2 .. n : u[j] = st[j]
    BY <1>1, <1>2, <1>7, <2>1, StackShapes
  <2>3. call' = [op |-> "destroy", root |-> s, stack |-> u]
    <3>1. NextStack(top, entry, st) = u
      BY <1>6, <1>9, <2>1, Zenon DEF NextStack
    <3> QED BY <1>1, <1>3, <3>1
  <2>4. \A j \in 1 .. n : /\ u[j].table = st[j].table /\ u[j].level = st[j].level
                          /\ j > 1 => u[j].i = st[j].i
    BY <1>3, <1>4, <1>7, <2>2
  <2>5. \A j \in 1 .. n : u[j].i \in 0 .. PT_ENTRIES
    <3>1. \A j \in 1 .. n : u[j] \in Frame
      BY <2>2
    <3> QED BY <3>1 DEF Frame
  <2>6. StackIs(own, lev, s, u, n)'
    <3>1. \A j \in 1 .. n :
            /\ u[j].table \in DOMAIN tables' /\ u[j].i \in 0 .. PT_ENTRIES
            /\ u[j].level \in 0 .. PT_LEVELS - 1 /\ u[j].level = n - j
            /\ own[u[j].table] = s /\ lev[u[j].table] = u[j].level
      BY <1>3, <2>4, <2>5 DEF StackIs
    <3>2. \A j \in 1 .. n : j > 1 =>
            /\ u[j].i > 0 /\ tables'[u[j].table][u[j].i - 1].v
            /\ tables'[u[j].table][u[j].i - 1].addr = u[j - 1].table
      <4> SUFFICES ASSUME NEW j \in 1 .. n, j > 1
                   PROVE  /\ u[j].i > 0 /\ tables'[u[j].table][u[j].i - 1].v
                          /\ tables'[u[j].table][u[j].i - 1].addr = u[j - 1].table
        OBVIOUS
      <4>1. j - 1 \in 1 .. n
        BY <1>2
      <4>2. u[j].table = st[j].table /\ u[j].i = st[j].i /\ u[j - 1].table = st[j - 1].table
        BY <2>4, <4>1
      <4>3. /\ st[j].i > 0 /\ tables[st[j].table][st[j].i - 1].v
            /\ tables[st[j].table][st[j].i - 1].addr = st[j - 1].table
        BY <1>3 DEF StackIs
      <4> QED BY <4>2, <4>3
    <3>3. u[n].table = roots'[s].ttbr0_phys
      BY <1>2, <1>3, <2>4 DEF StackIs
    <3> QED BY <1>2, <2>2, <3>1, <3>2, <3>3 DEF StackIs
  <2>7. CallPlace(own, lev, pg)'
    BY <2>2, <2>3, <2>6, StackBack DEF Frame
  <2>8. ASSUME NEW f \in DOMAIN tables, NEW k \in Indices, tables[f][k].v
        PROVE  Stale(f, k)' <=> Stale(f, k)
    <3>1. Stale(f, k) <=> StaleIn(st, n, f, k)
      BY <1>1, <1>2, StaleIs
    <3>2. Stale(f, k)' <=> StaleIn(u, n, f, k)
      BY <2>2, <2>3, StaleNext
    <3>3. \A j \in 1 .. n : st[j].table = f =>
            (k < st[j].i /\ ~ (j > 1 /\ k = st[j].i - 1) <=> k < u[j].i /\ ~ (j > 1 /\ k = u[j].i - 1))
      <4> SUFFICES ASSUME NEW j \in 1 .. n, st[j].table = f
                   PROVE  (k < st[j].i /\ ~ (j > 1 /\ k = st[j].i - 1) <=>
                           k < u[j].i /\ ~ (j > 1 /\ k = u[j].i - 1))
        OBVIOUS
      <4>1. CASE j > 1
        BY <2>4, <4>1
      <4>2. CASE j = 1
        <5>1. k # top.i
          BY <1>3, <1>9, <2>8, <4>2
        <5>2. u[j].i = top.i + 1 /\ st[j].i = top.i
          BY <1>3, <1>7, <2>2, <4>2
        <5>3. k \in Int /\ top.i \in Int
          BY <1>4 DEF Indices
        <5> QED BY <4>2, <5>1, <5>2, <5>3
      <4> QED BY <4>1, <4>2
    <3>4. StaleIn(st, n, f, k) <=> StaleIn(u, n, f, k)
      BY <2>4, <3>3 DEF StaleIn
    <3> QED BY <3>1, <3>2, <3>4
  <2> QED BY <2>7, <2>8, ForestSame
<1>10. CASE entry.v
  <2>1. PICK child : child = [table |-> entry.addr, level |-> top.level + 1, i |-> 0]
    OBVIOUS
  <2>2. PICK c : c = entry.addr
    OBVIOUS
  <2>3. Edge(top.table, top.i)
    <3>1. Stale(top.table, top.i) <=> StaleIn(st, n, top.table, top.i)
      BY <1>1, <1>2, StaleIs
    <3>2. \A j \in 1 .. n : st[j].table = top.table => j = 1
      <4>1. 1 \in 1 .. n
        BY <1>2
      <4> QED BY <1>3, <4>1, StackApart
    <3>3. ~ StaleIn(st, n, top.table, top.i)
      BY <1>3, <1>4, <3>2 DEF StaleIn
    <3> QED BY <1>10, <3>1, <3>3 DEF Edge
  <2>4. Leads(own, lev, pg, top.table, top.i, c)
    BY <1>4, <1>5, <2>2, <2>3 DEF Forest, EdgesLead
  <2>5. c \in DOMAIN tables /\ own[c] = s /\ lev[c] = n
    BY <1>2, <1>4, <2>4 DEF Leads
  <2>6. child \in Frame /\ child.table = c /\ child.level = n /\ child.i = 0
    BY <1>2, <1>4, <1>5, <2>1, <2>2, <2>5, A64Assumption DEF Frame
  <2>7. PICK u : u = <<child>> \o <<next>> \o Tail(st)
    OBVIOUS
  <2>8. /\ u \in Seq(Frame) /\ Len(u) = n + 1 /\ u[1] = child /\ u[2] = next
        /\ \A j \in 2 .. n : u[j + 1] = st[j]
    BY <1>1, <1>2, <1>7, <2>6, <2>7, StackShapes
  <2>9. call' = [op |-> "destroy", root |-> s, stack |-> u]
    <3>1. NextStack(top, entry, st) = u
      BY <1>6, <1>10, <2>1, <2>7, Zenon DEF NextStack
    <3> QED BY <1>1, <1>3, <3>1
  <2>10. \A j \in 1 .. n : /\ u[j + 1].table = st[j].table /\ u[j + 1].level = st[j].level
                           /\ u[j + 1].i = IF j = 1 THEN top.i + 1 ELSE st[j].i
    BY <1>3, <1>4, <1>7, <2>8
  <2>11. \A m \in 1 .. n + 1 : m = 1 \/ (m - 1 \in 1 .. n /\ (m - 1) + 1 = m)
    BY <1>2
  <2>12. \A m \in 1 .. n + 1 : u[m].i \in 0 .. PT_ENTRIES /\ u[m].level \in 0 .. PT_LEVELS - 1
    <3>1. \A m \in 1 .. n + 1 : u[m] \in Frame
      BY <2>8
    <3> QED BY <3>1 DEF Frame
  <2>13. StackIs(own, lev, s, u, n + 1)'
    <3>1. ASSUME NEW m \in 1 .. n + 1
          PROVE  /\ u[m].table \in DOMAIN tables' /\ u[m].level = (n + 1) - m
                 /\ own[u[m].table] = s /\ lev[u[m].table] = u[m].level
      <4>1. CASE m = 1
        BY <1>2, <2>5, <2>6, <2>8, <4>1
      <4>2. CASE m # 1
        <5>1. PICK j \in 1 .. n : m = j + 1
          BY <2>11, <4>2
        <5>2. u[m].table = st[j].table /\ u[m].level = st[j].level
          BY <2>10, <5>1
        <5>3. /\ st[j].table \in DOMAIN tables /\ st[j].level = n - j
              /\ own[st[j].table] = s /\ lev[st[j].table] = st[j].level
          BY <1>3 DEF StackIs
        <5> QED BY <1>2, <5>1, <5>2, <5>3
      <4> QED BY <4>1, <4>2
    <3>2. ASSUME NEW m \in 1 .. n + 1, m > 1
          PROVE  /\ u[m].i > 0 /\ tables'[u[m].table][u[m].i - 1].v
                 /\ tables'[u[m].table][u[m].i - 1].addr = u[m - 1].table
      <4>1. PICK j \in 1 .. n : m = j + 1 /\ m - 1 = j
        BY <2>11, <3>2
      <4>2. CASE j = 1
        <5>1. u[m].table = top.table /\ u[m].i = top.i + 1 /\ u[m - 1].table = c
          BY <1>3, <2>6, <2>8, <2>10, <4>1, <4>2
        <5>2. (top.i + 1) - 1 = top.i /\ top.i + 1 > 0
          BY <1>4
        <5> QED BY <1>10, <2>2, <5>1, <5>2
      <4>3. CASE j # 1
        <5>1. j - 1 \in 1 .. n /\ (j - 1) + 1 = j /\ j > 1
          BY <1>2, <4>3
        <5>2. u[m].table = st[j].table /\ u[m].i = st[j].i /\ u[m - 1].table = st[j - 1].table
          BY <2>10, <4>1, <4>3, <5>1
        <5>3. /\ st[j].i > 0 /\ tables[st[j].table][st[j].i - 1].v
              /\ tables[st[j].table][st[j].i - 1].addr = st[j - 1].table
          BY <1>3, <5>1 DEF StackIs
        <5> QED BY <5>2, <5>3
      <4> QED BY <4>2, <4>3
    <3>3. u[n + 1].table = roots'[s].ttbr0_phys
      <4>1. n \in 1 .. n
        BY <1>2
      <4> QED BY <1>3, <2>10, <4>1 DEF StackIs
    <3>4. n + 1 \in Nat /\ n + 1 >= 1
      BY <1>2
    <3> QED BY <2>8, <2>12, <3>1, <3>2, <3>3, <3>4 DEF StackIs
  <2>14. CallPlace(own, lev, pg)'
    BY <2>8, <2>9, <2>13, StackBack DEF Frame
  <2>15. ASSUME NEW f \in DOMAIN tables, NEW k \in Indices, tables[f][k].v
         PROVE  Stale(f, k)' <=> Stale(f, k)
    <3>1. Stale(f, k) <=> StaleIn(st, n, f, k)
      BY <1>1, <1>2, StaleIs
    <3>2. Stale(f, k)' <=> StaleIn(u, n + 1, f, k)
      <4>1. Stale(f, k)' <=> StaleIn(u, Len(u), f, k)
        BY <2>9, StaleNext
      <4> QED BY <2>8, <4>1
    <3>3. k \in Int /\ top.i \in Int /\ ~ (k < 0)
      BY <1>4 DEF Indices
    <3>4. ASSUME NEW j \in 1 .. n
          PROVE  (k < st[j].i /\ ~ (j > 1 /\ k = st[j].i - 1) <=>
                  k < u[j + 1].i /\ ~ (j + 1 > 1 /\ k = u[j + 1].i - 1))
      <4>1. CASE j = 1
        <5>1. u[j + 1].i = top.i + 1 /\ st[j].i = top.i
          BY <1>3, <2>10, <4>1
        <5> QED BY <3>3, <4>1, <5>1
      <4>2. CASE j # 1
        <5>1. u[j + 1].i = st[j].i /\ j > 1 /\ j + 1 > 1
          BY <2>10, <4>2
        <5> QED BY <5>1
      <4> QED BY <4>1, <4>2
    <3>5. ASSUME StaleIn(st, n, f, k) PROVE StaleIn(u, n + 1, f, k)
      <4>1. PICK j \in 1 .. n : st[j].table = f /\ k < st[j].i /\ ~ (j > 1 /\ k = st[j].i - 1)
        BY <3>5 DEF StaleIn
      <4>2. j + 1 \in 1 .. n + 1
        BY <1>2
      <4> QED BY <2>10, <3>4, <4>1, <4>2 DEF StaleIn
    <3>6. ASSUME StaleIn(u, n + 1, f, k) PROVE StaleIn(st, n, f, k)
      <4>1. PICK m \in 1 .. n + 1 : u[m].table = f /\ k < u[m].i /\ ~ (m > 1 /\ k = u[m].i - 1)
        BY <3>6 DEF StaleIn
      <4>2. m # 1
        BY <2>6, <2>8, <3>3, <4>1
      <4>3. PICK j \in 1 .. n : m = j + 1
        BY <2>11, <4>2
      <4> QED BY <2>10, <3>4, <4>1, <4>3 DEF StaleIn
    <3> QED BY <3>1, <3>2, <3>5, <3>6
  <2> QED BY <2>14, <2>15, ForestSame
<1> QED BY <1>9, <1>10

\* A table all of whose entries have been visited has none in force.
LEMMA DoneTable ==
  ASSUME NEW own, NEW lev, NEW pg, NEW s, NEW st, NEW n,
         call = [op |-> "destroy", root |-> s, stack |-> st], n = Len(st), StackIs(own, lev, s, st, n),
         ~ (HasTables(st[1].level) /\ st[1].i < PT_ENTRIES)
  PROVE  \A k \in Indices : lev[st[1].table] < PT_LEVELS - 1 => ~ Edge(st[1].table, k)
<1> SUFFICES ASSUME NEW k \in Indices, lev[st[1].table] < PT_LEVELS - 1
             PROVE  Stale(st[1].table, k)
  BY DEF Edge
<1>1. 1 \in 1 .. n
  BY DEF StackIs
<1>2. lev[st[1].table] = st[1].level /\ st[1].i \in 0 .. PT_ENTRIES
  BY <1>1 DEF StackIs
<1>3. k < st[1].i
  BY <1>2, A64Assumption DEF HasTables, Indices
<1>4. StaleIn(st, n, st[1].table, k)
  BY <1>1, <1>3 DEF StaleIn
<1> QED BY <1>4, StaleIs

LEMMA ForestPops ==
  ASSUME NEW own, NEW lev, NEW pg, Forest(own, lev, pg), AsidInv, call.op = "destroy", UNCHANGED roots,
         NEW top, top = Head(call.stack), ~ (HasTables(top.level) /\ top.i < PT_ENTRIES),
         Tail(call.stack) # <<>>, call' = [call EXCEPT !.stack = Tail(call.stack)],
         tables' = [g \in DOMAIN tables \ {top.table} |-> tables[g]]
  PROVE  \E own2, lev2, pg2 :
           Forest(own2, lev2, pg2)' /\ PlacedLess(own, lev, pg, own2, lev2, pg2)
<1>1. PICK s, st : /\ call = [op |-> "destroy", root |-> s, stack |-> st] /\ s \in Live
                   /\ st \in Seq(Frame) /\ st # <<>> /\ StackIs(own, lev, s, st, Len(st))
  BY StackFacts
<1>2. PICK n : n = Len(st) /\ n \in Nat \ {0}
  BY <1>1
<1>3. call.stack = st /\ call.root = s /\ top = st[1] /\ StackIs(own, lev, s, st, n)
  BY <1>1, <1>2
<1>4. PICK u : u = Tail(st)
  OBVIOUS
<1>5. u \in Seq(Frame) /\ Len(u) = n - 1 /\ \A j \in 1 .. n - 1 : u[j] = st[j + 1]
  BY <1>1, <1>2, <1>4
<1>6. n > 1 /\ n - 1 \in Nat /\ n - 1 >= 1
  <2>1. u # <<>>
    BY <1>3, <1>4
  <2> QED BY <1>2, <1>5, <2>1
<1>7. call' = [op |-> "destroy", root |-> s, stack |-> u]
  BY <1>1, <1>3, <1>4
<1>8. PICK f : f = top.table
  OBVIOUS
<1>9. 1 \in 1 .. n /\ 2 \in 1 .. n /\ 2 > 1 /\ 2 - 1 = 1
  BY <1>2, <1>6
<1>10. f \in DOMAIN tables /\ own[f] = s /\ lev[f] = n - 1
  BY <1>3, <1>8, <1>9 DEF StackIs
<1>11. DOMAIN tables' = DOMAIN tables \ {f} /\ \A g \in DOMAIN tables' : tables'[g] = tables[g]
  BY <1>8
<1>12. \A j \in 1 .. n : j # 1 => st[j].table # f
  BY <1>3, <1>8, <1>9, StackApart
<1>13. PICK h, i : h = st[2].table /\ i = st[2].i - 1
  OBVIOUS
<1>14. /\ h \in DOMAIN tables /\ lev[h] = n - 2 /\ own[h] = s /\ st[2].i \in 0 .. PT_ENTRIES /\ st[2].i > 0
       /\ tables[h][i].v /\ tables[h][i].addr = f
  BY <1>3, <1>8, <1>9, <1>13 DEF StackIs
<1>15. i \in Indices /\ i < st[2].i /\ n - 2 < PT_LEVELS - 1
  <2>1. n - 1 \in 0 .. PT_LEVELS - 1
    BY <1>3, <1>9 DEF StackIs
  <2>2. PICK b : b = st[2].i /\ b \in 0 .. PT_ENTRIES /\ b > 0
    BY <1>14
  <2>3. b - 1 \in Indices /\ b - 1 < b
    BY <2>2, A64Assumption DEF Indices
  <2>4. n - 2 < PT_LEVELS - 1
    BY <1>2, <2>1, A64Assumption
  <2> QED BY <1>13, <2>2, <2>3, <2>4
<1>16. \A g, k : Stale(g, k) <=> StaleIn(st, n, g, k)
  BY <1>1, <1>2, StaleIs
<1>17. \A g, k : Stale(g, k)' <=> StaleIn(u, n - 1, g, k)
  <2>1. \A g, k : Stale(g, k)' <=> StaleIn(u, Len(u), g, k)
    BY <1>7, StaleNext
  <2> QED BY <1>5, <2>1
<1>18. Edge(h, i)
  <2>1. \A j \in 1 .. n : st[j].table = h => j = 2
    BY <1>3, <1>9, <1>13, StackApart
  <2>2. ~ StaleIn(st, n, h, i)
    BY <1>9, <1>13, <2>1 DEF StaleIn
  <2> QED BY <1>14, <1>16, <2>2 DEF Edge
<1>19. Leads(own, lev, pg, h, i, f)
  BY <1>14, <1>15, <1>18 DEF Forest, EdgesLead
<1>20. ASSUME NEW g \in DOMAIN tables \ {f}, NEW k \in Indices
       PROVE  StaleIn(u, n - 1, g, k) <=> StaleIn(st, n, g, k) \/ (g = h /\ k = i)
  <2>1. ASSUME StaleIn(u, n - 1, g, k) PROVE StaleIn(st, n, g, k) \/ (g = h /\ k = i)
    <3>1. PICK j \in 1 .. n - 1 : u[j].table = g /\ k < u[j].i /\ ~ (j > 1 /\ k = u[j].i - 1)
      BY <2>1 DEF StaleIn
    <3>2. j + 1 \in 1 .. n /\ u[j] = st[j + 1] /\ j + 1 > 1
      BY <1>2, <1>5
    <3>3. CASE k = st[j + 1].i - 1
      <4>1. j = 1
        BY <3>1, <3>2, <3>3
      <4> QED BY <1>13, <3>1, <3>2, <3>3, <4>1
    <3>4. CASE k # st[j + 1].i - 1
      BY <3>1, <3>2, <3>4 DEF StaleIn
    <3> QED BY <3>3, <3>4
  <2>2. ASSUME StaleIn(st, n, g, k) PROVE StaleIn(u, n - 1, g, k)
    <3>1. PICK j \in 1 .. n : st[j].table = g /\ k < st[j].i /\ ~ (j > 1 /\ k = st[j].i - 1)
      BY <2>2 DEF StaleIn
    <3>2. j # 1
      BY <1>3, <1>8, <3>1
    <3>3. j - 1 \in 1 .. n - 1 /\ (j - 1) + 1 = j /\ j > 1
      BY <1>2, <3>2
    <3>4. u[j - 1] = st[j]
      BY <1>5, <3>3
    <3> QED BY <3>1, <3>3, <3>4 DEF StaleIn
  <2>3. ASSUME g = h, k = i PROVE StaleIn(u, n - 1, g, k)
    <3>1. 1 \in 1 .. n - 1 /\ u[1] = st[2] /\ ~ (1 > 1)
      BY <1>5, <1>6
    <3> QED BY <1>13, <1>15, <2>3, <3>1 DEF StaleIn
  <2> QED BY <2>1, <2>2, <2>3
<1>21. ASSUME NEW g \in DOMAIN tables \ {f}, NEW k \in Indices, lev[g] < PT_LEVELS - 1
       PROVE  Edge(g, k)' <=> Edge(g, k) /\ tables[g][k].addr # f
  <2>1. Edge(g, k)' <=> Edge(g, k) /\ ~ (g = h /\ k = i)
    BY <1>11, <1>16, <1>17, <1>20 DEF Edge
  <2>2. ASSUME Edge(g, k), tables[g][k].addr = f PROVE g = h /\ k = i
    <3>1. Leads(own, lev, pg, g, k, f)
      BY <1>21, <2>2 DEF Forest, EdgesLead
    <3>2. /\ own[f] = own[g] /\ lev[f] = lev[g] + 1 /\ SameWay(pg[f], pg[g], lev[g])
          /\ level_index(pg[f], lev[g]) = k
      BY <3>1 DEF Leads
    <3>3. /\ own[f] = own[h] /\ lev[f] = lev[h] + 1 /\ SameWay(pg[f], pg[h], lev[h])
          /\ level_index(pg[f], lev[h]) = i
      BY <1>19 DEF Leads
    <3>4. lev[g] \in Nat /\ lev[h] \in Nat
      BY <1>14, A64Assumption DEF Forest, Placed
    <3>5. lev[g] = lev[h]
      BY <3>2, <3>3, <3>4
    <3>6. SameWay(pg[g], pg[h], lev[g])
      BY <3>2, <3>3, <3>5, SameWaySym, SameWayTrans
    <3>7. g = h
      BY <1>14, <3>2, <3>3, <3>5, <3>6 DEF Forest, OnePlace
    <3> QED BY <3>2, <3>3, <3>7
  <2> QED BY <1>14, <2>1, <2>2
<1>22. Removed(own, lev, f)
  <2>1. \A k \in Indices : lev[f] < PT_LEVELS - 1 => ~ Edge(f, k)
    BY <1>1, <1>2, <1>3, <1>8, DoneTable
  <2> QED BY <1>8, <1>10, <1>21, <2>1 DEF Removed
<1>23. PICK own2, lev2, pg2 : PlacedLess(own, lev, pg, own2, lev2, pg2)
  BY DEF PlacedLess
<1>24. \A g \in DOMAIN tables' : own2[g] = own[g] /\ lev2[g] = lev[g]
  BY <1>23 DEF PlacedLess
<1>25. Owned(own2, lev2)'
  <2>1. Live' = Live
    BY DEF Live
  <2>2. \A x \in Live : /\ roots[x].ttbr0_phys \in DOMAIN tables
                        /\ own[roots[x].ttbr0_phys] = x /\ lev[roots[x].ttbr0_phys] = 0
    BY DEF Forest, Owned
  <2>3. \A x \in Live : roots[x].ttbr0_phys # f
    BY <1>6, <1>10, <2>2
  <2>4. \A x \in Live : roots[x].ttbr0_phys \in DOMAIN tables'
    BY <1>11, <2>2, <2>3
  <2>5. \A g \in DOMAIN tables' : own[g] \in Live
    BY <1>11 DEF Forest, Owned
  <2> QED BY <1>24, <2>1, <2>2, <2>4, <2>5 DEF Owned
<1>26. StackIs(own2, lev2, s, u, n - 1)'
  <2>1. \A j \in 1 .. n - 1 : j + 1 \in 1 .. n /\ j + 1 # 1 /\ u[j] = st[j + 1] /\ j + 1 > 1
    BY <1>2, <1>5
  <2>2. \A j \in 1 .. n - 1 : u[j].table \in DOMAIN tables /\ u[j].table # f
    BY <1>3, <1>12, <2>1 DEF StackIs
  <2>3. \A j \in 1 .. n - 1 : u[j].table \in DOMAIN tables'
    BY <1>11, <2>2
  <2>4. ASSUME NEW j \in 1 .. n - 1
        PROVE  /\ u[j].i \in 0 .. PT_ENTRIES /\ u[j].level \in 0 .. PT_LEVELS - 1
               /\ u[j].level = (n - 1) - j /\ own2[u[j].table] = s /\ lev2[u[j].table] = u[j].level
    <3>1. /\ st[j + 1].i \in 0 .. PT_ENTRIES /\ st[j + 1].level \in 0 .. PT_LEVELS - 1
          /\ st[j + 1].level = n - (j + 1) /\ own[st[j + 1].table] = s
          /\ lev[st[j + 1].table] = st[j + 1].level
      BY <1>3, <2>1 DEF StackIs
    <3>2. own2[u[j].table] = own[u[j].table] /\ lev2[u[j].table] = lev[u[j].table]
      BY <1>24, <2>3
    <3>3. n - (j + 1) = (n - 1) - j
      BY <1>2
    <3> QED BY <2>1, <3>1, <3>2, <3>3
  <2>5. ASSUME NEW j \in 1 .. n - 1, j > 1
        PROVE  /\ u[j].i > 0 /\ tables'[u[j].table][u[j].i - 1].v
               /\ tables'[u[j].table][u[j].i - 1].addr = u[j - 1].table
    <3>1. j - 1 \in 1 .. n - 1 /\ (j + 1) - 1 = j /\ (j - 1) + 1 = j
      BY <2>5, <1>2
    <3>2. u[j - 1] = st[j]
      BY <1>5, <3>1
    <3>3. /\ st[j + 1].i > 0 /\ tables[st[j + 1].table][st[j + 1].i - 1].v
          /\ tables[st[j + 1].table][st[j + 1].i - 1].addr = st[(j + 1) - 1].table
      BY <1>3, <2>1 DEF StackIs
    <3>4. tables'[u[j].table] = tables[u[j].table]
      BY <1>11, <2>3
    <3> QED BY <2>1, <3>1, <3>2, <3>3, <3>4
  <2>6. u[n - 1].table = roots'[s].ttbr0_phys
    <3>1. n - 1 \in 1 .. n - 1 /\ (n - 1) + 1 = n
      BY <1>2, <1>6
    <3>2. u[n - 1] = st[n]
      BY <1>5, <3>1
    <3> QED BY <1>3, <3>2 DEF StackIs
  <2> QED BY <1>5, <1>6, <2>3, <2>4, <2>5, <2>6 DEF StackIs
<1>27. u \in Seq(Frame')
  <2>1. \A j \in 1 .. n - 1 : u[j] \in Frame
    BY <1>5
  <2>2. \A j \in 1 .. n - 1 : u[j].table \in DOMAIN tables'
    BY <1>26 DEF StackIs
  <2>3. \A j \in 1 .. n - 1 : u[j] \in Frame'
    BY <2>1, <2>2 DEF Frame
  <2>4. PICK F : F = Frame'
    OBVIOUS
  <2>5. \A j \in 1 .. Len(u) : u[j] \in F
    BY <1>5, <2>3, <2>4
  <2>6. u \in Seq(F)
    BY <1>5, <2>5
  <2> QED BY <2>4, <2>6
<1>28. CallPlace(own2, lev2, pg2)'
  BY <1>7, <1>26, <1>27, StackBack
<1>29. Forest(own2, lev2, pg2)'
  BY <1>22, <1>23, <1>25, <1>28, ForestRemoves
<1> QED BY <1>23, <1>29

\* A root whose entries have all been visited is the last table of its space: a table of
\* the lowest level among the others would hang from it.
LEMMA RootIsLast ==
  ASSUME NEW own, NEW lev, NEW pg, Forest(own, lev, pg), NEW s, NEW f \in DOMAIN tables,
         own[f] = s, lev[f] = 0, \A k \in Indices : lev[f] < PT_LEVELS - 1 => ~ Edge(f, k)
  PROVE  \A g \in DOMAIN tables : own[g] = s => g = f
<1> SUFFICES ASSUME NEW x \in DOMAIN tables, own[x] = s, x # f PROVE FALSE
  OBVIOUS
<1>1. \A g \in DOMAIN tables : lev[g] \in 0 .. PT_LEVELS - 1 /\ lev[g] \in Nat
  BY A64Assumption DEF Forest, Placed
<1>2. PICK S : S = {lev[g] : g \in {h \in DOMAIN tables : own[h] = s /\ h # f}}
  OBVIOUS
<1>3. S \in SUBSET Nat /\ S # {}
  BY <1>1, <1>2
<1>4. PICK m : m \in S /\ \A y \in S : m <= y
  BY <1>3, MinIsLeast
<1>5. PICK c \in DOMAIN tables : own[c] = s /\ c # f /\ lev[c] = m
  BY <1>2, <1>4
<1>6. lev[c] # 0
  <2> SUFFICES ASSUME lev[c] = 0 PROVE FALSE
    OBVIOUS
  <2>1. SameWay(pg[c], pg[f], 0)
    BY SameWayZero
  <2> QED BY <1>5, <2>1 DEF Forest, OnePlace
<1>7. lev[c] > 0
  BY <1>1, <1>6
<1>8. PICK g \in DOMAIN tables, k \in Indices :
        Edge(g, k) /\ tables[g][k].addr = c /\ Leads(own, lev, pg, g, k, c)
  BY <1>7 DEF Forest, Linked
<1>9. own[g] = s /\ lev[c] = lev[g] + 1
  BY <1>5, <1>8 DEF Leads
<1>10. lev[g] < PT_LEVELS - 1 /\ lev[g] < m
  BY <1>1, <1>5, <1>9, A64Assumption
<1>11. g # f
  BY <1>8, <1>10
<1>12. lev[g] \in S
  BY <1>2, <1>9, <1>11
<1> QED BY <1>1, <1>4, <1>5, <1>10, <1>12

LEMMA ForestDestroyed ==
  ASSUME NEW own, NEW lev, NEW pg, Forest(own, lev, pg), AsidInv, call.op = "destroy",
         NEW top, top = Head(call.stack), ~ (HasTables(top.level) /\ top.i < PT_ENTRIES),
         Tail(call.stack) = <<>>, call' = NoCall,
         roots' = [x \in Live \ {call.root} |-> roots[x]],
         tables' = [g \in DOMAIN tables \ {top.table} |-> tables[g]]
  PROVE  \E own2, lev2, pg2 :
           Forest(own2, lev2, pg2)' /\ PlacedLess(own, lev, pg, own2, lev2, pg2)
<1>1. PICK s, st : /\ call = [op |-> "destroy", root |-> s, stack |-> st] /\ s \in Live
                   /\ st \in Seq(Frame) /\ st # <<>> /\ StackIs(own, lev, s, st, Len(st))
  BY StackFacts
<1>2. call.stack = st /\ call.root = s /\ top = st[1]
  BY <1>1
<1>3. Len(st) = 1
  <2>1. Len(st) \in Nat \ {0} /\ Len(Tail(st)) = Len(st) - 1
    BY <1>1
  <2>2. Tail(st) = <<>> /\ Len(<<>>) = 0
    BY <1>2
  <2>3. Len(Tail(st)) = 0
    BY <2>2, Zenon
  <2>4. PICK n : n = Len(st)
    OBVIOUS
  <2>5. n \in Nat /\ n - 1 = 0
    BY <2>1, <2>3, <2>4
  <2>6. n = 1
    BY <2>5
  <2> QED BY <2>4, <2>6, Zenon
<1>4. StackIs(own, lev, s, st, 1)
  BY <1>1, <1>3
<1>5. PICK f : f = top.table
  OBVIOUS
<1>6. f \in DOMAIN tables /\ own[f] = s /\ lev[f] = 0
  <2>1. 1 \in 1 .. 1 /\ 1 - 1 = 0
    OBVIOUS
  <2> QED BY <1>2, <1>4, <1>5, <2>1 DEF StackIs
<1>7. DOMAIN tables' = DOMAIN tables \ {f} /\ \A g \in DOMAIN tables' : tables'[g] = tables[g]
  BY <1>5
<1>8. call'.op = "none"
  BY DEF NoCall
<1>9. \A k \in Indices : lev[f] < PT_LEVELS - 1 => ~ Edge(f, k)
  <2>1. ~ (HasTables(st[1].level) /\ st[1].i < PT_ENTRIES)
    BY <1>2
  <2> QED BY <1>1, <1>2, <1>3, <1>4, <1>5, <2>1, DoneTable
<1>10. \A g \in DOMAIN tables : own[g] = s => g = f
  BY <1>6, <1>9, RootIsLast
<1>11. ASSUME NEW g \in DOMAIN tables \ {f}, NEW k \in Indices, lev[g] < PT_LEVELS - 1
       PROVE  Edge(g, k)' <=> Edge(g, k) /\ tables[g][k].addr # f
  <2>1. \A j \in 1 .. 1 : st[j].table = f
    BY <1>2, <1>5
  <2>2. ~ StaleIn(st, 1, g, k)
    BY <2>1 DEF StaleIn
  <2>3. ~ Stale(g, k)
    <3>1. Stale(g, k) <=> StaleIn(st, Len(st), g, k)
      BY <1>1, StaleIs
    <3> QED BY <1>3, <2>2, <3>1
  <2>4. ~ Stale(g, k)'
    BY <1>8 DEF Stale
  <2>5. Edge(g, k)' <=> Edge(g, k)
    BY <1>7, <2>3, <2>4 DEF Edge
  <2>6. Edge(g, k) => tables[g][k].addr # f
    <3> SUFFICES ASSUME Edge(g, k), tables[g][k].addr = f PROVE FALSE
      OBVIOUS
    <3>1. Leads(own, lev, pg, g, k, f)
      BY <1>11 DEF Forest, EdgesLead
    <3>2. own[g] = own[f]
      BY <3>1 DEF Leads
    <3> QED BY <1>6, <1>10, <3>2
  <2> QED BY <2>5, <2>6
<1>12. Removed(own, lev, f)
  BY <1>5, <1>6, <1>9, <1>11 DEF Removed
<1>13. PICK own2, lev2, pg2 : PlacedLess(own, lev, pg, own2, lev2, pg2)
  BY DEF PlacedLess
<1>14. Owned(own2, lev2)'
  <2>1. Live' = Live \ {s} /\ \A x \in Live' : roots'[x] = roots[x]
    BY <1>2 DEF Live
  <2>2. \A x \in Live : /\ roots[x].ttbr0_phys \in DOMAIN tables
                        /\ own[roots[x].ttbr0_phys] = x /\ lev[roots[x].ttbr0_phys] = 0
    BY DEF Forest, Owned
  <2>3. \A x \in Live' : roots[x].ttbr0_phys \in DOMAIN tables'
    BY <1>6, <1>7, <2>1, <2>2
  <2>4. \A g \in DOMAIN tables' : own[g] \in Live'
    BY <1>7, <1>10, <2>1 DEF Forest, Owned
  <2> QED BY <1>13, <2>1, <2>2, <2>3, <2>4 DEF PlacedLess, Owned
<1>15. CallPlace(own2, lev2, pg2)'
  BY <1>8 DEF CallPlace
<1>16. Forest(own2, lev2, pg2)'
  BY <1>12, <1>13, <1>14, <1>15, ForestRemoves
<1> QED BY <1>13, <1>16

----------------------------------------------------------------------------
(* What the steps do to the translations.                                  *)

TranslatesTo(own, lev, pg) ==
  \A s : \A page \in Nat : Usable(s) =>
    /\ EntryAt(own, lev, pg, s, page, Translate(s, page))
    /\ \A e : EntryAt(own, lev, pg, s, page, e) => e = Translate(s, page)

TranslateRule == \A own, lev, pg : TableType /\ Forest(own, lev, pg) => TranslatesTo(own, lev, pg)

LEMMA TranslateRuleHolds == TranslateRule
<1> SUFFICES ASSUME NEW own, NEW lev, NEW pg, TableType, Forest(own, lev, pg), NEW s, NEW page \in Nat,
                    Usable(s)
             PROVE  /\ EntryAt(own, lev, pg, s, page, Translate(s, page))
                    /\ \A e : EntryAt(own, lev, pg, s, page, e) => e = Translate(s, page)
  BY DEF TranslateRule, TranslatesTo
<1>1. EntryAt(own, lev, pg, s, page, Translate(s, page))
  BY TranslateIs
<1>2. PICK d : d = Translate(s, page)
  OBVIOUS
<1>3. \A e : EntryAt(own, lev, pg, s, page, e) => e = d
  BY <1>1, <1>2, EntryUnique
<1> QED BY <1>1, <1>2, <1>3

LEMMA TranslateNext == TranslateRule'
  BY TranslateRuleHolds, PTL

LEMMA PageIsNat == Pages \subseteq Nat
  BY DEF Pages

\* Every page keeps its translation; in a space that appears no page has one.
MapKept ==
  \A s : \A page \in Pages : Usable(s)' =>
    Translate(s, page)' = IF Usable(s) THEN Translate(s, page) ELSE Invalid

\* One page takes a new entry.
MapWritten(r, va, e) ==
  \A s : \A page \in Pages : Usable(s)' =>
    Usable(s) /\ Translate(s, page)' = IF s = r /\ page = va THEN e ELSE Translate(s, page)

\* The entry of a page after a step is known from the new places of the tables.
LEMMA EntryNext ==
  ASSUME TableType', NEW own, NEW lev, NEW pg, Forest(own, lev, pg)', NEW s, Usable(s)', NEW page \in Pages,
         NEW e, EntryAt(own, lev, pg, s, page, e)'
  PROVE  Translate(s, page)' = e
<1>1. TranslatesTo(own, lev, pg)'
  BY TranslateNext DEF TranslateRule
<1>2. page \in Nat
  BY PageIsNat
<1> QED BY <1>1, <1>2 DEF TranslatesTo

LEMMA EntryNow ==
  ASSUME TableType, NEW own, NEW lev, NEW pg, Forest(own, lev, pg), NEW s, Usable(s), NEW page \in Pages
  PROVE  EntryAt(own, lev, pg, s, page, Translate(s, page))
<1>1. TranslatesTo(own, lev, pg)
  BY TranslateRuleHolds DEF TranslateRule
<1>2. page \in Nat
  BY PageIsNat
<1> QED BY <1>1, <1>2 DEF TranslatesTo

LEMMA SameTablesKept ==
  ASSUME UNCHANGED <<tables, roots>>, \A s : Usable(s)' => Usable(s)
  PROVE  MapKept
<1>1. \A s, page : Translate(s, page)' = Translate(s, page)
  BY DEF Translate, LastTable
<1> QED BY <1>1 DEF MapKept

\* A table is added, empty; the entries of the last level stay.
LEMMA GrowthKept ==
  ASSUME TableType, TableType', NEW own, NEW lev, NEW pg, Forest(own, lev, pg),
         NEW own2, NEW lev2, NEW pg2, Forest(own2, lev2, pg2)', PlacedToo(own, lev, pg, own2, lev2, pg2),
         NEW f, DOMAIN tables' = DOMAIN tables \cup {f}, tables'[f] = ZeroTable,
         \A g \in DOMAIN tables : lev[g] = PT_LEVELS - 1 => tables'[g] = tables[g],
         \A s : Usable(s)' => Usable(s)
  PROVE  MapKept
<1> SUFFICES ASSUME NEW s, Usable(s)', NEW page \in Pages
             PROVE  Translate(s, page)' = Translate(s, page)
  BY DEF MapKept
<1>1. Usable(s)
  OBVIOUS
<1>2. PICK e : e = Translate(s, page)
  OBVIOUS
<1>3. EntryAt(own, lev, pg, s, page, e)
  BY <1>1, <1>2, EntryNow
<1>4. PICK m : m = PT_LEVELS - 1 /\ m \in 0 .. PT_LEVELS - 1
  BY A64Assumption
<1>5. PICK k : k = level_index(page, m) /\ k \in Indices
  BY <1>4, PageIsNat, IndexIsEntry
<1>6. \A g \in DOMAIN tables : Slot(own, lev, pg, s, page, m, g) <=> Slot(own2, lev2, pg2, s, page, m, g)'
  BY DEF Slot, PlacedToo
<1>7. EntryAt(own2, lev2, pg2, s, page, e)'
  <2>1. CASE \E g : Slot(own, lev, pg, s, page, m, g) /\ e = tables[g][k]
    <3>1. PICK g : Slot(own, lev, pg, s, page, m, g) /\ e = tables[g][k]
      BY <2>1
    <3>2. g \in DOMAIN tables /\ lev[g] = PT_LEVELS - 1
      BY <1>4, <3>1 DEF Slot
    <3>3. Slot(own2, lev2, pg2, s, page, m, g)' /\ e = tables'[g][k]
      BY <1>6, <3>1, <3>2
    <3> QED BY <1>4, <1>5, <3>3 DEF EntryAt
  <2>2. CASE e = Invalid /\ \A g : ~ Slot(own, lev, pg, s, page, m, g)
    <3>1. \A g : Slot(own2, lev2, pg2, s, page, m, g)' => g = f
      BY <1>6, <2>2 DEF Slot
    <3>2. e = tables'[f][k]
      BY <1>5, <2>2 DEF ZeroTable
    <3> QED BY <1>4, <1>5, <2>2, <3>1, <3>2 DEF EntryAt
  <2> QED BY <1>3, <1>4, <1>5, <2>1, <2>2 DEF EntryAt
<1>8. Translate(s, page)' = e
  BY <1>7, EntryNext
<1> QED BY <1>2, <1>8

\* A table of a space that is not in use goes.
LEMMA RemovalKept ==
  ASSUME TableType, TableType', NEW own, NEW lev, NEW pg, Forest(own, lev, pg),
         NEW own2, NEW lev2, NEW pg2, Forest(own2, lev2, pg2)', PlacedLess(own, lev, pg, own2, lev2, pg2),
         NEW f, tables' = [g \in DOMAIN tables \ {f} |-> tables[g]],
         \A s : Usable(s)' => Usable(s) /\ own[f] # s
  PROVE  MapKept
<1> SUFFICES ASSUME NEW s, Usable(s)', NEW page \in Pages
             PROVE  Translate(s, page)' = Translate(s, page)
  BY DEF MapKept
<1>1. Usable(s) /\ own[f] # s
  OBVIOUS
<1>2. PICK e : e = Translate(s, page)
  OBVIOUS
<1>3. EntryAt(own, lev, pg, s, page, e)
  BY <1>1, <1>2, EntryNow
<1>4. DOMAIN tables' = DOMAIN tables \ {f} /\ \A g \in DOMAIN tables' : tables'[g] = tables[g]
  OBVIOUS
<1>5. \A g, m : Slot(own, lev, pg, s, page, m, g) <=> Slot(own2, lev2, pg2, s, page, m, g)'
  BY <1>1, <1>4 DEF Slot, PlacedLess
<1>6. EntryAt(own2, lev2, pg2, s, page, e)'
  <2>1. CASE \E g : /\ Slot(own, lev, pg, s, page, PT_LEVELS - 1, g)
                    /\ e = tables[g][level_index(page, PT_LEVELS - 1)]
    <3>1. PICK g : /\ Slot(own, lev, pg, s, page, PT_LEVELS - 1, g)
                   /\ e = tables[g][level_index(page, PT_LEVELS - 1)]
      BY <2>1
    <3>2. Slot(own2, lev2, pg2, s, page, PT_LEVELS - 1, g)'
      BY <1>5, <3>1
    <3>3. tables'[g] = tables[g]
      BY <1>4, <3>2 DEF Slot
    <3> QED BY <3>1, <3>2, <3>3 DEF EntryAt
  <2>2. CASE e = Invalid /\ \A g : ~ Slot(own, lev, pg, s, page, PT_LEVELS - 1, g)
    BY <1>5, <2>2 DEF EntryAt
  <2> QED BY <1>3, <2>1, <2>2 DEF EntryAt
<1>7. Translate(s, page)' = e
  BY <1>6, EntryNext
<1> QED BY <1>2, <1>7

\* The last entry of a page is written, and that of no other page.
LEMMA WriteWritten ==
  ASSUME TableType, TableType', NEW own, NEW lev, NEW pg, Forest(own, lev, pg), Forest(own, lev, pg)',
         DOMAIN tables' = DOMAIN tables, NEW r, NEW va \in Pages, NEW e,
         NEW t, Slot(own, lev, pg, r, va, PT_LEVELS - 1, t),
         NEW k, k = level_index(va, PT_LEVELS - 1), tables'[t][k] = e,
         \A g \in DOMAIN tables : \A j \in Indices : ~ (g = t /\ j = k) => tables'[g][j] = tables[g][j],
         \A s : Usable(s)' => Usable(s)
  PROVE  MapWritten(r, va, e)
<1> SUFFICES ASSUME NEW s, Usable(s)', NEW page \in Pages
             PROVE  Translate(s, page)' = IF s = r /\ page = va THEN e ELSE Translate(s, page)
  BY DEF MapWritten
<1>1. PICK m : m = PT_LEVELS - 1 /\ m \in 0 .. PT_LEVELS - 1 /\ m \in Nat /\ m + 1 = PT_LEVELS
  BY A64Assumption
<1>2. \A g : Slot(own, lev, pg, s, page, m, g) <=> Slot(own, lev, pg, s, page, m, g)'
  BY DEF Slot
<1>3. CASE s = r /\ page = va
  <2>1. Slot(own, lev, pg, s, page, m, t)'
    BY <1>1, <1>2, <1>3
  <2>2. EntryAt(own, lev, pg, s, page, e)'
    BY <1>1, <1>3, <2>1 DEF EntryAt
  <2>3. Translate(s, page)' = e
    BY <2>2, EntryNext
  <2> QED BY <1>3, <2>3
<1>4. CASE ~ (s = r /\ page = va)
  <2>1. PICK d : d = Translate(s, page)
    OBVIOUS
  <2>2. Usable(s)
    OBVIOUS
  <2>3. EntryAt(own, lev, pg, s, page, d)
    BY <2>1, <2>2, EntryNow
  <2>4. PICK i : i = level_index(page, m) /\ i \in Indices
    BY <1>1, PageIsNat, IndexIsEntry
  <2>5. CASE \E g : Slot(own, lev, pg, s, page, m, g) /\ d = tables[g][i]
    <3>1. PICK g : Slot(own, lev, pg, s, page, m, g) /\ d = tables[g][i]
      BY <2>5
    <3>2. ~ (g = t /\ i = k)
      <4> SUFFICES ASSUME g = t, i = k PROVE FALSE
        OBVIOUS
      <4>1. SameWay(pg[t], page, m) /\ SameWay(pg[t], va, m) /\ s = r
        BY <1>1, <3>1 DEF Slot
      <4>2. SameWay(page, va, m)
        BY <4>1, SameWaySym, SameWayTrans
      <4>3. level_index(page, m) = level_index(va, m)
        BY <1>1, <2>4
      <4>4. SameWay(page, va, m + 1)
        BY <1>1, <4>2, <4>3, SameWayNext
      <4>5. page = va
        BY <1>1, <4>4, OnePage
      <4> QED BY <1>4, <4>1, <4>5
    <3>3. g \in DOMAIN tables
      BY <3>1 DEF Slot
    <3>4. Slot(own, lev, pg, s, page, m, g)' /\ d = tables'[g][i]
      BY <1>2, <2>4, <3>1, <3>2, <3>3
    <3>5. EntryAt(own, lev, pg, s, page, d)'
      BY <1>1, <2>4, <3>4 DEF EntryAt
    <3> QED BY <1>4, <2>1, <3>5, EntryNext
  <2>6. CASE d = Invalid /\ \A g : ~ Slot(own, lev, pg, s, page, m, g)
    <3>1. EntryAt(own, lev, pg, s, page, d)'
      BY <1>1, <1>2, <2>6 DEF EntryAt
    <3> QED BY <1>4, <2>1, <3>1, EntryNext
  <2> QED BY <1>1, <2>3, <2>4, <2>5, <2>6 DEF EntryAt
<1> QED BY <1>3, <1>4

----------------------------------------------------------------------------
(* The actions, one by one.                                                *)

\* What every step but the write of a last entry does.
Stepped ==
  /\ IInv' /\ TableType'
  /\ \E own, lev, pg : Forest(own, lev, pg)'
  /\ MapKept

LEMMA QuietStep ==
  ASSUME A64Inv, UNCHANGED <<tables, roots>>, [Next]_vars, handed' = handed,
         call' # NoCall => phase' = "run",
         NEW own, NEW lev, NEW pg, Forest(own, lev, pg)', \A s : Usable(s)' => Usable(s)
  PROVE  Stepped
<1>1. IInv'
  BY NextIInv DEF A64Inv
<1>2. TableType'
  BY DEF A64Inv, TableType, Live
<1>3. MapKept
  BY SameTablesKept
<1> QED BY <1>1, <1>2, <1>3 DEF Stepped

LEMMA AllocNone ==
  ASSUME A64Inv, phase = "run", pmm_alloc_frame(NextFrame), NextFrame = NoFrame
  PROVE  [Next]_vars /\ handed' = handed
<1>1. IInv
  BY DEF A64Inv
<1>2. Next /\ handed' = handed \cup ({NextFrame} \ {NoFrame})
  BY <1>1, AllocFacts
<1> QED BY <1>2

LEMMA AllocSome ==
  ASSUME A64Inv, phase = "run", pmm_alloc_frame(NextFrame), NEW f, f = NextFrame, f # NoFrame
  PROVE  /\ IInv' /\ f \in Frames /\ f \notin DOMAIN tables
         /\ handed' = DOMAIN tables \cup {f} /\ phase' = "run"
<1>1. IInv /\ handed = DOMAIN tables
  BY DEF A64Inv, TableType
<1>2. /\ NextFrame \in Frames \cup {NoFrame} /\ NextFrame \notin handed
      /\ Next /\ handed' = handed \cup ({NextFrame} \ {NoFrame})
  BY <1>1, AllocFacts
<1>3. IInv'
  BY <1>1, <1>2, NextIInv
<1>4. phase' = "run"
  BY DEF pmm_alloc_frame, NextFrame
<1> QED BY <1>1, <1>2, <1>3, <1>4

LEMMA StepBoot ==
  ASSUME A64Inv, BootStep \/ (\E s, page : tlb_fill(s, page)) \/ UNCHANGED a64Vars
  PROVE  Stepped
<1>1. PICK own, lev, pg : Forest(own, lev, pg)
  BY DEF A64Inv
<1>2. UNCHANGED <<tables, roots, call>>
  BY DEF BootStep, ptVars, tlb_fill, a64Vars
<1>3. Forest(own, lev, pg)'
  BY <1>1, <1>2, ForestUnchanged
<1>4. \A s : Usable(s)' => Usable(s)
  BY <1>2 DEF Usable, Live
<1>5. [Next]_vars /\ handed' = handed
  BY DEF BootStep, Next, vars, tlb_fill, a64Vars, mm_boot_init, pmm_init, pmm_free_region,
         pmm_reserve_region, pmmVars
<1>6. call # NoCall => phase = "run"
  BY DEF A64Inv, TableType
<1>7. call' # NoCall => phase' = "run"
  <2>1. CASE BootStep
    <3>1. phase # "run"
      BY <2>1 DEF BootStep, mm_boot_init, pmm_init, pmm_free_region, pmm_reserve_region
    <3> QED BY <1>2, <1>6, <3>1
  <2>2. CASE (\E s, page : tlb_fill(s, page)) \/ UNCHANGED a64Vars
    BY <1>2, <1>6, <2>2 DEF tlb_fill, a64Vars, vars
  <2> QED BY <2>1, <2>2
<1> QED BY <1>2, <1>3, <1>4, <1>5, <1>7, QuietStep

LEMMA StepWalkStarts ==
  ASSUME A64Inv, NEW s, NEW page \in MapPages,
         (\E phys, prot : arch_map_page(s, page, phys, prot)) \/ arch_unmap_page(s, page)
  PROVE  Stepped
<1>1. PICK own, lev, pg : Forest(own, lev, pg)
  BY DEF A64Inv
<1>2. /\ UNCHANGED <<vars, tables, roots>> /\ call = NoCall /\ s \in Live /\ phase = "run"
  BY DEF arch_map_page, arch_unmap_page
<1>3. PICK o \in {"map", "unmap"} : \E e : WalkCall(o, s, page, e)
  BY DEF arch_map_page, arch_unmap_page
<1>4. Forest(own, lev, pg)'
  BY <1>1, <1>2, <1>3, ForestWalkStarts
<1>5. call'.op # "destroy"
  BY <1>3 DEF WalkCall
<1>6. call.op # "destroy"
  BY <1>2 DEF NoCall
<1>7. \A x : Usable(x)' => Usable(x)
  BY <1>2, <1>6 DEF Usable, Live
<1>8. [Next]_vars /\ handed' = handed /\ phase' = "run"
  BY <1>2 DEF vars
<1> QED BY <1>2, <1>4, <1>7, <1>8, QuietStep

LEMMA StepDestroyStarts ==
  ASSUME A64Inv, NEW s, arch_pagetable_destroy(s)
  PROVE  Stepped
<1>1. PICK own, lev, pg : Forest(own, lev, pg)
  BY DEF A64Inv
<1>2. UNCHANGED <<vars, tables, roots>> /\ call = NoCall /\ phase = "run"
  BY DEF arch_pagetable_destroy
<1>3. Forest(own, lev, pg)'
  BY <1>1, ForestDestroyStarts
<1>4. call.op # "destroy"
  BY <1>2 DEF NoCall
<1>5. \A x : Usable(x)' => Usable(x)
  BY <1>2, <1>4 DEF Usable, Live
<1>6. [Next]_vars /\ handed' = handed /\ phase' = "run"
  BY <1>2 DEF vars
<1> QED BY <1>2, <1>3, <1>5, <1>6, QuietStep

\* A walk that ends without a frame, an unmap of what is not there, an invalidation.
LEMMA StepReturns ==
  ASSUME A64Inv, UNCHANGED <<tables, roots>>, [Next]_vars, handed' = handed,
         call.op \notin {"create", "destroy"}, call' = NoCall
  PROVE  Stepped
<1>1. PICK own, lev, pg : Forest(own, lev, pg)
  BY DEF A64Inv
<1>2. Forest(own, lev, pg)'
  BY <1>1, ForestReturns
<1>3. \A x : Usable(x)' => Usable(x)
  BY DEF Usable, Live
<1> QED BY <1>2, <1>3, QuietStep

\* arch_pagetable_create takes a frame, or finds none.
LEMMA StepCreate ==
  ASSUME A64Inv, NEW s \in Spaces, arch_pagetable_create(s)
  PROVE  Stepped
<1>1. PICK own, lev, pg : Forest(own, lev, pg)
  BY DEF A64Inv
<1>2. /\ phase = "run" /\ call = NoCall /\ s \notin Live /\ UNCHANGED roots
      /\ pmm_alloc_frame(NextFrame) /\ TableType
  BY DEF arch_pagetable_create, A64Inv
<1>3. call.op = "none"
  BY <1>2 DEF NoCall
<1>4. CASE NextFrame = NoFrame
  <2>1. UNCHANGED <<tables, call>>
    BY <1>4 DEF arch_pagetable_create
  <2>2. [Next]_vars /\ handed' = handed
    BY <1>2, <1>4, AllocNone
  <2> QED BY <1>2, <1>3, <2>1, <2>2, StepReturns
<1>5. CASE NextFrame # NoFrame
  <2>1. PICK f : f = NextFrame /\ f # NoFrame
    BY <1>5
  <2>2. tables' = NewTable(f) /\ call' = [op |-> "create", root |-> s, table |-> f]
    BY <1>5, <2>1 DEF arch_pagetable_create
  <2>3. /\ IInv' /\ f \in Frames /\ f \notin DOMAIN tables
        /\ handed' = DOMAIN tables \cup {f} /\ phase' = "run"
    BY <1>2, <2>1, AllocSome
  <2>4. Added(f)
    BY <2>2, <2>3 DEF Added, NewTable
  <2>5. TableType'
    <3>1. /\ tables' = [g \in DOMAIN tables' |-> tables'[g]]
          /\ DOMAIN tables' = DOMAIN tables \cup {f}
      BY <2>2 DEF NewTable
    <3>2. \A g \in DOMAIN tables' : tables'[g] = [k \in Indices |-> tables'[g][k]]
      BY <1>2, <2>2, <3>1 DEF NewTable, ZeroTable, TableType
    <3> QED BY <1>2, <2>3, <3>1, <3>2 DEF TableType, Live
  <2>6. PICK own2, lev2, pg2 : Forest(own2, lev2, pg2)' /\ PlacedToo(own, lev, pg, own2, lev2, pg2)
    BY <1>1, <1>2, <2>2, <2>4, ForestCreates
  <2>7. \A x : Usable(x)' => Usable(x)
    BY <1>2, <1>3 DEF Usable, Live
  <2>8. MapKept
    BY <1>1, <1>2, <2>4, <2>5, <2>6, <2>7, GrowthKept DEF Added
  <2> QED BY <2>3, <2>5, <2>6, <2>8 DEF Stepped
<1> QED BY <1>4, <1>5

\* A frame that carries a table goes back to the allocator.
LEMMA FreedTable ==
  ASSUME A64Inv, NEW f \in DOMAIN tables, pmm_free_frame(f),
         tables' = [g \in DOMAIN tables \ {f} |-> tables[g]], Live' \subseteq Live
  PROVE  IInv' /\ TableType'
<1>1. IInv /\ TableType
  BY DEF A64Inv
<1>2. f \in handed
  BY <1>1 DEF TableType
<1>3. handed' = handed \ {f} /\ phase' = "run" /\ Next
  BY <1>1, <1>2, FreeFacts
<1>4. IInv'
  BY <1>1, <1>3, NextIInv
<1>5. /\ DOMAIN tables' = DOMAIN tables \ {f}
      /\ \A g \in DOMAIN tables' : tables'[g] = tables[g]
  OBVIOUS
<1>6. TableType'
  BY <1>1, <1>3, <1>5 DEF TableType
<1> QED BY <1>4, <1>6

LEMMA StepCreateFails ==
  ASSUME A64Inv, arch_pagetable_create_asid, AsidsFree = {}
  PROVE  Stepped
<1>1. PICK own, lev, pg : Forest(own, lev, pg)
  BY DEF A64Inv
<1>2. call.op = "create" /\ call' = NoCall /\ UNCHANGED roots /\ AsidInv /\ TableType
  BY DEF arch_pagetable_create_asid, A64Inv
<1>3. PICK f : f = call.table /\ f \in DOMAIN tables /\ own[f] = call.root
  BY <1>1, <1>2 DEF Forest, CallPlace
<1>4. pmm_free_frame(f) /\ tables' = [g \in DOMAIN tables \ {f} |-> tables[g]]
  BY <1>3 DEF arch_pagetable_create_asid, Restrict
<1>5. Live' = Live
  BY <1>2 DEF Live
<1>6. IInv' /\ TableType'
  BY <1>3, <1>4, <1>5, FreedTable
<1>7. PICK own2, lev2, pg2 : Forest(own2, lev2, pg2)' /\ PlacedLess(own, lev, pg, own2, lev2, pg2)
  BY <1>1, <1>2, <1>3, <1>4, ForestCreateFails
<1>8. call.root \notin Live
  BY <1>2 DEF AsidInv, CallKinds, NoCall
<1>9. \A x : Usable(x)' => Usable(x) /\ own[f] # x
  BY <1>2, <1>3, <1>5, <1>8 DEF Usable
<1>10. MapKept
  BY <1>1, <1>2, <1>4, <1>6, <1>7, <1>9, RemovalKept
<1> QED BY <1>6, <1>7, <1>10 DEF Stepped

\* A new root: its only table is empty.
LEMMA StepCreated ==
  ASSUME A64Inv, arch_pagetable_create_asid, AsidsFree # {}
  PROVE  Stepped
<1>1. PICK own, lev, pg : Forest(own, lev, pg)
  BY DEF A64Inv
<1>2. call.op = "create" /\ call' = NoCall /\ UNCHANGED <<vars, tables>> /\ AsidInv /\ TableType /\ IInv
  BY DEF arch_pagetable_create_asid, A64Inv
<1>3. PICK r : r = call.root /\ r \notin Live
  BY <1>2 DEF AsidInv, CallKinds, NoCall
<1>4. PICK t : /\ t = call.table /\ t \in DOMAIN tables /\ own[t] = r /\ lev[t] = 0
               /\ tables[t] = ZeroTable
  BY <1>1, <1>2, <1>3 DEF Forest, CallPlace
<1>5. PICK a : roots' = [s \in Live \cup {r} |->
                 IF s = r THEN [ttbr0_phys |-> t, asid |-> a] ELSE roots[s]]
  BY <1>3, <1>4 DEF arch_pagetable_create_asid
<1>6. Forest(own, lev, pg)'
  BY <1>1, <1>2, <1>3, <1>4, <1>5, ForestCreated
<1>7. Live' = Live \cup {r}
  BY <1>5 DEF Live
<1>8. r \in Spaces
  BY <1>1, <1>4 DEF Forest, Placed
<1>9. TableType'
  BY <1>2, <1>7, <1>8 DEF TableType, vars
<1>10. IInv'
  BY <1>2, NextIInv
<1>11. MapKept
  <2> SUFFICES ASSUME NEW s, Usable(s)', NEW page \in Pages
               PROVE  Translate(s, page)' = IF Usable(s) THEN Translate(s, page) ELSE Invalid
    BY DEF MapKept
  <2>1. PICK m : m = PT_LEVELS - 1 /\ m \in 0 .. PT_LEVELS - 1
    BY A64Assumption
  <2>2. \A g : Slot(own, lev, pg, s, page, m, g)' <=> Slot(own, lev, pg, s, page, m, g)
    BY <1>2 DEF Slot
  <2>3. CASE s # r
    <3>1. Usable(s)
      BY <1>2, <1>7, <2>3 DEF Usable
    <3>2. PICK e : e = Translate(s, page)
      OBVIOUS
    <3>3. EntryAt(own, lev, pg, s, page, e)
      BY <1>1, <1>2, <3>1, <3>2, EntryNow
    <3>4. EntryAt(own, lev, pg, s, page, e)'
      BY <1>2, <2>1, <2>2, <3>3 DEF EntryAt
    <3>5. Translate(s, page)' = e
      BY <1>6, <1>9, <3>4, EntryNext
    <3> QED BY <3>1, <3>2, <3>5
  <2>4. CASE s = r
    <3>1. ~ Usable(s)
      BY <1>3, <2>4 DEF Usable
    <3>2. \A g \in DOMAIN tables : own[g] = r => g = t
      BY <1>1, <1>3, <1>4 DEF Forest, Owned
    <3>3. PICK k : k = level_index(page, m) /\ k \in Indices
      BY <2>1, PageIsNat, IndexIsEntry
    <3>4. \A g : Slot(own, lev, pg, s, page, m, g)' => tables'[g][k] = Invalid
      BY <1>2, <1>4, <2>2, <2>4, <3>2, <3>3 DEF Slot, ZeroTable
    <3>5. EntryAt(own, lev, pg, s, page, Invalid)'
      BY <2>1, <3>3, <3>4 DEF EntryAt
    <3>6. Translate(s, page)' = Invalid
      BY <1>6, <1>9, <3>5, EntryNext
    <3> QED BY <3>1, <3>6
  <2> QED BY <2>3, <2>4
<1> QED BY <1>6, <1>9, <1>10, <1>11 DEF Stepped

LEMMA StepFree ==
  ASSUME A64Inv, free_table_recursive
  PROVE  Stepped
<1>1. PICK own, lev, pg : Forest(own, lev, pg)
  BY DEF A64Inv
<1>2. call.op = "destroy" /\ AsidInv /\ TableType /\ IInv
  BY DEF free_table_recursive, A64Inv
<1>3. PICK s, st : /\ call = [op |-> "destroy", root |-> s, stack |-> st] /\ s \in Live
                   /\ st \in Seq(Frame) /\ st # <<>> /\ StackIs(own, lev, s, st, Len(st))
  BY <1>1, <1>2, StackFacts
<1>4. call.stack = st /\ call.root = s /\ call # NoCall /\ phase = "run"
  BY <1>2, <1>3 DEF TableType, NoCall
<1>5. PICK top : top = Head(call.stack)
  OBVIOUS
<1>6. CASE HasTables(top.level) /\ top.i < PT_ENTRIES
  <2>1. PICK entry : entry = tables[top.table][top.i]
    OBVIOUS
  <2>2. /\ call' = [call EXCEPT !.stack = NextStack(top, entry, call.stack)]
        /\ UNCHANGED <<vars, tables, roots>>
    BY <1>5, <1>6, <2>1 DEF free_table_recursive, NextStack
  <2>3. Forest(own, lev, pg)'
    BY <1>1, <1>2, <1>5, <1>6, <2>1, <2>2, ForestAdvances
  <2>4. call'.op = "destroy" /\ call'.root = s
    BY <1>3, <2>2
  <2>5. \A x : Usable(x)' => Usable(x)
    BY <1>4, <2>2, <2>4 DEF Usable, Live
  <2>6. [Next]_vars /\ handed' = handed /\ phase' = "run"
    BY <1>4, <2>2 DEF vars
  <2> QED BY <2>2, <2>3, <2>5, <2>6, QuietStep
<1>7. CASE ~ (HasTables(top.level) /\ top.i < PT_ENTRIES)
  <2>1. PICK f : f = top.table
    OBVIOUS
  <2>2. top = st[1] /\ Len(st) \in Nat /\ Len(st) >= 1 /\ 1 \in 1 .. Len(st)
    BY <1>3, <1>4, <1>5 DEF StackIs
  <2>3. f \in DOMAIN tables /\ own[f] = s
    BY <1>3, <2>1, <2>2 DEF StackIs
  <2>4. pmm_free_frame(f) /\ tables' = [g \in DOMAIN tables \ {f} |-> tables[g]]
    BY <1>5, <1>7, <2>1 DEF free_table_recursive, Restrict
  <2>5. CASE Tail(call.stack) # <<>>
    <3>1. call' = [call EXCEPT !.stack = Tail(call.stack)] /\ UNCHANGED roots
      BY <1>5, <1>7, <2>5 DEF free_table_recursive
    <3>2. Live' = Live /\ call'.op = "destroy" /\ call'.root = s
      BY <1>3, <3>1 DEF Live
    <3>3. IInv' /\ TableType'
      BY <2>3, <2>4, <3>2, FreedTable
    <3>4. PICK own2, lev2, pg2 :
            Forest(own2, lev2, pg2)' /\ PlacedLess(own, lev, pg, own2, lev2, pg2)
      BY <1>1, <1>2, <1>5, <1>7, <2>1, <2>4, <2>5, <3>1, ForestPops
    <3>5. \A x : Usable(x)' => Usable(x) /\ own[f] # x
      BY <1>4, <2>3, <3>2 DEF Usable
    <3>6. MapKept
      BY <1>1, <1>2, <2>4, <3>3, <3>4, <3>5, RemovalKept
    <3> QED BY <3>3, <3>4, <3>6 DEF Stepped
  <2>6. CASE Tail(call.stack) = <<>>
    <3>1. call' = NoCall /\ roots' = [x \in Live \ {call.root} |-> roots[x]]
      BY <1>5, <1>7, <2>6 DEF free_table_recursive, Restrict
    <3>2. Live' = Live \ {s} /\ Live' \subseteq Live
      BY <1>4, <3>1 DEF Live
    <3>3. IInv' /\ TableType'
      BY <2>3, <2>4, <3>2, FreedTable
    <3>4. PICK own2, lev2, pg2 :
            Forest(own2, lev2, pg2)' /\ PlacedLess(own, lev, pg, own2, lev2, pg2)
      BY <1>1, <1>2, <1>5, <1>7, <2>1, <2>4, <2>6, <3>1, ForestDestroyed
    <3>5. \A x : Usable(x)' => Usable(x) /\ own[f] # x
      BY <1>4, <2>3, <3>2 DEF Usable
    <3>6. MapKept
      BY <1>1, <1>2, <2>4, <3>3, <3>4, <3>5, RemovalKept
    <3> QED BY <3>3, <3>4, <3>6 DEF Stepped
  <2> QED BY <2>5, <2>6
<1> QED BY <1>6, <1>7

LEMMA StepWalk ==
  ASSUME A64Inv, walk_create
  PROVE  Stepped
<1>1. PICK own, lev, pg : Forest(own, lev, pg)
  BY DEF A64Inv
<1>2. /\ call.op \in {"map", "unmap"} /\ call.level < PT_LEVELS - 1 /\ UNCHANGED roots
      /\ AsidInv /\ TableType /\ IInv
  BY DEF walk_create, A64Inv
<1>3. phase = "run" /\ call.op \notin {"create", "destroy"}
  BY <1>2 DEF TableType, NoCall
<1>4. /\ call.level \in 0 .. PT_LEVELS - 1 /\ call.va \in Nat
      /\ Slot(own, lev, pg, call.root, call.va, call.level, call.table)
      /\ \E s, p, e, l, t :
              call = [op |-> call.op, root |-> s, va |-> p, entry |-> e, level |-> l, table |-> t]
  BY <1>1, <1>2, WalkAt
<1>5. PICK t : t = call.table /\ t \in DOMAIN tables /\ lev[t] = call.level
  BY <1>4 DEF Slot
<1>6. PICK k : k = level_index(call.va, call.level) /\ k \in Indices
  BY <1>4, IndexIsEntry
<1>7. ASSUME NEW f, call' = [call EXCEPT !.level = @ + 1, !.table = f]
      PROVE  call'.op = call.op /\ \A x : Usable(x)' => Usable(x)
  <2>1. call'.op = call.op /\ call'.root = call.root
    BY <1>4, <1>7
  <2> QED BY <1>2, <2>1 DEF Usable, Live
<1>8. CASE tables[t][k].v
  <2>1. PICK e : e = tables[t][k] /\ e.v
    BY <1>8
  <2>2. call' = [call EXCEPT !.level = @ + 1, !.table = e.addr] /\ UNCHANGED <<vars, tables>>
    BY <1>5, <1>6, <2>1 DEF walk_create
  <2>3. Forest(own, lev, pg)'
    BY <1>1, <1>2, <1>5, <1>6, <2>1, <2>2, ForestWalksDown
  <2>4. \A x : Usable(x)' => Usable(x)
    BY <1>7, <2>2
  <2>5. [Next]_vars /\ handed' = handed /\ phase' = "run"
    BY <1>3, <2>2 DEF vars
  <2> QED BY <1>2, <2>2, <2>3, <2>4, <2>5, QuietStep
<1>9. CASE ~ tables[t][k].v /\ NextFrame = NoFrame
  <2>1. pmm_alloc_frame(NextFrame) /\ call' = NoCall /\ UNCHANGED tables
    BY <1>5, <1>6, <1>9 DEF walk_create
  <2>2. [Next]_vars /\ handed' = handed
    BY <1>3, <1>9, <2>1, AllocNone
  <2> QED BY <1>2, <1>3, <2>1, <2>2, StepReturns
<1>10. CASE ~ tables[t][k].v /\ NextFrame # NoFrame
  <2>1. PICK f : f = NextFrame /\ f # NoFrame
    BY <1>10
  <2>2. /\ pmm_alloc_frame(NextFrame) /\ LinkTable(f)
        /\ call' = [call EXCEPT !.level = @ + 1, !.table = f]
    BY <1>5, <1>6, <1>10, <2>1 DEF walk_create
  <2>3. /\ IInv' /\ f \in Frames /\ f \notin DOMAIN tables
        /\ handed' = DOMAIN tables \cup {f} /\ phase' = "run"
    BY <1>3, <2>1, <2>2, AllocSome
  <2>4. /\ LinkedIn(t, k, f)
        /\ tables' = [g \in DOMAIN tables' |-> tables'[g]]
        /\ \A g \in DOMAIN tables' : tables'[g] = [j \in Indices |-> tables'[g][j]]
    BY <1>2, <1>5, <1>6, <2>2, <2>3, LinkTableFacts
  <2>5. DOMAIN tables' = DOMAIN tables \cup {f} /\ tables'[f] = ZeroTable
    BY <2>4 DEF LinkedIn
  <2>6. TableType'
    BY <1>2, <2>3, <2>4, <2>5 DEF TableType, Live
  <2>7. PICK own2, lev2, pg2 : Forest(own2, lev2, pg2)' /\ PlacedToo(own, lev, pg, own2, lev2, pg2)
    BY <1>1, <1>2, <1>5, <1>6, <1>10, <2>2, <2>4, ForestLinks
  <2>8. \A x : Usable(x)' => Usable(x)
    BY <1>7, <2>2
  <2>9. \A g \in DOMAIN tables : lev[g] = PT_LEVELS - 1 => tables'[g] = tables[g]
    <3>1. lev[t] # PT_LEVELS - 1
      BY <1>2, <1>4, <1>5, A64Assumption
    <3> QED BY <2>4, <3>1 DEF LinkedIn
  <2>10. MapKept
    BY <1>1, <1>2, <2>5, <2>6, <2>7, <2>8, <2>9, GrowthKept
  <2> QED BY <2>3, <2>6, <2>7, <2>10 DEF Stepped
<1> QED BY <1>8, <1>9, <1>10

\* A write changes the page it is for; an unmap of what is not there nothing.
LEMMA StepWrite ==
  ASSUME A64Inv, write_entry
  PROVE  \/ Stepped /\ call' = NoCall
         \/ /\ IInv' /\ TableType' /\ \E own, lev, pg : Forest(own, lev, pg)'
            /\ MapWritten(call.root, call.va, call.entry)
            /\ call' = [op |-> "flush", root |-> call.root, va |-> call.va]
<1>1. PICK own, lev, pg : Forest(own, lev, pg)
  BY DEF A64Inv
<1>2. /\ call.op \in {"map", "unmap"} /\ call.level = PT_LEVELS - 1 /\ UNCHANGED <<vars, roots>>
      /\ AsidInv /\ TableType /\ IInv
  BY DEF write_entry, A64Inv
<1>3. phase = "run" /\ call.op \notin {"create", "destroy"}
  BY <1>2 DEF TableType, NoCall
<1>4. PICK va : /\ va = call.va /\ va \in Pages /\ va \in Nat
                /\ Slot(own, lev, pg, call.root, va, PT_LEVELS - 1, call.table)
  BY <1>1, <1>2, WalkAt
<1>5. PICK k : k = level_index(call.va, call.level)
  OBVIOUS
<1>6. [Next]_vars /\ handed' = handed /\ phase' = "run" /\ IInv'
  BY <1>2, <1>3, NextIInv DEF vars
<1>7. CASE call' = NoCall /\ UNCHANGED tables
  BY <1>2, <1>3, <1>6, <1>7, StepReturns
<1>8. CASE /\ tables' = [tables EXCEPT ![call.table][k] = call.entry]
           /\ call' = [op |-> "flush", root |-> call.root, va |-> call.va]
  <2>1. /\ Forest(own, lev, pg)' /\ DOMAIN tables' = DOMAIN tables
        /\ tables' = [g \in DOMAIN tables' |-> tables'[g]]
        /\ \A g \in DOMAIN tables' : tables'[g] = [j \in Indices |-> tables'[g][j]]
        /\ tables'[call.table][k] = call.entry
        /\ \A g \in DOMAIN tables : \A j \in Indices :
             ~ (g = call.table /\ j = k) => tables'[g][j] = tables[g][j]
    BY <1>1, <1>2, <1>5, <1>8, ForestWrites
  <2>2. TableType'
    BY <1>2, <1>6, <2>1 DEF TableType, Live
  <2>3. \A x : Usable(x)' => Usable(x)
    BY <1>2, <1>3 DEF Usable, Live
  <2>4. PICK r, e, t : r = call.root /\ e = call.entry /\ t = call.table
    OBVIOUS
  <2>5. k = level_index(va, PT_LEVELS - 1)
    BY <1>2, <1>4, <1>5
  <2>6. MapWritten(r, va, e)
    BY <1>1, <1>2, <1>4, <2>1, <2>2, <2>3, <2>4, <2>5, WriteWritten
  <2> QED BY <1>4, <1>6, <1>8, <2>1, <2>2, <2>4, <2>6
<1> QED BY <1>5, <1>7, <1>8 DEF write_entry

----------------------------------------------------------------------------
(* The inductive invariant.                                                *)

\* A write puts its entry, and goes on to the invalidation.
WroteEntry ==
  /\ call.op \in {"map", "unmap"}
  /\ MapWritten(call.root, call.va, call.entry)
  /\ call' = [op |-> "flush", root |-> call.root, va |-> call.va]

LEMMA StepKinds ==
  ASSUME A64Inv, [A64Next]_a64Vars
  PROVE  A64Inv' /\ (MapKept \/ (write_entry /\ WroteEntry)) /\ (write_entry => WroteEntry \/ call' = NoCall)
<1>1. AsidInv'
  BY NextAsidInv DEF A64Inv
<1>2. CASE write_entry
  <2>1. call.op \in {"map", "unmap"}
    BY <1>2 DEF write_entry
  <2>2. CASE Stepped /\ call' = NoCall
    BY <1>1, <2>2 DEF Stepped, A64Inv
  <2>3. CASE /\ IInv' /\ TableType' /\ \E own, lev, pg : Forest(own, lev, pg)'
             /\ MapWritten(call.root, call.va, call.entry)
             /\ call' = [op |-> "flush", root |-> call.root, va |-> call.va]
    <3>1. WroteEntry
      BY <2>1, <2>3 DEF WroteEntry
    <3> QED BY <1>1, <1>2, <2>3, <3>1 DEF A64Inv
  <2> QED BY <1>2, <2>2, <2>3, StepWrite
<1>3. CASE ~ write_entry
  <2>1. CASE tlb_invalidate_va_asid
    <3>1. /\ UNCHANGED <<vars, tables, roots>> /\ call' = NoCall
          /\ call.op \notin {"create", "destroy"}
      BY <2>1 DEF tlb_invalidate_va_asid
    <3>2. [Next]_vars /\ handed' = handed
      BY <3>1 DEF vars
    <3> QED BY <3>1, <3>2, StepReturns, <1>1, <1>3 DEF Stepped, A64Inv
  <2>2. Stepped \/ tlb_invalidate_va_asid
    <3>1. CASE BootStep \/ UNCHANGED a64Vars
      BY <3>1, StepBoot
    <3>2. ASSUME NEW s \in Spaces, arch_pagetable_create(s) \/ arch_pagetable_destroy(s)
          PROVE  Stepped
      BY <3>2, StepCreate, StepDestroyStarts
    <3>3. CASE arch_pagetable_create_asid
      BY <3>3, StepCreateFails, StepCreated
    <3>4. CASE free_table_recursive
      BY <3>4, StepFree
    <3>5. ASSUME NEW s \in Spaces, NEW page \in MapPages,
                 \/ \E phys \in MapPhys, prot \in Prots : arch_map_page(s, page, phys, prot)
                 \/ arch_unmap_page(s, page)
          PROVE  Stepped
      <4>1. (\E phys, prot : arch_map_page(s, page, phys, prot)) \/ arch_unmap_page(s, page)
        BY <3>5
      <4> QED BY <4>1, StepWalkStarts
    <3>6. ASSUME NEW s \in Spaces, NEW page \in MapPages, tlb_fill(s, page)
          PROVE  Stepped
      BY <3>6, StepBoot
    <3>7. CASE walk_create
      BY <3>7, StepWalk
    <3> QED BY <1>3, <3>1, <3>2, <3>3, <3>4, <3>5, <3>6, <3>7 DEF A64Next
  <2> QED BY <1>1, <1>3, <2>1, <2>2 DEF Stepped, A64Inv
<1> QED BY <1>2, <1>3

LEMMA InitA64Inv == A64Init => A64Inv
<1> SUFFICES ASSUME A64Init PROVE A64Inv
  OBVIOUS
<1>1. IInv
  BY InitIInv DEF A64Init
<1>2. AsidInv
  BY DEF A64Init, AsidInv, AsidsExclusive, Live, CallKinds, NoCall
<1>3. /\ DOMAIN tables = {} /\ Live = {} /\ handed = {} /\ call = NoCall /\ call.op = "none"
      /\ tables = [f \in DOMAIN tables |-> tables[f]]
  BY DEF A64Init, Init, Live, NoCall
<1>4. TableType
  BY <1>3 DEF TableType
<1>5. PICK e : e = [f \in {} |-> 0]
  OBVIOUS
<1>6. Forest(e, e, e)
  BY <1>3, <1>5 DEF Forest, Placed, OnePlace, EdgesLead, Linked, Owned, CallPlace
<1> QED BY <1>1, <1>2, <1>4, <1>6 DEF A64Inv

LEMMA A64Invariance == A64Spec => []A64Inv
<1>1. A64Inv /\ [A64Next]_a64Vars => A64Inv'
  BY StepKinds
<1> QED BY <1>1, InitA64Inv, PTL DEF A64Spec

\* Between calls of the paging code every frame that alloc_table_page took is a table of
\* exactly one root: what free_table_recursive frees, and what a walk or a create that
\* fails leaves, is neither lost nor in use elsewhere, for any number of levels.
THEOREM TablesAreAccounted == A64Spec => []TablesAccounted
  BY A64Invariance, InvAccounted, PTL

----------------------------------------------------------------------------
(* The TLB.                                                                *)

\* A space that exists is not taken back into use, and only arch_pagetable_destroy takes
\* one out of use.
LEMMA UsableSteps ==
  ASSUME AsidInv, [A64Next]_a64Vars
  PROVE  /\ \A s \in Live : Usable(s)' => Usable(s)
         /\ \A s : Usable(s) => Usable(s)' \/ arch_pagetable_destroy(s)
<1>1. CASE UNCHANGED <<roots, call>>
  BY <1>1 DEF Usable, Live
<1>2. CASE free_table_recursive
  <2>1. PICK s, st : call = [op |-> "destroy", root |-> s, stack |-> st] /\ s \in Live
    <3>1. call.op = "destroy"
      BY <1>2 DEF free_table_recursive
    <3> QED BY <3>1 DEF AsidInv, CallKinds, NoCall
  <2>2. CASE UNCHANGED roots /\ \E new : call' = [call EXCEPT !.stack = new]
    <3>1. call'.op = "destroy" /\ call'.root = s /\ call.op = "destroy" /\ call.root = s
      BY <2>1, <2>2
    <3> QED BY <2>2, <3>1 DEF Usable, Live
  <2>3. CASE roots' = Restrict(roots, Live \ {call.root}) /\ call' = NoCall
    <3>1. Live' = Live \ {s} /\ call.op = "destroy" /\ call.root = s /\ call'.op = "none"
      BY <2>1, <2>3 DEF Restrict, Live, NoCall
    <3> QED BY <3>1 DEF Usable
  <2> QED BY <1>2, <2>2, <2>3 DEF free_table_recursive
<1>3. CASE /\ call.op # "destroy" /\ Live \subseteq Live' /\ call'.op # "destroy"
  BY <1>3 DEF Usable
<1>4. ASSUME NEW s \in Spaces, arch_pagetable_destroy(s)
      PROVE  /\ \A x \in Live : Usable(x)' => Usable(x)
             /\ \A x : Usable(x) => Usable(x)' \/ x = s
  BY <1>4 DEF arch_pagetable_destroy, Usable, Live, NoCall
<1>5. ASSUME NEW s \in Spaces, arch_pagetable_create(s)
      PROVE  \/ UNCHANGED <<roots, call>>
             \/ call.op # "destroy" /\ Live \subseteq Live' /\ call'.op # "destroy"
  BY <1>5 DEF arch_pagetable_create, NoCall, Live
<1>6. CASE arch_pagetable_create_asid
  <2>1. call.op # "destroy" /\ call'.op # "destroy"
    BY <1>6 DEF arch_pagetable_create_asid, NoCall
  <2>2. Live \subseteq Live'
    BY <1>6 DEF arch_pagetable_create_asid, Live
  <2> QED BY <1>3, <2>1, <2>2
<1>7. ASSUME NEW s \in Spaces, NEW page \in MapPages,
             \/ \E phys \in MapPhys, prot \in Prots : arch_map_page(s, page, phys, prot)
             \/ arch_unmap_page(s, page)
      PROVE  call.op # "destroy" /\ Live \subseteq Live' /\ call'.op # "destroy"
  BY <1>7 DEF arch_map_page, arch_unmap_page, WalkCall, NoCall, Live
<1>8. CASE walk_create
  <2>1. call.op \in {"map", "unmap"} /\ Live' = Live
    BY <1>8 DEF walk_create, Live
  <2>2. PICK s, p, e, l, t :
          call = [op |-> call.op, root |-> s, va |-> p, entry |-> e, level |-> l, table |-> t]
    BY <2>1 DEF AsidInv, CallKinds, NoCall
  <2>3. ASSUME NEW f, call' = [call EXCEPT !.level = @ + 1, !.table = f] PROVE call'.op = call.op
    BY <2>2, <2>3
  <2>4. call' = NoCall \/ \E f : call' = [call EXCEPT !.level = @ + 1, !.table = f]
    BY <1>8 DEF walk_create
  <2>5. call'.op # "destroy"
    <3>1. CASE call' = NoCall
      BY <3>1 DEF NoCall
    <3>2. CASE \E f : call' = [call EXCEPT !.level = @ + 1, !.table = f]
      <4>1. call'.op = call.op
        BY <2>3, <3>2
      <4> QED BY <2>1, <4>1
    <3> QED BY <2>4, <3>1, <3>2
  <2> QED BY <1>3, <2>1, <2>5
<1>9. CASE write_entry \/ tlb_invalidate_va_asid
  <2>1. call.op # "destroy" /\ call'.op # "destroy" /\ Live' = Live
    BY <1>9 DEF write_entry, tlb_invalidate_va_asid, NoCall, Live
  <2> QED BY <1>3, <2>1
<1>10. CASE BootStep \/ (\E s \in Spaces, page \in MapPages : tlb_fill(s, page)) \/ UNCHANGED a64Vars
  BY <1>1, <1>10 DEF BootStep, ptVars, tlb_fill, a64Vars
<1>11. CASE \E s \in Spaces : arch_pagetable_create(s) \/ arch_pagetable_destroy(s)
  <2>1. PICK s \in Spaces : arch_pagetable_create(s) \/ arch_pagetable_destroy(s)
    BY <1>11
  <2> QED BY <1>1, <1>3, <1>4, <1>5, <2>1
<1> QED BY <1>2, <1>3, <1>6, <1>7, <1>8, <1>9, <1>10, <1>11 DEF A64Next

\* Besides being coherent: what is cached belongs to an ASID that is in use or was.
TlbInv ==
  /\ TlbCoherent
  /\ \A e \in tlb : e.va \in MapPages /\ e.asid \in g_asid_used \cup retired

\* Under invalidation: the entry may differ from the tables.
Pending(s, va) == call.op = "flush" /\ call.root = s /\ call.va = va

\* What is needed of a step that adds nothing to the TLB.
LEMMA TlbKept ==
  ASSUME TlbInv, tlb' \subseteq tlb, retired \subseteq retired',
         g_asid_used \subseteq g_asid_used' \cup retired',
         \A s \in Live' : roots'[s].asid \in g_asid_used => s \in Live /\ roots'[s] = roots[s],
         \A s \in Live : Usable(s)' => Usable(s),
         \A e \in tlb' : \A s \in Live :
           Usable(s)' /\ roots[s].asid = e.asid /\ ~ Pending(s, e.va)' =>
             ~ Pending(s, e.va) /\ Translate(s, e.va)' = Translate(s, e.va)
  PROVE  TlbInv'
<1>1. \A e \in tlb' : e.va \in MapPages /\ e.asid \in g_asid_used' \cup retired'
  BY DEF TlbInv
<1>2. ASSUME NEW e \in tlb', NEW s \in Live', roots'[s].asid = e.asid, e.asid \notin retired',
             Usable(s)', ~ Pending(s, e.va)'
      PROVE  Translate(s, e.va)' = e.entry
  <2>1. e \in tlb /\ e.asid \in g_asid_used /\ e.asid \notin retired
    BY <1>2 DEF TlbInv
  <2>2. s \in Live /\ roots[s].asid = e.asid
    BY <1>2, <2>1
  <2>3. Usable(s) /\ ~ Pending(s, e.va) /\ Translate(s, e.va)' = Translate(s, e.va)
    BY <1>2, <2>2
  <2>4. Translate(s, e.va) = e.entry
    BY <2>1, <2>2, <2>3 DEF TlbInv, TlbCoherent, Pending
  <2> QED BY <2>3, <2>4
<1>3. TlbCoherent'
  BY <1>2 DEF TlbCoherent, Pending
<1> QED BY <1>1, <1>3 DEF TlbInv

\* What happens to the pool and the roots.
LEMMA PoolSteps ==
  ASSUME AsidInv, [A64Next]_a64Vars
  PROVE  /\ retired \subseteq retired'
         /\ g_asid_used \subseteq g_asid_used' \cup retired'
         /\ \A s \in Live' : roots'[s].asid \in g_asid_used => s \in Live /\ roots'[s] = roots[s]
<1>1. CASE UNCHANGED <<g_asid_used, roots, retired>>
  BY <1>1 DEF Live
<1>2. CASE arch_pagetable_create_asid /\ AsidsFree # {}
  <2>1. PICK a : a = Min(AsidsFree) /\ a \notin g_asid_used
    BY <1>2, NewAsid
  <2>2. /\ g_asid_used' = g_asid_used \cup {a} /\ UNCHANGED retired
        /\ roots' = [x \in Live \cup {call.root} |->
                       IF x = call.root THEN [ttbr0_phys |-> call.table, asid |-> a] ELSE roots[x]]
    BY <1>2, <2>1 DEF arch_pagetable_create_asid, asid_alloc
  <2>3. Live' = Live \cup {call.root}
    BY <2>2 DEF Live
  <2>4. \A x \in Live' : x # call.root => x \in Live /\ roots'[x] = roots[x]
    BY <2>2, <2>3
  <2>5. roots'[call.root].asid = a
    BY <2>2
  <2> QED BY <2>1, <2>2, <2>4, <2>5
<1>3. CASE asid_free(roots[call.root].asid) /\ roots' = Restrict(roots, Live \ {call.root})
  <2>1. Live' = Live \ {call.root} /\ \A x \in Live' : roots'[x] = roots[x]
    BY <1>3 DEF Restrict, Live
  <2>2. retired \subseteq retired' /\ g_asid_used \subseteq g_asid_used' \cup retired'
    BY <1>3 DEF asid_free
  <2> QED BY <2>1, <2>2
<1>4. CASE free_table_recursive
  BY <1>1, <1>3, <1>4 DEF free_table_recursive
<1>5. CASE arch_pagetable_create_asid /\ AsidsFree = {}
  BY <1>1, <1>5 DEF arch_pagetable_create_asid
<1> QED BY <1>1, <1>2, <1>4, <1>5
    DEF A64Next, BootStep, ptVars, arch_pagetable_create, arch_pagetable_destroy, arch_map_page,
        arch_unmap_page, walk_create, write_entry, tlb_invalidate_va_asid, tlb_fill, a64Vars

\* The invalidation removes what it was called for; else a page in the TLB keeps its
\* translation, or is the one that was written.
LEMMA PendingSteps ==
  ASSUME A64Inv, TlbInv, [A64Next]_a64Vars, tlb' \subseteq tlb
  PROVE  \A e \in tlb' : \A s \in Live :
           Usable(s)' /\ roots[s].asid = e.asid /\ ~ Pending(s, e.va)' =>
             ~ Pending(s, e.va) /\ Translate(s, e.va)' = Translate(s, e.va)
<1> SUFFICES ASSUME NEW e \in tlb', NEW s \in Live, Usable(s)', roots[s].asid = e.asid,
                    ~ Pending(s, e.va)'
             PROVE  ~ Pending(s, e.va) /\ Translate(s, e.va)' = Translate(s, e.va)
  OBVIOUS
<1>1. AsidInv
  BY DEF A64Inv
<1>2. PICK page : page = e.va /\ page \in Pages
  BY A64Assumption DEF TlbInv, Pages
<1>3. Usable(s)
  BY <1>1, UsableSteps
<1>4. Translate(s, page)' = Translate(s, page)
  <2>1. CASE MapKept
    BY <1>2, <1>3, <2>1 DEF MapKept
  <2>2. CASE WroteEntry
    <3>1. ~ (s = call.root /\ page = call.va)
      BY <1>2, <2>2 DEF WroteEntry, Pending
    <3> QED BY <1>2, <2>2, <3>1 DEF WroteEntry, MapWritten
  <2> QED BY <2>1, <2>2, StepKinds
<1>5. ~ Pending(s, page)
  <2> SUFFICES ASSUME Pending(s, page) PROVE FALSE
    OBVIOUS
  <2>1. call.op = "flush" /\ call.root = s /\ call.va = page
    BY DEF Pending
  <2>2. CASE tlb_invalidate_va_asid
    BY <1>2, <2>1, <2>2 DEF tlb_invalidate_va_asid, Flushed
  <2>3. CASE UNCHANGED call
    BY <1>2, <2>1, <2>3 DEF Pending
  <2>4. call # NoCall
    BY <2>1 DEF NoCall
  <2> QED BY <2>1, <2>2, <2>3, <2>4
      DEF A64Next, BootStep, ptVars, arch_pagetable_create, arch_pagetable_destroy,
          arch_pagetable_create_asid, free_table_recursive, arch_map_page, arch_unmap_page,
          walk_create, write_entry, tlb_fill, a64Vars
<1> QED BY <1>2, <1>4, <1>5

\* A translation that is cached is that of the tables, in the only space of its ASID.
LEMMA TlbFills ==
  ASSUME AsidInv, TlbInv, NEW s \in Spaces, NEW page \in MapPages, tlb_fill(s, page)
  PROVE  TlbInv'
<1>1. /\ s \in Live /\ UNCHANGED <<g_asid_used, roots, tables, call, retired>>
      /\ tlb' = tlb \cup {[asid |-> roots[s].asid, va |-> page, entry |-> Translate(s, page)]}
  BY DEF tlb_fill, Usable
<1>2. PICK n : n = [asid |-> roots[s].asid, va |-> page, entry |-> Translate(s, page)]
  OBVIOUS
<1>3. n.asid = roots[s].asid /\ n.va = page /\ n.entry = Translate(s, page)
  BY <1>2
<1>4. n.asid \in g_asid_used /\ \A x \in Live : roots[x].asid = n.asid => x = s
  BY <1>1, <1>3 DEF AsidInv, AsidsExclusive
<1>5. /\ \A x, p : Translate(x, p)' = Translate(x, p)
      /\ \A x : Usable(x)' => Usable(x)
  <2>1. \A x, p : Translate(x, p)' = Translate(x, p)
    <3>1. UNCHANGED <<tables, roots>>
      BY <1>1
    <3> QED BY <3>1 DEF Translate, LastTable
  <2>2. \A x : Usable(x)' => Usable(x)
    BY <1>1 DEF Usable, Live
  <2> QED BY <2>1, <2>2
<1>6. \A e \in tlb' : e.va \in MapPages /\ e.asid \in g_asid_used' \cup retired'
  BY <1>1, <1>2, <1>3, <1>4 DEF TlbInv
<1>7. ASSUME NEW e \in tlb', NEW x \in Live', roots'[x].asid = e.asid, e.asid \notin retired', Usable(x)',
             ~ (call'.op = "flush" /\ call'.root = x /\ call'.va = e.va)
      PROVE  Translate(x, e.va)' = e.entry
  <2>1. x \in Live /\ roots[x].asid = e.asid /\ Usable(x)
    BY <1>1, <1>5, <1>7 DEF Live
  <2>2. CASE e \in tlb
    <3>1. Translate(x, e.va) = e.entry
      BY <1>1, <1>7, <2>1, <2>2 DEF TlbInv, TlbCoherent
    <3> QED BY <1>5, <3>1
  <2>3. CASE e = n
    <3>1. x = s
      BY <1>4, <2>1, <2>3
    <3> QED BY <1>3, <1>5, <2>3, <3>1
  <2> QED BY <1>1, <1>2, <2>2, <2>3
<1>8. TlbCoherent'
  BY <1>7 DEF TlbCoherent
<1> QED BY <1>6, <1>8 DEF TlbInv

\* Under an ASID that was never given back the TLB differs from the tables only for the
\* page between the write of its entry and tlb_invalidate_va_asid, whatever is mapped,
\* unmapped, created and destroyed, and whenever the hardware fills the TLB.
THEOREM TlbIsCoherent == A64Spec => []TlbCoherent
<1>1. A64Init => TlbInv
  BY DEF A64Init, TlbInv, TlbCoherent
<1>2. A64Inv /\ TlbInv /\ [A64Next]_a64Vars => TlbInv'
  <2> SUFFICES ASSUME A64Inv, TlbInv, [A64Next]_a64Vars PROVE TlbInv'
    OBVIOUS
  <2>1. AsidInv
    BY DEF A64Inv
  <2>2. CASE \E s \in Spaces, page \in MapPages : tlb_fill(s, page)
    BY <2>1, <2>2, TlbFills
  <2>3. CASE tlb' \subseteq tlb
    BY <2>1, <2>3, UsableSteps, PoolSteps, PendingSteps, TlbKept
  <2>4. tlb' \subseteq tlb \/ \E s \in Spaces, page \in MapPages : tlb_fill(s, page)
    BY DEF A64Next, BootStep, ptVars, arch_pagetable_create, arch_pagetable_destroy,
           arch_pagetable_create_asid, free_table_recursive, arch_map_page, arch_unmap_page,
           walk_create, write_entry, tlb_invalidate_va_asid, a64Vars
  <2> QED BY <2>2, <2>3, <2>4
<1>3. TlbInv => TlbCoherent
  BY DEF TlbInv
<1> QED BY <1>1, <1>2, <1>3, A64Invariance, PTL DEF A64Spec

----------------------------------------------------------------------------
(* The refinement.                                                         *)

Req == IF call.op \in {"map", "unmap"} THEN <<call.root, call.va, call.entry>> ELSE <<>>
Asked == {Leaf(phys, Attrs(prot)) : phys \in MapPhys, prot \in Prots}

LEMMA AbstractInit == A64Init => Abstract!Init
<1> SUFFICES ASSUME A64Init PROVE Abstract!Init
  OBVIOUS
<1>1. \A s : ~ Usable(s)
  BY DEF A64Init, Usable, Live
<1>2. Mapping = [s \in Spaces |-> [page \in Pages |-> Invalid]]
  BY <1>1 DEF Mapping
<1>3. Req = <<>>
  BY DEF A64Init, NoCall, Req
<1> QED BY <1>2, <1>3 DEF Abstract!Init, Abstract!Empty, Abstract!NoReq, Req

\* A step that keeps the translations, of a space that no destroy starts on.
LEMMA MappingKept ==
  ASSUME MapKept, AsidInv, [A64Next]_a64Vars, NEW s \in Spaces, ~ arch_pagetable_destroy(s)
  PROVE  Mapping'[s] = Mapping[s]
<1>1. /\ Usable(s) => Usable(s)'
      /\ s \in Live /\ Usable(s)' => Usable(s)
  BY UsableSteps
<1>2. ASSUME NEW page \in Pages
      PROVE  (IF Usable(s) THEN Translate(s, page) ELSE Invalid)' =
             (IF Usable(s) THEN Translate(s, page) ELSE Invalid)
  <2>1. CASE Usable(s)'
    <3>1. Translate(s, page)' = IF Usable(s) THEN Translate(s, page) ELSE Invalid
      BY <2>1 DEF MapKept
    <3> QED BY <2>1, <3>1
  <2>2. CASE ~ Usable(s)'
    BY <1>1, <2>2
  <2> QED BY <2>1, <2>2
<1> QED BY <1>2 DEF Mapping

LEMMA MappingSame ==
  ASSUME MapKept, AsidInv, [A64Next]_a64Vars, \A s \in Spaces : ~ arch_pagetable_destroy(s)
  PROVE  Mapping' = Mapping
<1>1. \A s \in Spaces : Mapping'[s] = Mapping[s]
  BY MappingKept
<1>2. /\ Mapping = [s \in Spaces |-> Mapping[s]]
      /\ Mapping' = [s \in Spaces |-> Mapping'[s]]
  BY DEF Mapping
<1> QED BY <1>1, <1>2

\* arch_pagetable_destroy takes the space out of use.
LEMMA AbstractClear ==
  ASSUME A64Inv, MapKept, [A64Next]_a64Vars, NEW s \in Spaces, arch_pagetable_destroy(s)
  PROVE  Abstract!Clear(s)
<1>1. /\ call = NoCall /\ call.op = "none" /\ call'.op = "destroy" /\ call'.root = s
      /\ call.op # call'.op /\ UNCHANGED roots
  BY DEF arch_pagetable_destroy, NoCall
<1>2. Req = <<>> /\ Req' = <<>>
  BY <1>1 DEF Req
<1>3. ~ Usable(s)'
  BY <1>1 DEF Usable
<1>4. \A x \in Spaces : x # s => ~ arch_pagetable_destroy(x)
  BY <1>1 DEF arch_pagetable_destroy
<1>5. \A x \in Spaces : x # s => Mapping'[x] = Mapping[x]
  BY <1>4, MappingKept DEF A64Inv
<1>6. Mapping'[s] = [page \in Pages |-> Invalid]
  BY <1>3 DEF Mapping
<1>7. /\ Mapping = [x \in Spaces |-> Mapping[x]]
      /\ Mapping' = [x \in Spaces |-> Mapping'[x]]
  BY DEF Mapping
<1>8. Mapping' = [Mapping EXCEPT ![s] = [page \in Pages |-> Invalid]]
  BY <1>5, <1>6, <1>7
<1> QED BY <1>2, <1>8 DEF Abstract!Clear, Abstract!Empty, Abstract!NoReq, Req

\* A write is the end of its request.
LEMMA AbstractDone ==
  ASSUME A64Inv, write_entry, WroteEntry, [A64Next]_a64Vars
  PROVE  Abstract!Done
<1>1. PICK own, lev, pg : Forest(own, lev, pg)
  BY DEF A64Inv
<1>2. PICK r, va, e : r = call.root /\ va = call.va /\ e = call.entry
  OBVIOUS
<1>3. r \in Live /\ r \in Spaces /\ va \in Pages /\ AsidInv
  BY <1>1, <1>2, WalkAt DEF WroteEntry, A64Inv, TableType
<1>4. Req = <<r, va, e>> /\ Req' = <<>>
  BY <1>2 DEF Req, WroteEntry
<1>5. ASSUME NEW s PROVE Usable(s)' <=> Usable(s)
  BY DEF WroteEntry, write_entry, Usable, Live
<1>6. MapWritten(r, va, e) /\ Usable(r)
  <2>1. call.op # "destroy" /\ MapWritten(r, va, e)
    BY <1>2 DEF WroteEntry
  <2> QED BY <1>3, <2>1 DEF Usable
<1>7. ASSUME NEW s \in Spaces, NEW page \in Pages
      PROVE  Mapping'[s][page] = IF s = r /\ page = va THEN e ELSE Mapping[s][page]
  <2>1. CASE Usable(s)
    <3>1. Usable(s)'
      BY <1>5, <2>1
    <3>2. Translate(s, page)' = IF s = r /\ page = va THEN e ELSE Translate(s, page)
      BY <1>6, <3>1 DEF MapWritten
    <3>3. Mapping'[s][page] = Translate(s, page)' /\ Mapping[s][page] = Translate(s, page)
      BY <2>1, <3>1 DEF Mapping
    <3> QED BY <3>2, <3>3
  <2>2. CASE ~ Usable(s)
    <3>1. ~ Usable(s)' /\ s # r
      BY <1>5, <1>6, <2>2
    <3> QED BY <2>2, <3>1 DEF Mapping
  <2> QED BY <2>1, <2>2
<1>8. /\ Mapping = [s \in Spaces |-> [page \in Pages |-> Mapping[s][page]]]
      /\ Mapping' = [s \in Spaces |-> [page \in Pages |-> Mapping'[s][page]]]
  BY DEF Mapping
<1>9. PICK m, n : m = Mapping /\ n = Mapping'
  OBVIOUS
<1>10. n = [m EXCEPT ![r][va] = e]
  <2>1. \A s \in Spaces : \A page \in Pages : n[s][page] = IF s = r /\ page = va THEN e ELSE m[s][page]
    BY <1>7, <1>9
  <2>2. /\ m = [s \in Spaces |-> [page \in Pages |-> m[s][page]]]
        /\ n = [s \in Spaces |-> [page \in Pages |-> n[s][page]]]
    BY <1>8, <1>9
  <2> QED BY <1>3, <2>1, <2>2
<1>11. Req # <<>> /\ Req[1] = r /\ Req[2] = va /\ Req[3] = e
  BY <1>4
<1> QED BY <1>4, <1>9, <1>10, <1>11 DEF Abstract!Done, Abstract!NoReq, Req

\* A call that starts is a request, one that returns without a write has failed.
LEMMA ReqSteps ==
  ASSUME A64Inv, [A64Next]_a64Vars, ~ (write_entry /\ WroteEntry)
  PROVE  \/ Req' = Req
         \/ Req # <<>> /\ Req' = <<>>
         \/ Req = <<>> /\ Req' \in Spaces \X Pages \X (Asked \cup {Invalid})
<1>1. CASE UNCHANGED call
  BY <1>1 DEF Req
<1>2. CASE call'.op \notin {"map", "unmap"}
  <2>1. Req' = <<>>
    BY <1>2 DEF Req
  <2> QED BY <2>1
<1>3. ASSUME NEW o \in {"map", "unmap"}, NEW s \in Spaces, NEW page \in MapPages, call = NoCall,
             NEW e \in Asked \cup {Invalid}, WalkCall(o, s, page, e)
      PROVE  Req = <<>> /\ Req' \in Spaces \X Pages \X (Asked \cup {Invalid})
  <2>1. Req = <<>>
    BY <1>3 DEF Req, NoCall
  <2>2. Req' = <<s, page, e>>
    BY <1>3 DEF Req, WalkCall
  <2>3. page \in Pages
    BY A64Assumption DEF Pages
  <2> QED BY <2>1, <2>2, <2>3
<1>4. ASSUME NEW s \in Spaces, NEW page \in MapPages, NEW phys \in MapPhys, NEW prot \in Prots,
             arch_map_page(s, page, phys, prot)
      PROVE  Req = <<>> /\ Req' \in Spaces \X Pages \X (Asked \cup {Invalid})
  <2>1. call = NoCall /\ WalkCall("map", s, page, Leaf(phys, Attrs(prot)))
    BY <1>4 DEF arch_map_page
  <2>2. Leaf(phys, Attrs(prot)) \in Asked \cup {Invalid}
    BY DEF Asked
  <2> QED BY <1>3, <2>1, <2>2
<1>5. ASSUME NEW s \in Spaces, NEW page \in MapPages, arch_unmap_page(s, page)
      PROVE  Req = <<>> /\ Req' \in Spaces \X Pages \X (Asked \cup {Invalid})
  <2>1. call = NoCall /\ WalkCall("unmap", s, page, Invalid)
    BY <1>5 DEF arch_unmap_page
  <2> QED BY <1>3, <2>1
<1>6. CASE walk_create
  <2>1. PICK o \in {"map", "unmap"} : \E s, p, e, l, t :
          call = [op |-> o, root |-> s, va |-> p, entry |-> e, level |-> l, table |-> t]
    BY <1>6 DEF walk_create, A64Inv, AsidInv, CallKinds, NoCall
  <2>2. PICK s, p, e, l, t :
          call = [op |-> o, root |-> s, va |-> p, entry |-> e, level |-> l, table |-> t]
    BY <2>1
  <2>3. ASSUME NEW f, call' = [call EXCEPT !.level = @ + 1, !.table = f] PROVE Req' = Req
    <3>1. call' = [op |-> o, root |-> s, va |-> p, entry |-> e, level |-> l + 1, table |-> f]
      BY <2>2, <2>3
    <3>2. Req' = <<s, p, e>> /\ Req = <<s, p, e>>
      BY <2>2, <3>1 DEF Req
    <3> QED BY <3>2
  <2>4. call' = NoCall => call'.op \notin {"map", "unmap"}
    BY DEF NoCall
  <2>5. call' = NoCall \/ \E f : call' = [call EXCEPT !.level = @ + 1, !.table = f]
    BY <1>6 DEF walk_create
  <2> QED BY <1>2, <2>3, <2>4, <2>5
<1>7. CASE \/ \E s \in Spaces : arch_pagetable_create(s) \/ arch_pagetable_destroy(s)
           \/ arch_pagetable_create_asid
           \/ write_entry
           \/ tlb_invalidate_va_asid
  <2>1. UNCHANGED call \/ call'.op \notin {"map", "unmap"}
    BY <1>7 DEF arch_pagetable_create, arch_pagetable_destroy, arch_pagetable_create_asid,
                write_entry, tlb_invalidate_va_asid, NoCall
  <2> QED BY <1>1, <1>2, <2>1
<1>8. CASE free_table_recursive
  <2>1. call.op = "destroy"
    BY <1>8 DEF free_table_recursive
  <2>2. PICK s, st : call = [op |-> "destroy", root |-> s, stack |-> st]
    BY <2>1 DEF A64Inv, AsidInv, CallKinds, NoCall
  <2>3. call' = NoCall \/ \E new : call' = [call EXCEPT !.stack = new]
    BY <1>8 DEF free_table_recursive
  <2>4. \A new : [call EXCEPT !.stack = new].op = "destroy"
    BY <2>2
  <2>5. call'.op \notin {"map", "unmap"}
    <3>1. CASE call' = NoCall
      BY <3>1 DEF NoCall
    <3>2. CASE \E new : call' = [call EXCEPT !.stack = new]
      <4>1. call'.op = "destroy"
        BY <2>4, <3>2
      <4> QED BY <4>1
    <3> QED BY <2>3, <3>1, <3>2
  <2> QED BY <1>2, <2>5
<1>9. CASE BootStep \/ (\E s \in Spaces, page \in MapPages : tlb_fill(s, page)) \/ UNCHANGED a64Vars
  BY <1>1, <1>9 DEF BootStep, ptVars, tlb_fill, a64Vars
<1> QED BY <1>4, <1>5, <1>6, <1>7, <1>8, <1>9 DEF A64Next

LEMMA AbstractStep ==
  ASSUME A64Inv, [A64Next]_a64Vars
  PROVE  [Abstract!Next]_<<Mapping, Req>>
<1>1. AsidInv
  BY DEF A64Inv
<1>2. CASE write_entry /\ WroteEntry
  BY <1>2, AbstractDone DEF Abstract!Next
<1>3. CASE ~ (write_entry /\ WroteEntry)
  <2>1. MapKept
    BY <1>3, StepKinds
  <2>2. CASE \E s \in Spaces : arch_pagetable_destroy(s)
    BY <2>1, <2>2, AbstractClear DEF Abstract!Next
  <2>3. CASE ~ \E s \in Spaces : arch_pagetable_destroy(s)
    <3>1. Mapping' = Mapping
      BY <1>1, <2>1, <2>3, MappingSame
    <3>2. CASE Req' = Req
      BY <3>1, <3>2
    <3>3. CASE Req # <<>> /\ Req' = <<>>
      BY <3>1, <3>3 DEF Abstract!Next, Abstract!Fail, Abstract!NoReq, Req
    <3>4. CASE Req = <<>> /\ Req' \in Spaces \X Pages \X (Asked \cup {Invalid})
      BY <3>1, <3>4 DEF Abstract!Next, Abstract!Request, Abstract!NoReq, Req, Asked
    <3> QED BY <1>3, <3>2, <3>3, <3>4, ReqSteps
  <2> QED BY <2>2, <2>3
<1> QED BY <1>2, <1>3

\* arch_map_page and arch_unmap_page implement the abstract address spaces: the tables
\* that walk_create links and those that other calls allocate, free and recycle change no
\* translation, the write changes that of its page, and a new root starts with none.
THEOREM PagesImplementAddrSpace == A64Spec => ImplementsAddrSpace
<1>1. A64Inv /\ [A64Next]_a64Vars => [Abstract!Next]_<<Mapping, Req>>
  BY AbstractStep
<1> QED BY <1>1, AbstractInit, A64Invariance, PTL DEF A64Spec, ImplementsAddrSpace, Abstract!Spec, Req
=============================================================================
