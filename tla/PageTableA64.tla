---------------------------- MODULE PageTableA64 ----------------------------
(***************************************************************************)
(* The arm64 page tables (arch/arm64/paging.c): the pool of ASIDs, roots   *)
(* that are created and destroyed, the walk that allocates tables, mapping *)
(* and unmapping with the invalidation of the TLB, over the frame          *)
(* allocator.                                                              *)
(*                                                                         *)
(* One CPU runs the calls, others may walk the tables: the TLB is filled   *)
(* between any two steps.  A table is known by its frame; physical and     *)
(* virtual addresses of tables are the same (PHYS_TO_VIRT).  The record    *)
(* of a root comes from the heap, which KHeap models: here it is a member  *)
(* of Spaces.                                                              *)
(***************************************************************************)
EXTENDS PhysFrame, SequencesExt

CONSTANTS
  PT_ENTRIES,
  PT_LEVELS,
  ASID_POOL_SIZE,
  Spaces,          \* roots that may exist at a time
  MapPages,        \* pages that clients map and unmap
  MapPhys,         \* physical pages they map to
  Prots,           \* values of prot
  MaxTlb           \* bound: entries of the TLB

ASSUME A64Assumption ==
  /\ PT_ENTRIES \in Nat \ {0}
  /\ PT_LEVELS \in Nat \ {0}
  /\ ASID_POOL_SIZE \in Nat \ {0}
  /\ MapPages \subseteq 0 .. PT_ENTRIES ^ PT_LEVELS - 1

\* For the provers, which do not know exponents.
ASSUME PowerAssumption ==
  /\ PT_ENTRIES ^ 0 = 1
  /\ \A k \in 0 .. PT_LEVELS - 1 :
       PT_ENTRIES ^ k \in Nat \ {0} /\ PT_ENTRIES ^ (k + 1) = PT_ENTRIES * PT_ENTRIES ^ k

VARIABLES
  g_asid_used,     \* the ASIDs whose flag is set
  roots,           \* the roots that were created
  tables,          \* the entries of every frame used as a table
  call,            \* the call in progress
  tlb,             \* cached translations
  retired          \* history: ASIDs that asid_free gave back

ptVars == <<g_asid_used, roots, tables, call, tlb, retired>>
a64Vars == <<phase, boot_heap_ptr, used, free_frames, last_free_index, handed,
             g_asid_used, roots, tables, call, tlb, retired>>

Indices == 0 .. PT_ENTRIES - 1
Pages   == 0 .. PT_ENTRIES ^ PT_LEVELS - 1

\* An entry of 0, one that leads to a table, one that maps a page.
Invalid == [v |-> FALSE, addr |-> 0, attrs |-> {}]
Node(f) == [v |-> TRUE, addr |-> f, attrs |-> {}]
Leaf(phys, attrs) == [v |-> TRUE, addr |-> phys, attrs |-> attrs]
ZeroTable == [k \in Indices |-> Invalid]

\* The attributes arch_map_page derives from prot; those it always sets are
\* left out.
Attrs(prot) ==
  {IF "PROT_WRITE" \in prot THEN "AP_RW_ALL" ELSE "AP_RO_ALL", "PXN"}
    \cup (IF "PROT_EXEC" \in prot THEN {} ELSE {"UXN"})

NoCall == [op |-> "none"]

A64Init ==
  /\ Init
  /\ g_asid_used = {}
  /\ roots = <<>>
  /\ tables = <<>>
  /\ call = NoCall
  /\ tlb = {}
  /\ retired = {}

Live == DOMAIN roots

----------------------------------------------------------------------------
(* The pool of ASIDs; its lock makes each operation one step.              *)

AsidsFree == (1 .. ASID_POOL_SIZE - 1) \ g_asid_used

\* Mutant: the flag is not set.
asid_alloc_unset == UNCHANGED g_asid_used

asid_alloc == g_asid_used' = g_asid_used \cup {Min(AsidsFree)}

asid_free(asid) ==
  /\ g_asid_used' = g_asid_used \ {asid}
  /\ retired' = retired \cup {asid}

----------------------------------------------------------------------------
(* arch_pagetable_create.                                                  *)

\* alloc_table_page clears the new table.
NewTable(f) == [x \in DOMAIN tables \cup {f} |-> IF x = f THEN ZeroTable ELSE tables[x]]

arch_pagetable_create(s) ==
  /\ phase = "run" /\ call = NoCall /\ s \notin Live
  /\ pmm_alloc_frame(NextFrame)
  /\ IF NextFrame = NoFrame
     THEN UNCHANGED <<tables, call>>
     ELSE /\ tables' = NewTable(NextFrame)
          /\ call' = [op |-> "create", root |-> s, table |-> NextFrame]
  /\ UNCHANGED <<g_asid_used, roots, tlb, retired>>

arch_pagetable_create_asid ==
  /\ call.op = "create"
  /\ IF AsidsFree = {}
     THEN /\ pmm_free_frame(call.table)
          /\ tables' = Restrict(tables, DOMAIN tables \ {call.table})
          /\ UNCHANGED <<g_asid_used, roots>>
     ELSE /\ asid_alloc
          /\ roots' = [s \in Live \cup {call.root} |->
                         IF s = call.root
                         THEN [ttbr0_phys |-> call.table, asid |-> Min(AsidsFree)]
                         ELSE roots[s]]
          /\ UNCHANGED <<vars, tables>>
  /\ call' = NoCall
  /\ UNCHANGED <<tlb, retired>>

----------------------------------------------------------------------------
(* arch_pagetable_destroy: the stack holds the calls of                    *)
(* free_table_recursive in progress, the innermost first.                  *)

arch_pagetable_destroy(s) ==
  /\ phase = "run" /\ call = NoCall /\ s \in Live
  /\ call' = [op |-> "destroy", root |-> s,
              stack |-> <<[table |-> roots[s].ttbr0_phys, level |-> 0, i |-> 0]>>]
  /\ UNCHANGED <<vars, g_asid_used, roots, tables, tlb, retired>>

\* Mutant: the tables of the last level are not visited.
HasTables_less(level) == level < PT_LEVELS - 2

\* Whether the entries of a table of this level lead to tables.
HasTables(level) == level < PT_LEVELS - 1

free_table_recursive ==
  LET top   == Head(call.stack)
      rest  == Tail(call.stack)
      entry == tables[top.table][top.i]
      next  == [top EXCEPT !.i = @ + 1]
      child == [table |-> entry.addr, level |-> top.level + 1, i |-> 0]
      last  == rest = <<>>
  IN
  /\ call.op = "destroy"
  /\ IF HasTables(top.level) /\ top.i < PT_ENTRIES
     THEN /\ call' = [call EXCEPT !.stack =
                        (IF entry.v THEN <<child>> ELSE <<>>) \o <<next>> \o rest]
          /\ UNCHANGED <<vars, tables, roots, g_asid_used, retired>>
     ELSE /\ pmm_free_frame(top.table)
          /\ tables' = Restrict(tables, DOMAIN tables \ {top.table})
          /\ IF last
             THEN /\ asid_free(roots[call.root].asid)
                  /\ roots' = Restrict(roots, Live \ {call.root})
                  /\ call' = NoCall
             ELSE /\ call' = [call EXCEPT !.stack = rest]
                  /\ UNCHANGED <<roots, g_asid_used, retired>>
  /\ UNCHANGED tlb

----------------------------------------------------------------------------
(* arch_map_page and arch_unmap_page.                                      *)

\* Mutant: the levels are counted from the wrong end.
level_index_up(page, level) == (page \div (PT_ENTRIES ^ level)) % PT_ENTRIES

level_index(page, level) == (page \div (PT_ENTRIES ^ (PT_LEVELS - 1 - level))) % PT_ENTRIES

WalkCall(op, s, page, entry) ==
  call' = [op |-> op, root |-> s, va |-> page, entry |-> entry,
           level |-> 0, table |-> roots[s].ttbr0_phys]

arch_map_page(s, page, phys, prot) ==
  /\ phase = "run" /\ call = NoCall /\ s \in Live
  /\ WalkCall("map", s, page, Leaf(phys, Attrs(prot)))
  /\ UNCHANGED <<vars, g_asid_used, roots, tables, tlb, retired>>

arch_unmap_page(s, page) ==
  /\ phase = "run" /\ call = NoCall /\ s \in Live
  /\ WalkCall("unmap", s, page, Invalid)
  /\ UNCHANGED <<vars, g_asid_used, roots, tables, tlb, retired>>

LinkTable(f) ==
  tables' = [NewTable(f) EXCEPT ![call.table][level_index(call.va, call.level)] = Node(f)]

\* One level of the walk; without a frame the call returns -1.
walk_create ==
  LET entry == tables[call.table][level_index(call.va, call.level)]
      down(f) == call' = [call EXCEPT !.level = @ + 1, !.table = f]
  IN
  /\ call.op \in {"map", "unmap"} /\ call.level < PT_LEVELS - 1
  /\ IF entry.v
     THEN down(entry.addr) /\ UNCHANGED <<vars, tables>>
     ELSE /\ pmm_alloc_frame(NextFrame)
          /\ IF NextFrame = NoFrame
             THEN call' = NoCall /\ UNCHANGED tables
             ELSE down(NextFrame) /\ LinkTable(NextFrame)
  /\ UNCHANGED <<g_asid_used, roots, tlb, retired>>

\* The last entry is written, unless it is to be removed and is not there.
write_entry ==
  LET idx == level_index(call.va, call.level) IN
  /\ call.op \in {"map", "unmap"} /\ call.level = PT_LEVELS - 1
  /\ IF call.op = "unmap" /\ ~tables[call.table][idx].v
     THEN call' = NoCall /\ UNCHANGED tables
     ELSE /\ tables' = [tables EXCEPT ![call.table][idx] = call.entry]
          /\ call' = [op |-> "flush", root |-> call.root, va |-> call.va]
  /\ UNCHANGED <<vars, g_asid_used, roots, tlb, retired>>

\* Mutant: the ASID is left out of the argument of tlbi.
Flushed_asid0 == {e \in tlb : e.va = call.va /\ e.asid = 0}

Flushed == {e \in tlb : e.va = call.va /\ e.asid = roots[call.root].asid}

tlb_invalidate_va_asid ==
  /\ call.op = "flush"
  /\ tlb' = tlb \ Flushed
  /\ call' = NoCall
  /\ UNCHANGED <<vars, g_asid_used, roots, tables, retired>>

----------------------------------------------------------------------------
(* The hardware, and the boot.                                             *)

\* The index the MMU takes at a level: level 0 has the highest bits.
MmuIndex(page, level) == (page \div (PT_ENTRIES ^ (PT_LEVELS - 1 - level))) % PT_ENTRIES

\* The table of the last level that a walk of the MMU reaches.
LastTable(s, page) ==
  LET t[level \in 0 .. PT_LEVELS - 1] ==
        IF level = 0 THEN roots[s].ttbr0_phys
        ELSE IF t[level - 1] = NoFrame THEN NoFrame
        ELSE LET entry == tables[t[level - 1]][MmuIndex(page, level - 1)]
             IN  IF entry.v THEN entry.addr ELSE NoFrame
  IN  t[PT_LEVELS - 1]

Translate(s, page) ==
  IF LastTable(s, page) = NoFrame THEN Invalid
  ELSE tables[LastTable(s, page)][MmuIndex(page, PT_LEVELS - 1)]

\* A space that nobody is destroying.
Usable(s) == s \in Live /\ ~(call.op = "destroy" /\ call.root = s)

\* A CPU that runs in space s caches a translation.
tlb_fill(s, page) ==
  /\ Usable(s) /\ Translate(s, page).v
  /\ Cardinality(tlb) < MaxTlb
  /\ tlb' = tlb \cup {[asid |-> roots[s].asid, va |-> page, entry |-> Translate(s, page)]}
  /\ UNCHANGED <<vars, g_asid_used, roots, tables, call, retired>>

BootStep ==
  /\ mm_boot_init \/ pmm_init \/ pmm_free_region \/ pmm_reserve_region
  /\ UNCHANGED ptVars

A64Next ==
  \/ BootStep
  \/ \E s \in Spaces : arch_pagetable_create(s) \/ arch_pagetable_destroy(s)
  \/ arch_pagetable_create_asid
  \/ free_table_recursive
  \/ \E s \in Spaces, page \in MapPages :
       \/ \E phys \in MapPhys, prot \in Prots : arch_map_page(s, page, phys, prot)
       \/ arch_unmap_page(s, page)
       \/ tlb_fill(s, page)
  \/ walk_create
  \/ write_entry
  \/ tlb_invalidate_va_asid

A64Spec == A64Init /\ [][A64Next]_a64Vars

----------------------------------------------------------------------------
(* Properties.                                                             *)

\* The ASIDs in use are those of the roots that exist, no two the same: with a
\* shared ASID one space would see the cached translations of another.
AsidsExclusive ==
  /\ g_asid_used = {roots[s].asid : s \in Live}
  /\ \A s, t \in Live : roots[s].asid = roots[t].asid => s = t

\* The tables that the entries of levels 0 .. PT_LEVELS - 2 reach from a frame.
Children(F) ==
  UNION {{tables[f][k].addr : k \in {j \in Indices : tables[f][j].v}} : f \in F}
Reached(s) ==
  LET level[l \in 0 .. PT_LEVELS - 1] ==
        IF l = 0 THEN {roots[s].ttbr0_phys} ELSE Children(level[l - 1])
  IN  UNION {level[l] : l \in 0 .. PT_LEVELS - 1}

\* Between calls, the frames that are handed out are those of the tables, each of
\* exactly one root: a failed create or walk and a destroy leave nothing behind and
\* free nothing that another root still uses.
TablesAccounted ==
  call = NoCall =>
    /\ UNION {Reached(s) : s \in Live} = DOMAIN tables
    /\ \A s, t \in Live : s # t => Reached(s) \cap Reached(t) = {}
    /\ phase = "run" => handed = DOMAIN tables

\* Under an ASID that is used for the first time, the TLB never holds a
\* translation that differs from the tables, but for the page that is between its
\* write and its invalidation.  A recycled ASID is excluded: asid_free invalidates
\* nothing, so the translations of the space before it may still be cached.
TlbCoherent ==
  \A e \in tlb : \A s \in Live :
    (/\ roots[s].asid = e.asid /\ e.asid \notin retired
     /\ Usable(s)
     /\ ~(call.op = "flush" /\ call.root = s /\ call.va = e.va))
    => Translate(s, e.va) = e.entry

\* The map of each space.
Mapping == [s \in Spaces |-> [page \in Pages |->
              IF Usable(s) THEN Translate(s, page) ELSE Invalid]]

Abstract == INSTANCE AddrSpace WITH
  None <- Invalid, map <- Mapping,
  req <- IF call.op \in {"map", "unmap"} THEN <<call.root, call.va, call.entry>> ELSE <<>>,
  Targets <- {Leaf(phys, Attrs(prot)) : phys \in MapPhys, prot \in Prots}

\* arch_map_page and arch_unmap_page implement the abstract address spaces: the
\* page of the root they are called for changes as asked, at once, or nothing
\* does, and no other root is touched, whatever tables are shared or recycled.
ImplementsAddrSpace == Abstract!Spec
=============================================================================
