---------------------------- MODULE PageTableRV ----------------------------
(***************************************************************************)
(* The RISC-V page table (arch/riscv/paging.c): the three-level walk that  *)
(* allocates tables on its way, vmm_map_page, vmm_virt_to_phys, and the    *)
(* identity map that vmm_init builds before it turns paging on, over the   *)
(* frame allocator.                                                        *)
(*                                                                         *)
(* Pages have absolute numbers; frame i of PhysFrame is page KernPage + i. *)
(* A table is known by its frame, kernel_page_table, which is in the image,*)
(* by ROOT.  Each step has at most one call of pmm_alloc_frame.            *)
(***************************************************************************)
EXTENDS PhysFrame

CONSTANTS
  PT_ENTRIES,
  RamFrames,       \* whole frames from kernel_image_start to the end of the RAM
  KernPage,        \* page of kernel_image_start
  RoBytes,         \* kernel_readonly_end - kernel_image_start
  UartPage,        \* page of 0x10000000
  UserPages,       \* pages that clients map after vmm_init
  MaxOthers        \* bound: frames that others take

ASSUME PagingAssumption ==
  /\ PT_ENTRIES \in Nat \ {0}
  /\ RamFrames \in 1 .. TotalFrames
  /\ KernPage \in Nat \ {0} /\ UartPage \in Nat
  /\ RoBytes \in 1 .. KernBytes

\* The addresses in use have three-level page numbers, the UART is below the kernel
\* and clients map neither: virt has the UART at 0x10000000, RAM from 0x80000000 on.
ASSUME LayoutAssumption ==
  /\ KernPage + TotalFrames <= PT_ENTRIES * PT_ENTRIES * PT_ENTRIES
  /\ UartPage + 1 < KernPage
  /\ \A page \in UserPages :
       page \in 0 .. PT_ENTRIES * PT_ENTRIES * PT_ENTRIES - 1 /\ page \notin KernPage .. KernPage + TotalFrames - 1

VARIABLES
  tables,          \* the entries of every frame used as a table, and of ROOT
  stage,           \* the loop of vmm_init; "on" once satp is written
  addr,            \* that loop's variable, as a page
  call,            \* a vmm_map_page in progress
  others           \* frames others took

rvVars == <<phase, boot_heap_ptr, used, free_frames, last_free_index, handed,
            tables, stage, addr, call, others>>

ROOT    == TotalFrames
RamEnd  == KernPage + RamFrames
Indices == 0 .. PT_ENTRIES - 1
Pages   == 0 .. PT_ENTRIES * PT_ENTRIES * PT_ENTRIES - 1

R == "R"
W == "W"
X == "X"
\* PTE_V is a field of its own; PTE_A and PTE_D are left out.
PAGE_KERNEL_EXEC == {R, X}
PAGE_KERNEL_DATA == {R, W}

\* A PTE of 0, and a valid one.
Invalid == [v |-> FALSE, ppn |-> 0, flags |-> {}]
Valid(page, flags) == [v |-> TRUE, ppn |-> page, flags |-> flags]
PAGE_TABLE_NODE == {}
ZeroTable == [k \in Indices |-> Invalid]

NoCall == [op |-> "none"]

RVInit ==
  /\ Init
  /\ tables = [f \in {ROOT} |-> ZeroTable]
  /\ stage = "boot"
  /\ addr = 0
  /\ call = NoCall
  /\ others = {}

----------------------------------------------------------------------------
(* vmm_walk.                                                               *)

\* vpn2, vpn1 and vpn0 of a page.
Index(page, level) ==
  CASE level = 2 -> (page \div (PT_ENTRIES * PT_ENTRIES)) % PT_ENTRIES
    [] level = 1 -> (page \div PT_ENTRIES) % PT_ENTRIES
    [] level = 0 -> page % PT_ENTRIES

\* The table an entry leads to.
TableOf(pte) == pte.ppn - KernPage

\* memset of the new table.
NewTable(f) == [x \in DOMAIN tables \cup {f} |-> IF x = f THEN ZeroTable ELSE tables[x]]

\* Mutant: the entry of the upper level is not written.
LinkTable_not(f) == tables' = NewTable(f)

LinkTable(f) ==
  tables' = [NewTable(f) EXCEPT ![call.table][Index(call.va, call.level)] =
               Valid(KernPage + f, PAGE_TABLE_NODE)]

\* vmm_walk returned NULL: vmm_map_page fails, which vmm_init turns into panic.
WalkFailed ==
  /\ call' = NoCall
  /\ stage' = IF stage = "on" THEN "on" ELSE "panic"
  /\ UNCHANGED tables

\* One upper level: the entry leads to a table, or a frame becomes one.
vmm_walk ==
  LET pte == tables[call.table][Index(call.va, call.level)]
      down(f) == call' = [call EXCEPT !.level = @ - 1, !.table = f]
  IN
  /\ call.op = "map" /\ call.level > 0
  /\ IF pte.v
     THEN /\ down(TableOf(pte))
          /\ UNCHANGED <<vars, tables, stage>>
     ELSE /\ pmm_alloc_frame(NextFrame)
          /\ IF NextFrame = NoFrame
             THEN WalkFailed
             ELSE down(NextFrame) /\ LinkTable(NextFrame) /\ UNCHANGED stage
  /\ UNCHANGED <<addr, others>>

\* The walk without allocation, to the last entry.
LookupTable(page) ==
  LET pte2 == tables[ROOT][Index(page, 2)]
      pte1 == tables[TableOf(pte2)][Index(page, 1)]
  IN  IF pte2.v /\ pte1.v THEN TableOf(pte1) ELSE NoFrame

vmm_virt_to_phys(page) ==
  LET pte0 == tables[LookupTable(page)][Index(page, 0)]
  IN  IF LookupTable(page) # NoFrame /\ pte0.v THEN pte0 ELSE Invalid

----------------------------------------------------------------------------
(* vmm_map_page.                                                           *)

MapCall(page, target, flags) ==
  call' = [op |-> "map", va |-> page, ppn |-> target, flags |-> flags,
           level |-> 2, table |-> ROOT]

\* Mutant: the middle index is used at the last level.
WriteEntry_mid ==
  tables' = [tables EXCEPT ![call.table][Index(call.va, 1)] = Valid(call.ppn, call.flags)]

WriteEntry ==
  tables' = [tables EXCEPT ![call.table][Index(call.va, 0)] = Valid(call.ppn, call.flags)]

vmm_map_page_write ==
  /\ call.op = "map" /\ call.level = 0
  /\ WriteEntry
  /\ call' = NoCall
  /\ UNCHANGED <<vars, stage, addr, others>>

\* A client's call, once paging is on.
vmm_map_page(page, target, flags) ==
  /\ stage = "on" /\ call = NoCall
  /\ MapCall(page, target, flags)
  /\ UNCHANGED <<vars, tables, stage, addr, others>>

----------------------------------------------------------------------------
(* vmm_init.                                                               *)

RoPageEnd == ALIGN_UP(RoBytes, PAGE_SIZE) \div PAGE_SIZE

\* Where each loop starts, whether it goes on at addr, and what it maps.
LoopStart == [ro |-> KernPage, rw |-> KernPage + RoPageEnd, uart |-> UartPage, on |-> 0]

\* Mutant: the loop stops a page before the end of the RAM.
LoopGoesOn_short ==
  CASE stage = "ro"   -> (addr - KernPage) * PAGE_SIZE < RoBytes
    [] stage = "rw"   -> addr < RamEnd - 1
    [] stage = "uart" -> addr < UartPage + 2

LoopGoesOn ==
  CASE stage = "ro"   -> (addr - KernPage) * PAGE_SIZE < RoBytes
    [] stage = "rw"   -> addr < RamEnd
    [] stage = "uart" -> addr < UartPage + 2

LoopFlags == IF stage = "ro" THEN PAGE_KERNEL_EXEC ELSE PAGE_KERNEL_DATA

After == [ro |-> "rw", rw |-> "uart", uart |-> "on"]

vmm_init ==
  /\ phase = "run" /\ stage = "boot" /\ call = NoCall
  /\ tables' = [tables EXCEPT ![ROOT] = ZeroTable]
  /\ stage' = "ro"
  /\ addr' = LoopStart.ro
  /\ UNCHANGED <<vars, call, others>>

vmm_init_loop ==
  /\ stage \in {"ro", "rw", "uart"} /\ call = NoCall
  /\ IF LoopGoesOn
     THEN /\ MapCall(addr, addr, LoopFlags)
          /\ addr' = addr + 1
          /\ UNCHANGED stage
     ELSE /\ stage' = After[stage]
          /\ addr' = LoopStart[After[stage]]
          /\ UNCHANGED call
  /\ UNCHANGED <<vars, tables, others>>

----------------------------------------------------------------------------

BootStep ==
  /\ mm_boot_init \/ pmm_init \/ pmm_free_region \/ pmm_reserve_region
  /\ UNCHANGED <<tables, stage, addr, call, others>>

\* kheap_init before vmm_init, the heap after it.
other_alloc ==
  /\ stage \in {"boot", "on"} /\ call = NoCall
  /\ Cardinality(others) < MaxOthers
  /\ pmm_alloc_frame(NextFrame)
  /\ others' = others \cup ({NextFrame} \ {NoFrame})
  /\ UNCHANGED <<tables, stage, addr, call>>

RVNext ==
  \/ BootStep
  \/ vmm_init
  \/ vmm_init_loop
  \/ vmm_walk
  \/ vmm_map_page_write
  \/ \E page, target \in UserPages, flags \in {PAGE_KERNEL_EXEC, PAGE_KERNEL_DATA} :
       vmm_map_page(page, target, flags)
  \/ other_alloc

RVSpec == RVInit /\ [][RVNext]_rvVars

----------------------------------------------------------------------------
(* Properties.                                                             *)

TableFrames == DOMAIN tables \ {ROOT}

Level1 == {TableOf(tables[ROOT][k]) : k \in {j \in Indices : tables[ROOT][j].v}}
Level0 == UNION {{TableOf(tables[f][k]) : k \in {j \in Indices : tables[f][j].v}} : f \in Level1}
Slots(t) == {<<t, k>> : k \in {j \in Indices : tables[t][j].v}}
UpperSlots == Slots(ROOT) \cup UNION {Slots(f) : f \in Level1}

\* The tables are a tree: every frame that vmm_walk took is in it, none is
\* reached by two entries, none is in use by anyone else.  A table reached twice
\* would make one mapping appear at two addresses; one not reached is lost.
TableTree ==
  /\ Level1 \cup Level0 = TableFrames
  /\ Level1 \cap Level0 = {}
  /\ \A a, b \in UpperSlots : a # b =>
       TableOf(tables[a[1]][a[2]]) # TableOf(tables[b[1]][b[2]])
  /\ TableFrames \subseteq handed \ others

\* After vmm_init, every page of the RAM from the kernel on leads to itself, without
\* write permission if it holds a byte of the read-only part, writable otherwise.
\* In particular each table in the RAM, also those that vmm_init allocated while it
\* mapped pages, can be read and cleared at its physical address, as vmm_walk does.
KernelMapped ==
  stage = "on" =>
    \A page \in KernPage .. RamEnd - 1 :
      vmm_virt_to_phys(page) =
        Valid(page, IF (page - KernPage) * PAGE_SIZE < RoBytes
                    THEN PAGE_KERNEL_EXEC ELSE PAGE_KERNEL_DATA)

\* The map that vmm_virt_to_phys shows.
Mapping == [s \in {"kernel"} |-> [page \in Pages |-> vmm_virt_to_phys(page)]]

Abstract == INSTANCE AddrSpace WITH
  Spaces <- {"kernel"}, None <- Invalid, map <- Mapping,
  req <- IF call = NoCall THEN <<>> ELSE <<"kernel", call.va, Valid(call.ppn, call.flags)>>,
  Targets <- {Valid(p, f) : p \in Pages, f \in {PAGE_KERNEL_EXEC, PAGE_KERNEL_DATA}}

\* vmm_map_page implements the abstract address space: its page takes the target
\* and the flags asked for, at once, and no other translation changes; when a
\* table cannot be allocated half way down, none changes at all.
ImplementsAddrSpace == Abstract!Spec
=============================================================================
