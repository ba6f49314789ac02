----------------------------- MODULE PhysFrame -----------------------------
(***************************************************************************)
(* The physical frame allocator (base/mm/physframe.c), the boot bump       *)
(* allocator its bitmap comes from (base/mm/bootalloc.c) and the boot      *)
(* sequence that sets both up (mm_init, base/mm/mm.c).                     *)
(*                                                                         *)
(* A frame is its index in the bitmap, counted from mem_phys_base, which   *)
(* mm_init sets to kernel_image_start; the address mem_phys_base + i *     *)
(* PAGE_SIZE is never 0, so NoFrame (-1) stands for a returned 0.  `used'  *)
(* is the set of indices whose bit is 1.                                   *)
(***************************************************************************)
EXTENDS Integers, FiniteSetsExt

CONSTANTS
  TotalFrames,     \* machine_ram_total / PAGE_SIZE
  PAGE_SIZE,
  KernBytes,       \* early_heap_end - kernel_image_start
  BootHeapBytes,   \* early_heap_end - early_heap_start
  BITMAP_BIT_SIZE  \* bits in a byte of the bitmap

Frames  == 0 .. TotalFrames - 1
NoFrame == -1

\* The macro masks, the model divides: the same for the powers of two it is
\* used with.
ALIGN_UP(num, align) == ((num + align - 1) \div align) * align

\* Bytes pmm_init asks for: the quotient is taken before it is rounded up.
bitmap_size == ALIGN_UP(TotalFrames \div BITMAP_BIT_SIZE, 8)

ASSUME SizeAssumption ==
  /\ TotalFrames \in Nat \ {0}
  /\ PAGE_SIZE \in Nat \ {0}
  /\ KernBytes \in 1 .. TotalFrames * PAGE_SIZE
  /\ BootHeapBytes \in Nat
  /\ BITMAP_BIT_SIZE \in Nat \ {0}

\* 128 MB are 32768 frames, so the quotient is exact and every frame has a bit.
ASSUME BitmapAssumption == BITMAP_BIT_SIZE * bitmap_size >= TotalFrames

VARIABLES
  phase,           \* where mm_init is; "panic" is the halt() of panic()
  boot_heap_ptr,   \* bump pointer, as an offset from early_heap_start
  used,            \* frame_bitmap: the frames whose bit is set
  free_frames,
  last_free_index,
  handed           \* history: frames returned by pmm_alloc_frame and not freed since

pmmVars == <<used, free_frames, last_free_index, handed>>
vars == <<phase, boot_heap_ptr, used, free_frames, last_free_index, handed>>

Free == Frames \ used

Init ==
  /\ phase = "start"
  /\ boot_heap_ptr = 0
  /\ used = {}
  /\ free_frames = 0
  /\ last_free_index = 0
  /\ handed = {}

----------------------------------------------------------------------------
(* mm_init, in its order.                                                  *)

mm_boot_init ==
  /\ phase = "start"
  /\ phase' = "boot_heap"
  /\ boot_heap_ptr' = 0
  /\ UNCHANGED pmmVars

\* What mm_boot_alloc(size) leaves in boot_heap_ptr.
mm_boot_alloc(size) == boot_heap_ptr + ALIGN_UP(size, 16)

pmm_init ==
  /\ phase = "boot_heap"
  /\ IF mm_boot_alloc(bitmap_size) > BootHeapBytes
     THEN /\ phase' = "panic"
          /\ UNCHANGED boot_heap_ptr
          /\ UNCHANGED used
     ELSE /\ phase' = "all_used"
          /\ boot_heap_ptr' = mm_boot_alloc(bitmap_size)
          /\ used' = Frames
  /\ free_frames' = TotalFrames
  /\ UNCHANGED <<last_free_index, handed>>

\* pmm_free_region(kernel_image_start, machine_ram_total): every set bit is
\* cleared and counted.
pmm_free_region ==
  /\ phase = "all_used"
  /\ phase' = "all_free"
  /\ used' = used \ Frames
  /\ free_frames' = free_frames + Cardinality(used \cap Frames)
  /\ UNCHANGED <<boot_heap_ptr, last_free_index, handed>>

\* Mutant: the size is rounded down to whole frames.
ReserveCountDown == KernBytes \div PAGE_SIZE

ReserveCount == ALIGN_UP(KernBytes, PAGE_SIZE) \div PAGE_SIZE
Reserved == 0 .. ReserveCount - 1

\* `if (free_frames > 0) free_frames--', n times.
Saturating(count, n) == IF count > n THEN count - n ELSE 0

\* pmm_reserve_region(kern_start, kern_size); kheap_init follows in mm_init.
pmm_reserve_region ==
  /\ phase = "all_free"
  /\ phase' = "run"
  /\ used' = used \cup Reserved
  /\ free_frames' = Saturating(free_frames, Cardinality(Reserved \ used))
  /\ UNCHANGED <<boot_heap_ptr, last_free_index, handed>>

----------------------------------------------------------------------------
(* The allocator proper.                                                   *)

\* The index the two scans of pmm_alloc_frame stop at.
Scan ==
  LET ahead  == {i \in last_free_index .. TotalFrames - 1 : i \notin used}
      behind == {i \in 0 .. last_free_index - 1 : i \notin used}
  IN  IF ahead # {} THEN Min(ahead)
      ELSE IF behind # {} THEN Min(behind) ELSE NoFrame

\* Mutant: the bit of the frame is not set.
TakeFrameNoSet(i) ==
  /\ used' = used
  /\ free_frames' = free_frames - 1
  /\ last_free_index' = i + 1
  /\ handed' = handed \cup {i}

\* Mutant: the hint steps over a frame.
TakeFrameSkip(i) ==
  /\ used' = used \cup {i}
  /\ free_frames' = free_frames - 1
  /\ last_free_index' = i + 2
  /\ handed' = handed \cup {i}

TakeFrame(i) ==
  /\ used' = used \cup {i}
  /\ free_frames' = free_frames - 1
  /\ last_free_index' = i + 1
  /\ handed' = handed \cup {i}

pmm_alloc_frame(ret) ==
  /\ phase = "run"
  /\ IF free_frames = 0
     THEN ret = NoFrame /\ phase' = "panic" /\ UNCHANGED pmmVars
     ELSE /\ ret = Scan
          /\ IF ret = NoFrame THEN UNCHANGED pmmVars ELSE TakeFrame(ret)
          /\ UNCHANGED phase
  /\ UNCHANGED boot_heap_ptr

\* What pmm_alloc_frame returns.
NextFrame == IF free_frames = 0 THEN NoFrame ELSE Scan

\* Mutant: a freed frame below the hint does not pull it down.
KeepHint(i) == last_free_index
LowerHint(i) == IF i < last_free_index THEN i ELSE last_free_index

CountFreed == free_frames + 1

\* i is the quotient of the address: below 0 for an address under the base.
pmm_free_frame(i) ==
  /\ phase = "run"
  /\ IF i \in Frames /\ i \in used
     THEN /\ used' = used \ {i}
          /\ free_frames' = CountFreed
          /\ last_free_index' = LowerHint(i)
          /\ handed' = handed \ {i}
     ELSE UNCHANGED pmmVars
  /\ UNCHANGED <<phase, boot_heap_ptr>>

\* A caller frees what it was given; an address outside the managed range, or
\* a frame that is already free, is ignored.
Freeable == (-1 .. TotalFrames) \ (used \ handed)

Next ==
  \/ mm_boot_init
  \/ pmm_init
  \/ pmm_free_region
  \/ pmm_reserve_region
  \/ \E ret \in Frames \cup {NoFrame} : pmm_alloc_frame(ret)
  \/ \E i \in Freeable : pmm_free_frame(i)

Spec == Init /\ [][Next]_vars

----------------------------------------------------------------------------
(* Properties.                                                             *)

Phases == {"start", "boot_heap", "all_used", "all_free", "run", "panic"}

\* Every variable keeps its type; in particular the index hint never leaves
\* 0 .. total_frames, so the scans of pmm_alloc_frame stay inside the bitmap.
TypeOK ==
  /\ phase \in Phases
  /\ boot_heap_ptr \in Nat
  /\ used \in SUBSET Frames
  /\ free_frames \in Nat
  /\ last_free_index \in 0 .. TotalFrames
  /\ handed \in SUBSET Frames

\* Once mm_init is done, the set bits are exactly the reserved frames and the
\* frames handed out and not freed: no frame leaks, none is handed out while
\* its bit is clear.
Partition == phase = "run" => used = Reserved \cup handed

\* No byte of the kernel image or of the boot heap, which holds the bitmap
\* itself, is ever in a frame that pmm_alloc_frame handed out.
ImageSafe == \A i \in handed : i * PAGE_SIZE >= KernBytes

\* No free frame lies below last_free_index, so the wrap-around scan of
\* pmm_alloc_frame never finds anything the first scan missed.
HintTight == \A i \in Free : phase = "run" => last_free_index <= i

\* pmm_alloc_frame hands out the lowest free frame: kmalloc's large path asks
\* for frames one by one and panics unless each follows the one before.
LowestFirst == [][\A i \in handed' \ handed : \A j \in Free : i <= j]_vars

\* pmm_alloc_frame's panic on free_frames == 0 never strikes while a frame is
\* free.
GuardNeverRefuses == phase = "run" /\ Free # {} => free_frames > 0

\* When every frame is taken, free_frames is 0, so that pmm_alloc_frame stops
\* with "out of physical memory frames".  It does not hold, and is in no run:
\* boot counts every frame twice (README).
ExhaustionIsSeen == phase = "run" /\ Free = {} => free_frames = 0
=============================================================================
