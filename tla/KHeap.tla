------------------------------- MODULE KHeap -------------------------------
(***************************************************************************)
(* Slab caches (base/mm/slab.c) and the kernel heap (base/mm/kheap.c) on   *)
(* top of the frame allocator, together with the other users of frames.    *)
(*                                                                         *)
(* One CPU calls into the heap: pmm_alloc_frame has no lock, and only the  *)
(* boot hart runs kernel code.  A step has at most one call of the frame   *)
(* allocator, so that each step is one of PhysFrame's or leaves its state  *)
(* alone; the loops of the large path go through `call'.                   *)
(*                                                                         *)
(* An address is a byte offset from mem_phys_base.  Address 0 is in the    *)
(* kernel image, so that NULL (-1) is no block.                            *)
(***************************************************************************)
EXTENDS PhysFrame, Sequences

CONSTANTS
  FrameHeader,       \* sizeof(frame_t)
  AllocHeader,       \* sizeof(alloc_header_t)
  CacheBytes,        \* sizeof(slab_cache_t)
  NodeBytes,         \* sizeof(free_node)
  PtrAlign,          \* alignof(void*)
  KMALLOC_MIN_SIZE,
  NUM_SLAB_BUCKETS,
  SizeMod,           \* 2^64: size_t
  Sizes,             \* sizes clients ask the heap for
  Nums,              \* and element counts they ask kcalloc for
  TypeSizes,         \* object sizes clients create caches for
  MaxCaches,         \* bound: slab_cache_create is called up to here
  MaxLive,           \* bound: heap blocks at one time
  MaxObjs,           \* bound: slab objects at one time
  MaxOthers          \* bound: frames of page tables and user code at one time

NULL == -1

ASSUME HeapAssumption ==
  /\ FrameHeader \in Nat \ {0} /\ AllocHeader \in Nat
  /\ CacheBytes \in Nat \ {0} /\ NodeBytes \in Nat \ {0} /\ PtrAlign \in Nat \ {0}
  /\ KMALLOC_MIN_SIZE \in Nat \ {0} /\ NUM_SLAB_BUCKETS \in Nat \ {0}
  /\ SizeMod \in Nat \ {0}
  /\ Sizes \subseteq 1 .. SizeMod - 1
  /\ Nums \subseteq 1 .. SizeMod - 1
  /\ TypeSizes \subseteq Nat

\* A descriptor fits into a frame behind the frame's header, a free node into the
\* smallest bucket; pages are aligned for pointers.
ASSUME SlabAssumption ==
  /\ ALIGN_UP(FrameHeader, PtrAlign) + CacheBytes <= PAGE_SIZE
  /\ NodeBytes <= KMALLOC_MIN_SIZE + AllocHeader
  /\ PAGE_SIZE % PtrAlign = 0

VARIABLES
  caches,            \* the slab caches; the first is cache_metadata_cache
  kheap_initialized,
  live,              \* heap blocks by the address of their header
  objs,              \* objects of the clients' own caches
  others,            \* frames other parts of the kernel hold
  call,              \* the loop a call is in
  halted             \* panic() was called above the frame allocator

physVars == <<phase, boot_heap_ptr, used, free_frames, last_free_index, handed>>
heapVars == <<physVars, caches, kheap_initialized, live, objs, others, call, halted>>

NoCall == [op |-> "none"]

Ready == phase = "run" /\ ~halted /\ call = NoCall

KHInit ==
  /\ Init
  /\ caches = << >>
  /\ kheap_initialized = FALSE
  /\ live = << >>
  /\ objs = {}
  /\ others = {}
  /\ call = NoCall
  /\ halted = FALSE

----------------------------------------------------------------------------
(* slab.c                                                                  *)

\* Mutant: the last object may stick out of the frame.
Carve_over(f, obj_size) ==
  LET start == f * PAGE_SIZE + ALIGN_UP(FrameHeader, PtrAlign)
      n     == ((f + 1) * PAGE_SIZE - start + obj_size - 1) \div obj_size
  IN  [k \in 1 .. n |-> start + (n - k) * obj_size]

\* The list slab_grow builds: objects are pushed in ascending order.
Carve(f, obj_size) ==
  LET start == f * PAGE_SIZE + ALIGN_UP(FrameHeader, PtrAlign)
      n     == ((f + 1) * PAGE_SIZE - start) \div obj_size
  IN  [k \in 1 .. n |-> start + (n - k) * obj_size]

slab_grow(cache, f) ==
  [cache EXCEPT !.slabs = @ \cup {f}, !.free_objects = Carve(f, cache.obj_size) \o @]

\* The cache when slab_alloc takes its node, and the node.
Filled(cache) ==
  IF cache.free_objects = << >> /\ NextFrame # NoFrame
  THEN slab_grow(cache, NextFrame) ELSE cache

Node(cache) ==
  IF Filled(cache).free_objects = << >> THEN NULL ELSE Head(Filled(cache).free_objects)

Popped(cache) ==
  IF Node(cache) = NULL THEN Filled(cache)
  ELSE [Filled(cache) EXCEPT !.free_objects = Tail(@)]

\* slab_alloc, with the panic of slab_grow; the caller stores Popped(cache).
slab_alloc(cache) ==
  IF cache.free_objects # << >>
  THEN UNCHANGED <<physVars, halted>>
  ELSE pmm_alloc_frame(NextFrame) /\ halted' = (NextFrame = NoFrame)

slab_free(c, a) == caches' = [caches EXCEPT ![c].free_objects = <<a>> \o @]

EmptyCache(obj_size, at) ==
  [obj_size |-> obj_size, slabs |-> {}, free_objects |-> << >>, at |-> at]

\* cache_meta_initialized is the presence of the first cache.
Bootstrapped == IF caches = << >> THEN << EmptyCache(CacheBytes, NULL) >> ELSE caches

Largest(m, n) == IF m > n THEN m ELSE n

slab_cache_create(size) ==
  LET obj_size == ALIGN_UP(Largest(size, NodeBytes), PtrAlign)
      meta     == Bootstrapped[1]
      new      == EmptyCache(obj_size, Node(meta))
  IN  /\ slab_alloc(meta)
      /\ caches' = [Bootstrapped EXCEPT ![1] = Popped(meta)]
                     \o (IF Node(meta) = NULL THEN << >> ELSE << new >>)

----------------------------------------------------------------------------
(* kheap.c                                                                 *)

\* kmalloc_caches[b] is caches[b + 2], after the cache of the caches.
BucketSize(b) == KMALLOC_MIN_SIZE * 2^b
Buckets == 0 .. NUM_SLAB_BUCKETS - 1

\* For the provers, which do not know exponents.
ASSUME BucketAssumption ==
  \A b \in Buckets :
    /\ BucketSize(b) \in Nat /\ KMALLOC_MIN_SIZE <= BucketSize(b)
    /\ \A d \in b .. NUM_SLAB_BUCKETS - 1 : BucketSize(b) <= BucketSize(d)

\* Mutant: the comparisons of get_bucket_index are off by one.
get_bucket_index_off(size) ==
  LET fits == {b \in Buckets : size <= BucketSize(b) + 1}
  IN  IF fits = {} THEN -1 ELSE Min(fits)

get_bucket_index(size) ==
  LET fits == {b \in Buckets : size <= BucketSize(b)}
  IN  IF fits = {} THEN -1 ELSE Min(fits)

\* One turn of kheap_init's loop; slab_cache_create cannot return NULL, as
\* descriptors fit into a frame.
kheap_init ==
  /\ Ready /\ ~kheap_initialized
  /\ LET b == IF caches = << >> THEN 0 ELSE Len(caches) - 1
     IN  /\ slab_cache_create(BucketSize(b) + AllocHeader)
         /\ kheap_initialized' = (b = NUM_SLAB_BUCKETS - 1)
  /\ UNCHANGED <<live, objs, others, call>>

\* num_pages of kmalloc and kfree, in size_t arithmetic.
num_pages(size) ==
  LET total_size == (size + AllocHeader) % SizeMod
  IN  (ALIGN_UP(total_size, PAGE_SIZE) % SizeMod) \div PAGE_SIZE

AddBlock(a, size, cache) ==
  live' = [x \in DOMAIN live \cup {a} |->
             IF x = a THEN [size |-> size, cache |-> cache, asked |-> size] ELSE live[x]]

RemoveBlock(a) == live' = [x \in DOMAIN live \ {a} |-> live[x]]

\* After kmalloc has its block, krealloc goes on to free the old one.
Then(src) == call' = IF src = NULL THEN NoCall ELSE [op |-> "kfree", ptr |-> src]

kmalloc_slab(size, src) ==
  LET c == get_bucket_index(size) + 2
      a == Node(caches[c])
  IN  /\ get_bucket_index(size) # -1
      /\ slab_alloc(caches[c])
      /\ caches' = [caches EXCEPT ![c] = Popped(@)]
      /\ IF a = NULL THEN UNCHANGED <<live, call>>
         ELSE AddBlock(a, size, c) /\ Then(src)

kmalloc_first(size, src) ==
  /\ get_bucket_index(size) = -1
  /\ pmm_alloc_frame(NextFrame)
  /\ call' = IF NextFrame = NoFrame THEN NoCall
             ELSE [op |-> "kmalloc", phys |-> NextFrame, i |-> 1,
                   n |-> num_pages(size), size |-> size, src |-> src]
  /\ UNCHANGED <<caches, live, halted>>

\* kmalloc up to its first call of the frame allocator; src is the block that
\* krealloc frees afterwards.
kmalloc(size, src) ==
  /\ Ready /\ kheap_initialized
  /\ Cardinality(DOMAIN live) < MaxLive
  /\ kmalloc_slab(size, src) \/ kmalloc_first(size, src)
  /\ UNCHANGED <<kheap_initialized, objs, others>>

kmalloc_next ==
  /\ phase = "run" /\ ~halted
  /\ call.op = "kmalloc"
  /\ IF call.i < call.n
     THEN /\ pmm_alloc_frame(NextFrame)
          /\ IF NextFrame = call.phys + call.i
             THEN call' = [call EXCEPT !.i = @ + 1] /\ UNCHANGED halted
             ELSE halted' = TRUE /\ UNCHANGED call
          /\ UNCHANGED live
     ELSE /\ AddBlock(call.phys * PAGE_SIZE, call.size, NULL)
          /\ Then(call.src)
          /\ UNCHANGED <<physVars, halted>>
  /\ UNCHANGED <<caches, kheap_initialized, objs, others>>

\* The part kfree and kfree_sized share: back to cache c, or n frames to free.
Release(a, c, n) ==
  /\ RemoveBlock(a)
  /\ IF c # NULL
     THEN slab_free(c, a) /\ call' = NoCall
     ELSE /\ call' = [op |-> "free", phys |-> a \div PAGE_SIZE, i |-> 0, n |-> n]
          /\ UNCHANGED caches
  /\ UNCHANGED <<physVars, kheap_initialized, objs, others, halted>>

\* Mutant: the header is left out of the size.
kfree_bare(a) ==
  /\ Ready
  /\ Release(a, live[a].cache, ALIGN_UP(live[a].size, PAGE_SIZE) \div PAGE_SIZE)

kfree(a) ==
  /\ Ready
  /\ Release(a, live[a].cache, num_pages(live[a].size))

\* krealloc's kfree.
krealloc_kfree ==
  /\ ~halted
  /\ call.op = "kfree"
  /\ Release(call.ptr, live[call.ptr].cache, num_pages(live[call.ptr].size))

\* The size is the caller's, not the header's.
kfree_sized(a) ==
  LET size == live[a].asked IN
  /\ Ready
  /\ Release(a, IF get_bucket_index(size) = -1 THEN NULL ELSE get_bucket_index(size) + 2,
             num_pages(size))

\* Mutant: the run of frames is walked downwards.
FrameToFree_down == call.phys - call.i

FrameToFree == call.phys + call.i

free_next ==
  /\ phase = "run" /\ ~halted
  /\ call.op = "free"
  /\ IF call.i < call.n
     THEN pmm_free_frame(FrameToFree) /\ call' = [call EXCEPT !.i = @ + 1]
     ELSE call' = NoCall /\ UNCHANGED physVars
  /\ UNCHANGED <<caches, kheap_initialized, live, objs, others, halted>>

\* A product that overflows returns NULL.  The zeroes written are not modelled.
kcalloc(num, size) ==
  LET total == (num * size) % SizeMod IN
  /\ total \div num = size
  /\ kmalloc(total, NULL)

\* A new size of 0 is kfree.
krealloc_keep(a, new_size) ==
  /\ Ready
  /\ new_size <= live[a].size
  /\ live' = [live EXCEPT ![a].asked = new_size]
  /\ UNCHANGED <<physVars, caches, kheap_initialized, objs, others, call, halted>>

krealloc_move(a, new_size) ==
  /\ new_size > live[a].size
  /\ kmalloc(new_size, a)

----------------------------------------------------------------------------
(* The other clients: types and hash tables create caches and use them     *)
(* directly; page tables and user code take single frames.                 *)

TypeCaches == NUM_SLAB_BUCKETS + 2 .. Len(caches)

type_cache_create(size) ==
  /\ Ready /\ kheap_initialized
  /\ Len(caches) < MaxCaches
  /\ slab_cache_create(size)
  /\ UNCHANGED <<kheap_initialized, live, objs, others, call>>

type_alloc(c) ==
  /\ Ready
  /\ Cardinality(objs) < MaxObjs
  /\ slab_alloc(caches[c])
  /\ caches' = [caches EXCEPT ![c] = Popped(@)]
  /\ objs' = IF Node(caches[c]) = NULL THEN objs ELSE objs \cup {<<c, Node(caches[c])>>}
  /\ UNCHANGED <<kheap_initialized, live, others, call>>

type_free(o) ==
  /\ Ready
  /\ objs' = objs \ {o}
  /\ slab_free(o[1], o[2])
  /\ UNCHANGED <<physVars, kheap_initialized, live, others, call, halted>>

other_alloc ==
  /\ Ready /\ kheap_initialized
  /\ Cardinality(others) < MaxOthers
  /\ pmm_alloc_frame(NextFrame)
  /\ others' = others \cup ({NextFrame} \ {NoFrame})
  /\ UNCHANGED <<caches, kheap_initialized, live, objs, call, halted>>

other_free(f) ==
  /\ Ready
  /\ pmm_free_frame(f)
  /\ others' = others \ {f}
  /\ UNCHANGED <<caches, kheap_initialized, live, objs, call, halted>>

\* mm_init before kheap_init.
BootStep ==
  /\ mm_boot_init \/ pmm_init \/ pmm_free_region \/ pmm_reserve_region
  /\ UNCHANGED <<caches, kheap_initialized, live, objs, others, call, halted>>

KHNext ==
  \/ BootStep
  \/ kheap_init
  \/ \E size \in Sizes : kmalloc(size, NULL)
  \/ \E num \in Nums, size \in Sizes : kcalloc(num, size)
  \/ kmalloc_next
  \/ krealloc_kfree
  \/ free_next
  \/ \E a \in DOMAIN live :
       \/ kfree(a)
       \/ kfree_sized(a)
       \/ \E size \in Sizes : krealloc_keep(a, size) \/ krealloc_move(a, size)
  \/ \E size \in TypeSizes : type_cache_create(size)
  \/ \E c \in TypeCaches : type_alloc(c)
  \/ \E o \in objs : type_free(o)
  \/ other_alloc
  \/ \E f \in others : other_free(f)

KHSpec == KHInit /\ [][KHNext]_heapVars

----------------------------------------------------------------------------
(* Properties.                                                             *)

SlabFrames == UNION {caches[c].slabs : c \in 1 .. Len(caches)}
RunFrames(first, n) == first .. first + n - 1

CallFrames ==
  IF call.op = "kmalloc" THEN RunFrames(call.phys, call.i)
  ELSE IF call.op = "free" THEN call.phys + call.i .. call.phys + call.n - 1
  ELSE {}

\* The bytes a block was cut out with: an object of its cache or whole frames.
Extent(a) ==
  IF live[a].cache = NULL THEN num_pages(live[a].size) * PAGE_SIZE
  ELSE caches[live[a].cache].obj_size

Piece(kind, n, k, start, len) == [who |-> <<kind, n, k>>, start |-> start, len |-> len]

\* Every piece of memory the heap gave to someone or keeps to give.
Pieces ==
  {Piece("slab", f, 0, f * PAGE_SIZE, FrameHeader) : f \in SlabFrames}
  \cup (UNION {{Piece("free", c, k, caches[c].free_objects[k], caches[c].obj_size) :
                  k \in 1 .. Len(caches[c].free_objects)} : c \in 1 .. Len(caches)})
  \cup {Piece("cache", c, 0, caches[c].at, CacheBytes) : c \in 2 .. Len(caches)}
  \cup {Piece("block", a, 0, a, Extent(a)) : a \in DOMAIN live}
  \cup {Piece("object", o[1], o[2], o[2], caches[o[1]].obj_size) : o \in objs}
  \cup {Piece("frame", f, 0, f * PAGE_SIZE, PAGE_SIZE) : f \in others \cup CallFrames}

\* Free objects, cache descriptors, heap blocks, client objects, frame headers
\* and frames of other users lie in frames that pmm_alloc_frame handed out, and
\* never overlap: whatever kmalloc, krealloc, kfree and kfree_sized do to the free
\* lists, no byte is given out twice, and none that someone else may get.
MemoryOwned ==
  LET pages(p) == p.start \div PAGE_SIZE .. (p.start + p.len - 1) \div PAGE_SIZE IN
  /\ \A p \in Pieces : pages(p) \subseteq handed
  /\ ~halted => \A p, q \in Pieces :
       p # q => p.start + p.len <= q.start \/ q.start + q.len <= p.start

\* Frames the heap took that are in no slab, large block or call, and no client's.
Lost ==
  handed \ (SlabFrames \cup others \cup CallFrames
               \cup UNION {RunFrames(a \div PAGE_SIZE, num_pages(live[a].size)) :
                             a \in {b \in DOMAIN live : live[b].cache = NULL}})

\* The heap loses track of a frame only when kfree_sized gets a size that krealloc
\* did not record in the header: otherwise kfree and kfree_sized give back
\* exactly what kmalloc took, and a panic aside no call drops a frame.
FramesAccounted ==
  [][~halted' /\ ~(Lost' \subseteq Lost) =>
       \E a \in DOMAIN live \ DOMAIN live' : live[a].asked # live[a].size]_heapVars

\* header->size is "total usable" (mm.hpp): that many bytes follow the header in
\* the memory the block was cut out with, and so do the bytes of the last size
\* that kmalloc or krealloc granted.
UsableFits ==
  \A a \in DOMAIN live :
    AllocHeader + live[a].size <= Extent(a) /\ live[a].asked <= live[a].size

\* The heap is a client the frame allocator can live with: its steps are steps
\* of PhysFrame, so that everything shown of PhysFrame holds under the heap.
ImplementsPhysFrame == Spec
=============================================================================
