# Vectra: a TLA+ verification project

Vectra is a small SMP kernel for RISC-V and arm64 written in C. This directory
holds TLA+ models of its memory management, its page tables, its object manager,
its spinlock, its traps and its timers, the TLC configurations that check them
on small instances, and TLAPS proofs of the results that hold for every
instance. `PROJECT.json` lists components, runs, the source lines behind every
definition, hazards, findings and theorems.

## 1. The system

| Component | State | Operations | Interacts with |
|---|---|---|---|
| Boot allocator, frame allocator (`base/mm/mm.c`, `bootalloc.c`, `physframe.c`) | bump pointer; bitmap, `free_frames`, `last_free_index` | `mm_init`, `mm_boot_alloc`, `pmm_init`, `pmm_free_region`, `pmm_reserve_region`, `pmm_alloc_frame`, `pmm_free_frame` | called by slab, heap and paging; no lock |
| Slab caches, kernel heap (`slab.c`, `kheap.c`) | per cache a list of free objects and a lock; eight size buckets; a header before each heap block | `slab_cache_create`, `slab_alloc`, `slab_free`, `kmalloc`, `kfree`, `kcalloc`, `krealloc`, `kfree_sized` | takes frames from the frame allocator; used by everything above |
| Object manager (`base/ob/ob.c`) | per object a header (two counters, id, generation, lock, `destroyed`); id table, next id, type table | `object_type_register`, `object_create`, `object_ref`, `object_deref`, `object_maybe_destroy` | one slab cache per type, a hash table, callbacks of the type |
| Capability table (`base/ob/cap.c`) | 4096 entries, a hint, a lock | `object_grant`, `object_close`, `cap_lookup` | raises and drops the object's counters, calls `object_maybe_destroy` |
| Spinlock (`include/sync/*.hpp`) | one word | `spin_lock`, `spin_unlock` over `atomic_*` of each architecture | used by slab caches, object manager, capability table |
| Hash table (`libkern/hash.c`) | buckets of chained nodes | insert, lookup, remove | nodes from a slab cache; the id table |
| Paging (`arch/*/paging.c`) | page tables, arm64 ASID pool | map, unmap, walk, create, destroy; `vmm_init` | table pages from the frame allocator |
| Traps, interrupts, timers, GIC (`arch/*/exceptions.S`, `interrupts.c`, `timer.c`, `platform/virt/gic.c`) | handler tables, tick counters, controller registers | trap entry, dispatch, register/enable/disable, timer tick, wait | run on top of any kernel code |
| Boot (`entry.S`, `bootstrap.c`, `kernel.c`) | per-hart info, BSS | start of the boot hart and of the others | calls every `*_init` |
| Logging, strings, UART, firmware calls, register access | none to speak of | | |

What is hard about it: the object manager keeps an object alive by two counters
that different threads change without a lock, decides on destruction in a third
place, and recycles the memory; a handle becomes visible before it is counted;
the frame allocator relies on two pieces of derived state (a count and a hint)
and the heap relies on the *order* in which frames come back; the spinlock is
built from exclusive loads and stores and puts CPUs to sleep; a trap may strike
between any two instructions, also half way through the switch to user mode, and
has to guess from one register where it came from. The memory layers
have no common lock. Nothing is persistent, and there are no messages between
machines: crash recovery and lost messages do not arise.

What makes each part correct: a frame, a heap block, an object has one owner; no
part hands out the kernel's own memory; an object lives exactly as long as it is
referenced; a handle means the same object until it is closed; the lock
excludes, and a waiter is not forgotten; a trap is invisible to the code it
strikes, and the ticks it counts are the time that passed.

## 2. The modules

| Module | Models | Built on |
|---|---|---|
| `PhysFrame` | `mm.c`, `bootalloc.c`, `physframe.c` | |
| `KHeap` | `slab.c`, `kheap.c` | extends `PhysFrame` and implements it |
| `AddrSpace` | what page tables promise: partial maps, requests that end at once | |
| `PageTableRV` | `arch/riscv/paging.c` | extends `PhysFrame`, implements `AddrSpace` |
| `PageTableA64` | `arch/arm64/paging.c` | extends `PhysFrame`, implements `AddrSpace` |
| `KeyStacks` | what the hash table promises: a stack of values per key | |
| `HashTable` | `libkern/hash.c` | implements `KeyStacks` |
| `ObjectManager` | `ob.c`, `cap.c`, and what they use of `slab.c` and `hash.c` | |
| `SpinlockSpec` | what a lock promises: one holder, an atomic acquire | |
| `SpinlockRV`, `SpinlockA64` | `atomic.hpp` over `rvlock.hpp`, `a64lock.hpp` | implement `SpinlockSpec` |
| `TrapRV` | `arch/riscv/exceptions.S`, `interrupts.c`, `timer.c`, and the program of `bootstrap.c`, `kernel.c` and `user.c` they interrupt | |
| `InterruptsA64` | `arch/arm64/exceptions.S`, `interrupts.c`, `timer.c`, `platform/virt/gic.c` | |
| `GuardedTable_proofs` | theorems about the hash table and the lock that guards it | `HashTable`, `SpinlockRV` |
| other `*_proofs` | theorems and their proofs | the module they are named after |
| `MC*` | instances for TLC | |

In each module a definition that changes state carries the name of the C
function; where a function is several steps, the later ones add a suffix
(`object_maybe_destroy_set`). `PROJECT.json` gives the lines. Definitions that
begin with the comment `Mutant:` are variations of the definition after them, as
a mistake in the code would have it; each property is refuted for at least one
of them, which shows that the property depends on that code.

### PhysFrame

A frame is an index into the bitmap; `used` is the set of bits that are 1;
`handed` is a history variable: the frames in the hands of callers. `phase`
follows `mm_init` from `mm_boot_init` to `kheap_init`, then the allocator runs.
`panic` is a phase, as `panic()` does not return. The two scans of
`pmm_alloc_frame` are `Scan`; `Saturating` is the guarded decrement of
`pmm_reserve_region`. Callers free frames they own, frames that are free
already, or addresses outside of the range; the code ignores the last two. They
do not free the kernel image: no caller does.

### ObjectManager

Threads have a program counter and a local `obj`. A step is one access to memory
that no lock protects, with the locked accesses around it. So `object_close` has
three steps (clear the entry under the table's lock; decrement; go on to
`object_maybe_destroy`), and `object_maybe_destroy` is split between its two
loads, at the store of `destroyed`, at `hashtable_remove` and at `slab_free`. A
critical section with a single unprotected access is one step; that this loses
nothing is the usual argument for a lock that excludes, and that it excludes is
what the spinlock modules show. One step is coarser: `object_create` fills in the
header (`ob.c` 58 to 64) with separate unprotected stores, and
`object_create_init` does them all. The slot is not in the id table or in the
capability table yet, so only threads that are late on a recycled slot can look
in between; its `destroyed` has been set since its first destruction and is never
reset, so they leave `object_maybe_destroy` whatever counters they load. With one
step per store the runs `objects_up`, `objects_smp` and `objects_race` end as
they do now. Memory is sequentially consistent in the model;
the code asks for acquire and release order only, so behaviours that need weaker
memory are not covered.

One object type is modelled: types share the id table only, which maps ids that
are distinct across types, and the table of types does not change after boot. A
slab cache is the set of its free slots, any of which `slab_alloc` may return;
the free list's link overwrites the first eight bytes of the header, which is
why `slab_free` zeroes `refcount`, as every address is below 4 GB. The id table
is a sequence, newest first, which is the order of one chain.

`held` is a history variable: the references each thread owns. A caller uses an
object only while it owns a reference, and closes or looks up any handle. When
the code destroys an object that a thread still owns, that thread's next call
works on a freed header: `wild` is then set and the model stops, for what such a
call does to a free list is not worth following.

On RISC-V `atomic_store_release` (`rvlock.hpp`) stores 0 whatever it is asked to
store, so `next_free_hint` is always 0 there; `StoreKeepsValue` selects between
the two. Both keep every property; on RISC-V each grant scans from entry 0.

### Spinlock

`SpinlockSpec` has a state per thread (out, waiting, in) and an acquire that
requires nobody in. `SpinlockRV` has the atomic swap, the polling read and the
release. `SpinlockA64` has the exclusive pair with its monitor, `wfe` with the
event register, and `sev`; the rules for those are the architecture's
(`external` in the map). The refinement mapping sends the internal states of a
waiting CPU to "waiting".

### KHeap

Memory is byte addresses counted from `kernel_image_start`. A cache is its list
of free objects, in order, and its object size; `Carve` is the loop of
`slab_grow`. A live heap block has the size in its header, the size its owner
may use, and the cache it must go back to, or none for a run of frames. A call
that asks for one frame after the other (`kmalloc` of a large block, `kfree` of
one, `krealloc` that moves) takes one step per frame, with the loop's variables
in `call`, so that each step of `KHeap` is one step of `PhysFrame`. Sizes are
taken modulo `SizeMod`, 2^64 in the code. `halted` is a panic of the heap
itself. The heap is modelled for one CPU: the frame allocator has no lock and
only the boot CPU runs it. `kfree_sized` is given the size its client last asked
for, which after a `krealloc` that kept the block is not the size in the header.

### AddrSpace, PageTableRV, PageTableA64

`AddrSpace` has the map of each space and the request in progress. A request
ends by changing the one entry it is about, or by failing and changing nothing.

Both table modules work on page numbers; a frame that is a table is a function
from indices to entries. A walk goes down one level per step, in which it may
allocate a table. In `PageTableRV`, `vmm_init` runs its three loops through the
same walk, and `addr` is the loop's variable; memory may run out at any of its
steps, by the frames that `kheap_init` and others took. The kernel's own table
is not a frame (`ROOT`). In `PageTableA64` the stack of the recursive
`free_table_recursive` is in `call`, and its frames go back one at a time. The
entries that the MMU caches are the set `tlb`; the hardware fills it between any
two steps, and `tlbi` removes from it. `retired` is a history variable: the
ASIDs that were given back. Nobody uses a space that is being destroyed; that is
the callers' duty (there are none yet).

### HashTable

Nodes have `key`, `value` and `next`, and keep them when they are given back. A
call is one step, because callers hold the lock of the table. `hash_u64` is any
function from keys to buckets. `slab_alloc` is taken to return a node: on
exhausted memory it returns NULL and the insertion would write through it.

### TrapRV

The boot hart from `interrupts_init` to the user's program. `pc` is the step the
program does next; the C functions are steps of their own only where an
interrupt in between matters, `enter_usermode` is taken apart almost into its
instructions. The hardware's part (external in the map) is that an interrupt
which is pending and not masked comes before the next instruction, that a trap
saves `pc`, mode and interrupt enable bit, and which pages can be fetched or
written under which table. `trap_vector` is one step up to the call of the
handler, as nothing can interrupt it; the handler is two, because the clock and
the IPIs of other harts go on under it, and the return is one.

A page table is told apart by whose it is: `bare` (paging is off), `kernel`,
`user`, or another value that `enter_usermode` computed from a register it no
longer owned. Of the registers the model keeps the stack pointer and t0, t1, t2,
the ones that the entry path uses before it stores them, and one for all the
others. `shadow` is a history variable: the registers as they would be if there
were no traps. `hit` records that a trap struck inside `enter_usermode` after its
`csrw sscratch`. `halted` is a hart in `halt()` or in `panic`; `wedged` is one
whose trap entry faults for ever.

The branch after the handler tests a constant, so control always goes to
`to_kernel_mode`; `to_user_mode` cannot be reached and is not in the model. A
user program that was interrupted therefore returns to user mode under the
kernel's table, where its first fetch faults: `Fetches`.

### InterruptsA64

The vector table as the assembler lays it out: the entries are as far apart as
the macro is long, rounded up to its alignment, and the core enters at the
offsets of the architecture. The GIC driver is the enabled and the active
interrupts and the set of registered handlers; reading the acknowledge register
makes an interrupt active, writing the id back ends it, and an id of 1023 is
spurious. The timer has its two control bits and whether its count has run out.
`boot_main` has its call of `timer_init` commented out; the model lets the
kernel make it, and the drivers' other calls, whenever it runs.

## 3. The runs

Runs that pass:

| Run | Question | States |
|---|---|---|
| `physframe` | Do bitmap, count and hint agree under every order of allocations and frees? Is the image safe, and the lowest frame first? | 388 |
| `heap` | Do blocks, free objects and cache descriptors ever overlap, or lie in a frame that was given back? Is the block as large as its header says? Does the heap give back exactly the frames it took? | 319 k |
| `paging_rv` | Are the tables a tree whose nodes can be reached after paging is on, and does a mapping do what it says, also when a walk fails half way? | 8 k |
| `paging_a64` | The same for several roots with ASIDs: does a failed create or a destroy leave anything behind, and is the TLB coherent? | 111 k |
| `hashtable` | Do the pointer lists implement a stack per key, and does a lookup find its top? | 2 k |
| `objects_smp` | With two threads: no double destruction, none lost, exact id table, no lock left taken, stable handles. | 1.1 M |
| `objects_up` | With one thread: references and handles never dangle, and what is unused is freed. | 28 k |
| `trap_rv` | Is what a trap returns to intact, can a trap always be taken, do ticks count the time, does `timer_wait` wait long enough and end, does an IPI stop the hart? | 149 k |
| `spinlock_rv`, `spinlock_a64` | Exclusion, refinement of the abstract lock, progress, no lost wake-up. | 496, 4 k |

Runs that end in a counterexample, each a place where the code does something
other than a comment or message beside it says (`findings` in `PROJECT.json`
quotes the lines):

| Run | Shows |
|---|---|
| `objects_race` | with two threads an object is destroyed while a reference is held: the two counters are loaded one after the other |
| `irq_a64` | a synchronous exception enters the vector table at the entry of type FIQ, and an interrupt in the middle of one: the entries are 256 bytes apart, not 128 |

Met while modelling, with no run of their own:

* `pmm_init` and `pmm_free_region` both count every frame, so `free_frames` is
  too high by their number and the out-of-memory panic cannot fire;
  `pmm_alloc_frame` returns 0. `CountDrift` is this fact, proved;
  `ExhaustionIsSeen` in `PhysFrame` is what the panic's message says, and fails
  when it is added to `MCPhysFrame.cfg`.
* `object_create` does not reset `destroyed` in recycled memory, and the new
  object is never freed. `UnusedIsFreed` is stated for objects in fresh memory;
  `EveryUnusedIsFreed` is it without that condition, and fails when it is added
  to `MCObjectManager_up.cfg`.
* A trap inside `enter_usermode`, or from the user's program, is never recovered
  from: see `TrapRV`. `WedgedOnlyByWindow` and `ResumedIntact` say how far the
  damage goes. An IPI that arrives between a trap and the handler's write to
  `sip` is lost, which is the exception in `IpiHalts`.
* On arm64 `timer_handler` masks the timer and nothing unmasks it, so there is
  one tick at most; and `kernel_main` calls `timer_wait(2330)` on a machine
  whose timer was never started. `gic_disable_interrupts` writes to the registers
  that enable. `gic_handlers` has 255 entries, and ids up to 1021 index it.
* The managed range starts at the kernel image and is as long as the whole RAM,
  so on RISC-V its last 2 MB are not RAM; `PageTableRV` has `RamFrames` for that
  reason, and `KernelMapped` speaks of the RAM only.
* The boot stacks lie in the managed range and are not reserved.
* `kmalloc` does not check the sum of a size and the header: for a size within a
  header of 2^64 it wraps, and `header->size` is larger than the block. The
  proofs about the heap have the hypothesis `NoWrap`.
* `__rodata_end` is not page aligned in `arch/riscv/link.ld`, so the page that
  holds the end of `.rodata` and the start of `.data` is mapped without write
  permission (the first case of `KernelMapped`).
* The comment on the ASID pool says that there is no recycling; `asid_free`
  recycles, and `arch_pagetable_destroy` does not invalidate the TLB, so
  `TlbCoherent` is stated for ASIDs that are used for the first time.
* With two threads `NoLateAccess` fails: one that dropped a count goes on to
  lock an object which the other has freed meanwhile. It holds on one CPU.
* Ids wrap to the reserved 0 after 2^32 creations.

**Bounds.** `physframe` has ten frames and an image that ends inside the second.
Frames are told apart by order only, so free frames below, at and above the
hint, and full memory, are all there is to reach. `heap` has six frames of eight
bytes, two buckets, sizes in the smaller bucket, of a whole frame less its
header and of two frames, and a type cache of each kind of object size (several
per frame; too large for a frame): blocks from both buckets and from whole
frames, growth of a cache, exhausted memory and a run with a hole all occur.
`paging_rv` has three levels of four entries (64 pages) and a kernel that starts
in the middle of a table, so that the loops of `vmm_init` cross from one table
into the next, and others may take any number of the frames before or after it,
which makes each allocation the one that fails. `paging_a64` has three levels of
two entries, two ASIDs for three roots and four frames, so that walks fail and
both paths of a failed create occur, and one entry in the TLB: coherence is a
statement about each entry alone. `hashtable` has three nodes, enough for head,
middle and end of a list, and a pair of keys that collide. `objects_*` has two
threads, two slots and two handles: a slot is reused while a thread is late on
it, and the table is full; counters and ids are taken modulo 16, above what the
bounds let them reach. `trap_rv` waits for two ticks of three time units with the
clock running up to 16, so that a wait begins in every phase of a period,
interrupts are more than a period late and several ticks are due at once; before
the wait the clock stops at 4, by when more than a period may have passed.
Spinlocks have four CPUs (RISC-V) and three (arm64).
Symmetry is used for nodes, roots, threads and slots, in runs without liveness only.

**Deadlock** is not checked where the system may stop: after a panic, or where
the bounds leave nothing to do.

**Fairness.** `ObjectManager`: weak fairness of the steps inside a call, for a
thread in the kernel keeps running (nothing preempts it for good); no fairness
of starting a call. `TrapRV`: weak fairness of the clock,
of interrupts that are due, of a trap that is being handled and of the program;
a hart executes whatever it is given next. Nothing says that an IPI is sent. As
the clock stops at its bound, `WaitEnds` does not speak of a hart that is kept
busy by timer interrupts alone, which needs a handler that takes longer than a
period. Spinlocks: weak fairness of the steps of `spin_lock` and
`spin_unlock` of each CPU; nobody is obliged to want the lock. On arm64 the
exclusive store is strongly fair: the architecture does not promise that a given
`stxr` succeeds, only that a loop of this form makes progress. The liveness
property of the locks is that of the lock, not of a CPU: these locks are not
fair, and a CPU may starve.

## 4. The proofs

All proofs are checked by TLAPS, from the named assumptions on constants in the
modules (sizes are positive, the bitmap has a bit for every frame, the image
lies in the managed range, the buckets of the heap start at a positive size and
grow, a cache descriptor fits into a frame, the RAM and the pages of clients lie
where `vmm_init` and its callers put them). TLC evaluates every one of them.

* **PhysFrame** (`PhysFrame_proofs`). The invariant `IInv` adds to the
  properties that during boot the state is what the last step left (`BootInv`),
  that no reserved frame is handed out, and that the count is exactly the number
  of free frames plus the total (`CountDrift`): neither the guard nor the
  partition is inductive without it. Proved: type correctness, `Partition`,
  `ImageSafe`, `HintTight`, that the out-of-memory panic never strikes while a
  frame is free (`GuardNeverRefuses`), and `LowestFirst` as an action property,
  for every number and size of frames and every image.
* **KHeap** (`KHeap_proofs`). `HeapInv` says that large blocks, the call in
  progress and the other users own disjoint sets of frames, all handed out
  (`Owned`), that headers are consistent with their cache (`LiveOK`), and what
  the loop variables of a call mean (`CallOK`). Under the hypothesis `NoWrap`
  (no requested size wraps when the header is added) every step of the heap is a
  step of `PhysFrame` (`HeapImplementsPhysFrame`), so the theorems about
  `PhysFrame` hold with the heap on top: the heap keeps the callers' contract
  that `PhysFrame` assumes.
  `MemInv` then goes down to bytes. `OneOwner` states `MemoryOwned` byte by byte
  (each byte of a piece is in one piece only and in a frame that was handed
  out), and also after a panic; `CachesOK` says which bucket each cache and each
  block belongs to. The argument is one idea, `Replace`: a step takes pieces away
  and puts pieces in their place that hold no byte the old ones did not
  (`Cut`), which leaves every other piece apart. `Carve` of a fresh frame, a pop
  and a push of a free list, the joining of frames into a large block and its
  return frame by frame, and a block that `kfree_sized` puts on the list of a
  smaller bucket are instances of it. Proved: `MemoryOwned`
  (`NoByteHasTwoOwners`), `UsableFits` (`GrantedSizesFit`) and, from the same
  invariant, the action property `FramesAccounted` (`FramesStayAccounted`), for
  every number of frames, buckets, caches and blocks.
* **ObjectManager** (`ObjectManager_proofs`). `TypeOK`; then `SafeInv`: a thread
  that destroys has set `destroyed` and is the only one to (`DyingMarked`,
  `SetUnmarked`), the lock's section is exclusive, and a slot in creation is
  known to its creator only (`FreshUnknown`). This gives `NoDoubleFree` and
  `LockHasHolder` for any number of threads, in spite of the races that the
  violation runs show, and `HandlesStable` as an action property.
  `IdInv` adds that live objects have distinct ids below the next one and when
  each is in the table: `IdTableExact` holds as long as `next_object_id` does not
  wrap (`NoIdWrap`, a hypothesis the theorem needs: after a wrap the ids are no
  longer distinct). `LiveInv` adds that `refcount` is the number of references
  that threads hold (`RefsCounted`) and that a live object with two counters at
  0 has a thread on its way to destroy it (`LiveDecided`): `NoLostDestruction`,
  for any number of threads, while the references fit the counter (`RefsFit`).
  On one CPU `OneInv` makes both counters exact up to what the call in progress
  still owes, which gives `RefsAlive` and `NoLateAccess` there, where no wrap of
  the counters is possible (`MaxHeld` and `CAP_TABLE_MAX` below `CountMod`); on
  several CPUs `RefsAlive` fails, as the run `objects_race` shows.
* **PageTableRV** (`PageTableRV_proofs`). `RVInv` adds to `TableTree` that the
  pointers of a walk in progress still lead where a walk from the root would
  (`CallPath`), how far `vmm_init` has come and with which flags (`Covered`,
  `RightCall`, `LoopBounds`), and that table frames are handed out and not the
  clients'. Proved: `TableTree`, `KernelMapped` and the refinement of `AddrSpace`,
  for every number of entries, frames and pages. `LayoutAssumption` says that
  the RAM fits the three levels, that the UART lies below it, and that clients
  map pages outside the RAM: with a client that maps over the kernel
  `KernelMapped` is false.
* **PageTableA64** (`PageTableA64_proofs`). `AsidInv` adds to `AsidsExclusive`
  that ASIDs are in the pool's range and that a root in creation does not exist
  yet and one in destruction still does. `A64Inv` adds the shape of the tables:
  there are functions that give each table its root, its level and a page whose
  walk passes through it, such that no two tables have the same place, every
  entry of an upper level leads one level down on the way of its index, and
  every table below level 0 hangs from such an entry (`Forest`). While
  `free_table_recursive` runs, the entries it has passed still hold the
  addresses of frames that may by now be tables of another kind; they are
  excluded by the positions of the calls on its stack (`Stale`), and the stack is
  a path from the root. `TablesAccounted` is not inductive without this: it says
  nothing during a call, when a new table is not linked yet or half a tree is
  gone. What `LastTable` and `Reached` compute in terms of the places follows by
  induction over the levels, in the form that the least element of a set of
  levels gives (`UpTo`), so the theorems hold for every number of levels. Each
  action then either keeps every translation (`MapKept`) or writes the one it
  was called for (`MapWritten`), and three theorems follow: `TablesAccounted`
  (`TablesAreAccounted`), `TlbCoherent` (`TlbIsCoherent`, with the addition that
  a cached ASID is in use or was given back) and the refinement of `AddrSpace`
  (`PagesImplementAddrSpace`). `A64Assumption` says that callers map pages of
  the virtual address space: `level_index` drops the bits above it, and the code
  does not check. `PowerAssumption` states the laws of exponents that the
  provers do not know.
* **TrapRV** (`TrapRV_proofs`). `IInv` says where the program can be and where a
  trap or `sret` returns to (`Flow`), that `stimecmp` is the end of the period
  that `global_ticks` is in (`Clock`), in which period `timer_wait` began
  (`Waiting`), what the registers and the stored frame hold at each step
  (`Context`), and how much better that is while no trap has struck inside
  `enter_usermode` (`Unhit`). None of the four properties is inductive without
  these: a frame is stored in one step and put back four steps later, and the
  ticks are compared with the time only through `stimecmp`. Proved:
  `ResumedIntact`, `WedgedOnlyByWindow`, `TicksExact` and `WaitIsLong`, for every
  period, every wait and every moment at which traps strike.
* **Spinlocks** (`GuardedTable_proofs` for RISC-V, `SpinlockA64_proofs`).
  Exclusion for any number of CPUs, the refinement of `SpinlockSpec`, and for
  arm64 that no wake-up is lost.
* **HashTable** (`GuardedTable_proofs`). `ListsExact` says where the nodes are
  now; that it stays so needs `HashInv`, in which the lists are functions from
  positions to nodes (`Shape`): a list that has ended has ended, no node is in
  two places, and what is in no list is in the cache. `Nth` is a recursive
  function, and `Follows` is what it is to follow the pointers; that there is
  exactly one way to do it (`FollowsExists`, `FollowsUnique`) is an induction over
  positions, done with least elements as in `PageTableA64_proofs`. A step is
  then shown by naming the list it leads to: the old one with a node before it
  (`Pushed`), or without one position (`Cut`), whether the code overwrites the
  bucket or the `next` of a node. That a position is left for the new node is a
  pigeonhole argument (`RoomLeft`). For the stacks, the positions of a key have
  one increasing order (`OrderedUnique`), and both steps move them without
  changing it. Proved: `ListsExact` and the refinement of `KeyStacks`, for every
  hash function and any number of keys, buckets and nodes. The only assumption
  is that the nodes are finitely many.

Only model-checked:

* liveness (`UnusedIsFreed`, `LockProgress`, `WaitEnds`, `IpiHalts`), which TLAPS
  does not do;
* `InterruptsA64`: its run shows a disagreement with the code's comments, and
  there is no theorem about it.

## 5. What is not modelled

* The page table of the user process: it is an automatic array that nothing
  clears, and `vmm_walk` follows whatever entries it finds there. `TrapRV` takes
  it to have the three mappings that `create_user_process` asks for.
* Secondary harts: the loop that would start them has the bound `hart < 0`. What
  they would run, an IPI to all and a line of log under a lock, is the `Ipi` of
  `TrapRV` and the spinlock.
* `object_type_register`'s table of 64 types (its slab cache is in `KHeap`), and
  `object_test`, a fixed sequence of calls of the object manager.
* Interrupt priorities, groups and `gic_clear_pending`: with a single source of
  interrupts they decide nothing.
* Register accessors, firmware calls, strings, UARTs: no state of their own.
* Logging: it formats to the UART and no other part reads what it does. Lines of
  two CPUs may mix, as `klog` takes no lock. `put_signed` takes an `int`, so that
  `%d` of a 64-bit value (`timer_init` logs one) prints its low half.
* Weak memory: all modules are sequentially consistent.
* The frame allocator on several CPUs: it has no lock, and only the boot CPU
  runs.

## 6. Plan

Done, in this order: frames, objects and handles, spinlocks, heap, page tables,
hash table, traps and timers; every safety property that a passing run checks has
its theorem. To come:

1. When the code gets there: the boot of several harts with the frame allocator
   shared between them, and `create_user_process` with a table that is cleared,
   on `PageTableRV`.
