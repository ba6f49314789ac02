-------------------------- MODULE PhysFrame_proofs --------------------------
(* Proofs about PhysFrame: its safety invariants and LowestFirst, for every *)
(* number of frames and every size of the kernel image.                     *)
EXTENDS PhysFrame, TLAPS, FiniteSetTheorems, WellFoundedInduction

----------------------------------------------------------------------------
(* The inductive invariant.                                                *)

\* While mm_init runs nothing is handed out and the bitmap is all set, then
\* all clear; free_frames already counts every frame twice.
BootInv ==
  /\ phase \notin {"run"} => handed = {} /\ last_free_index = 0
  /\ phase = "all_used" => used = Frames /\ free_frames = TotalFrames
  /\ phase = "all_free" => used = {} /\ free_frames = 2 * TotalFrames

\* Frames that were handed out are not the kernel's.
NotReserved == handed \cap Reserved = {}

\* free_frames is what is free plus the total, counted once too often.
CountDrift == phase = "run" => free_frames = TotalFrames + Cardinality(Free)

IInv == TypeOK /\ BootInv /\ NotReserved /\ Partition /\ CountDrift /\ HintTight

----------------------------------------------------------------------------
(* Lemmas.                                                                 *)

\* Every nonempty set of indices has a least element, and Min returns it.
LEMMA MinIsLeast ==
  ASSUME NEW S \in SUBSET Nat, S # {}
  PROVE  Min(S) \in S /\ \A x \in S : Min(S) <= x
<1> DEFINE Less == OpToRel(<, Nat)
<1>1. \E m \in S : \A x \in S : ~ (<<x, m>> \in Less)
  <2>1. IsWellFoundedOn(Less, Nat)
    BY NatLessThanWellFounded
  <2> HIDE DEF Less
  <2> QED BY <2>1, WFMin
<1>2. \A x, m \in S : x < m => <<x, m>> \in Less
  BY DEF OpToRel
<1>3. \E m \in S : \A x \in S : m <= x
  <2> HIDE DEF Less
  <2>1. PICK m \in S : \A x \in S : ~ (<<x, m>> \in Less)
    BY <1>1
  <2>2. \A x \in S : m <= x
    <3> TAKE x \in S
    <3>1. ~ (x < m)
      BY <2>1, <1>2, Zenon
    <3> QED BY <3>1
  <2> QED BY <2>2
<1> QED BY <1>3 DEF Min

\* The reservation covers the image: its frames, whole or partial, end at or
\* after the image's last byte, and lie in the managed range.
LEMMA ReserveCountType ==
  /\ ReserveCount \in 1 .. TotalFrames
  /\ ReserveCount * PAGE_SIZE >= KernBytes
  /\ Reserved \subseteq Frames
<1> DEFINE P == PAGE_SIZE
           q == (KernBytes + P - 1) \div P
<1>1. /\ P \in Nat \ {0} /\ TotalFrames \in Nat \ {0}
      /\ KernBytes \in Nat /\ KernBytes >= 1 /\ KernBytes <= TotalFrames * P
  BY SizeAssumption
<1>2. /\ q \in Int
      /\ q * P <= KernBytes + P - 1
      /\ KernBytes + P - 1 < q * P + P
  BY <1>1, SMT
<1>3. q * P >= KernBytes
  <2> HIDE DEF P, q
  <2> QED BY <1>1, <1>2, SMT
<1>4. (q * P) \div P = q
  <2> HIDE DEF q
  <2> QED BY <1>1, <1>2, SMT
<1>5. ReserveCount = q
  BY <1>4 DEF ReserveCount, ALIGN_UP
<1>6. q >= 1
  <2> HIDE DEF q, P
  <2> QED BY <1>1, <1>2, <1>3, SMT
<1>7. q <= TotalFrames
  <2> HIDE DEF q, P
  <2>1. SUFFICES ASSUME q >= TotalFrames + 1 PROVE FALSE
    BY <1>1, <1>2
  <2>2. q * P >= (TotalFrames + 1) * P
    BY <1>1, <1>2, <2>1
  <2>3. (TotalFrames + 1) * P = TotalFrames * P + P
    BY <1>1
  <2> QED BY <1>1, <1>2, <2>2, <2>3
<1> QED
  <2> HIDE DEF q, P
  <2>1. ReserveCount \in 1 .. TotalFrames
    BY <1>1, <1>2, <1>5, <1>6, <1>7
  <2>2. ReserveCount * PAGE_SIZE >= KernBytes
    BY <1>3, <1>5 DEF P
  <2>3. Reserved \subseteq Frames
    BY <2>1, <1>1 DEF Reserved, Frames
  <2> QED BY <2>1, <2>2, <2>3

\* The bitmap has finitely many frames, TotalFrames of them.
LEMMA FramesFinite ==
  /\ IsFiniteSet(Frames)
  /\ Cardinality(Frames) = TotalFrames
  /\ \A S \in SUBSET Frames : IsFiniteSet(S) /\ Cardinality(S) \in 0 .. TotalFrames
<1>1. TotalFrames \in Nat \ {0}
  BY SizeAssumption
<1>2. /\ IsFiniteSet(0 .. TotalFrames - 1)
      /\ Cardinality(0 .. TotalFrames - 1) = TotalFrames
  BY <1>1, FS_Interval
<1>3. ASSUME NEW S \in SUBSET Frames
      PROVE  IsFiniteSet(S) /\ Cardinality(S) \in 0 .. TotalFrames
  <2>1. /\ IsFiniteSet(S) /\ Cardinality(S) <= Cardinality(Frames)
    BY <1>2, FS_Subset DEF Frames
  <2>2. Cardinality(S) \in Nat
    BY <2>1, FS_CardinalityType
  <2> QED BY <1>1, <1>2, <2>1, <2>2 DEF Frames
<1> QED BY <1>2, <1>3 DEF Frames

\* The scan returns the lowest free frame, or NoFrame when none is free: with
\* a tight hint its second loop never matters.
LEMMA ScanIsLowest ==
  ASSUME TypeOK, \A i \in Free : last_free_index <= i
  PROVE  /\ Free = {} => Scan = NoFrame
         /\ Free # {} => Scan \in Free /\ \A j \in Free : Scan <= j
<1> DEFINE ahead  == {i \in last_free_index .. TotalFrames - 1 : i \notin used}
           behind == {i \in 0 .. last_free_index - 1 : i \notin used}
<1>1. TotalFrames \in Nat /\ last_free_index \in 0 .. TotalFrames
  BY SizeAssumption DEF TypeOK
<1>2. ahead = Free
  BY <1>1 DEF Free, Frames
<1>3. behind = {}
  BY <1>1 DEF Free, Frames
<1>4. Free \in SUBSET Nat
  BY <1>1 DEF Free, Frames
<1>5. Scan = IF ahead # {} THEN Min(ahead)
             ELSE IF behind # {} THEN Min(behind) ELSE NoFrame
  BY DEF Scan
<1> HIDE DEF ahead, behind
<1>6. CASE Free = {}
  BY <1>2, <1>3, <1>5, <1>6
<1>7. CASE Free # {}
  <2>1. Scan = Min(Free)
    BY <1>2, <1>5, <1>7
  <2> QED BY <2>1, <1>4, <1>7, MinIsLeast
<1> QED BY <1>6, <1>7

\* An allocation is a step of the allocator; it hands out nothing or a frame that was
\* not handed out.
LEMMA AllocFacts ==
  ASSUME IInv, phase = "run", pmm_alloc_frame(NextFrame)
  PROVE  /\ NextFrame \in Frames \cup {NoFrame}
         /\ NextFrame \notin handed
         /\ handed' = handed \cup ({NextFrame} \ {NoFrame})
         /\ Next
<1>1. TypeOK /\ Partition /\ HintTight
  BY DEF IInv
<1>2. \A i \in Free : last_free_index <= i
  BY <1>1 DEF HintTight
<1>3. /\ Free = {} => Scan = NoFrame
      /\ Free # {} => Scan \in Free
  BY <1>1, <1>2, ScanIsLowest
<1>4. handed \subseteq used /\ handed \subseteq Frames /\ Free \subseteq Frames
  BY <1>1 DEF Partition, TypeOK, Free
<1>5. NoFrame \notin Frames
  BY SizeAssumption DEF NoFrame, Frames
<1>6. NextFrame \in Free \cup {NoFrame}
  BY <1>3 DEF NextFrame
<1>7. handed' = handed \cup ({NextFrame} \ {NoFrame})
  BY <1>4, <1>5, <1>6 DEF pmm_alloc_frame, NextFrame, TakeFrame, pmmVars
<1> QED BY <1>4, <1>5, <1>6, <1>7 DEF Next, Free

----------------------------------------------------------------------------
(* IInv is inductive.                                                      *)

LEMMA InitIInv == Init => IInv
<1>1. TotalFrames \in Nat
  BY SizeAssumption
<1> QED
  BY <1>1 DEF Init, IInv, TypeOK, BootInv, NotReserved, Partition, CountDrift,
       HintTight, Phases

LEMMA BootSteps ==
  ASSUME IInv, mm_boot_init \/ pmm_init
  PROVE  IInv'
<1>1. TotalFrames \in Nat
  BY SizeAssumption
<1>2. boot_heap_ptr' \in Nat
  <2>1. ALIGN_UP(bitmap_size, 16) \in Nat
    <3>1. TotalFrames \div BITMAP_BIT_SIZE \in Nat
      BY SizeAssumption, SMT
    <3>2. bitmap_size \in Nat
      BY <3>1, SMT DEF bitmap_size, ALIGN_UP
    <3> HIDE DEF bitmap_size
    <3> QED BY <3>2, SMT DEF ALIGN_UP
  <2> QED BY <2>1 DEF mm_boot_init, pmm_init, mm_boot_alloc, IInv, TypeOK
<1>3. CASE mm_boot_init
  BY <1>1, <1>2, <1>3 DEF IInv, TypeOK, BootInv, NotReserved, Partition,
       CountDrift, HintTight, Phases, mm_boot_init, pmmVars
<1>4. CASE pmm_init
  BY <1>1, <1>2, <1>4 DEF IInv, TypeOK, BootInv, NotReserved, Partition,
       CountDrift, HintTight, Phases, pmm_init
<1> QED BY <1>3, <1>4

LEMMA FreeRegionStep ==
  ASSUME IInv, pmm_free_region
  PROVE  IInv'
<1>1. TotalFrames \in Nat
  BY SizeAssumption
<1>2. used = Frames /\ free_frames = TotalFrames /\ handed = {} /\ last_free_index = 0
  BY DEF IInv, BootInv, pmm_free_region
<1>3. used' = {} /\ free_frames' = 2 * TotalFrames
  <2>1. used \cap Frames = Frames
    BY <1>2
  <2> QED BY <1>1, <1>2, <2>1, FramesFinite DEF pmm_free_region
<1> QED
  BY <1>1, <1>2, <1>3 DEF IInv, TypeOK, BootInv, NotReserved, Partition,
       CountDrift, HintTight, Phases, pmm_free_region

LEMMA ReserveStep ==
  ASSUME IInv, pmm_reserve_region
  PROVE  IInv'
<1>1. TotalFrames \in Nat \ {0}
  BY SizeAssumption
<1>2. used = {} /\ free_frames = 2 * TotalFrames /\ handed = {} /\ last_free_index = 0
  BY DEF IInv, BootInv, pmm_reserve_region
<1>3. used' = Reserved /\ handed' = {} /\ last_free_index' = 0 /\ phase' = "run"
  BY <1>2 DEF pmm_reserve_region
<1>4. /\ Cardinality(Reserved) \in 0 .. TotalFrames
      /\ Cardinality(Free') = TotalFrames - Cardinality(Reserved)
  <2>1. Reserved \in SUBSET Frames
    BY ReserveCountType
  <2>2. Cardinality(Frames \ Reserved) = Cardinality(Frames) - Cardinality(Frames \cap Reserved)
    BY FramesFinite, FS_Difference
  <2>3. Frames \cap Reserved = Reserved
    BY <2>1
  <2> QED BY <2>1, <2>2, <2>3, <1>3, FramesFinite DEF Free
<1>5. free_frames' = 2 * TotalFrames - Cardinality(Reserved)
  <2>1. Reserved \ used = Reserved
    BY <1>2
  <2> QED BY <2>1, <1>1, <1>2, <1>4 DEF pmm_reserve_region, Saturating
<1>6. TypeOK'
  BY <1>1, <1>3, <1>4, <1>5, ReserveCountType DEF IInv, TypeOK, Phases, pmm_reserve_region
<1>7. CountDrift'
  BY <1>1, <1>4, <1>5 DEF CountDrift
<1>8. HintTight'
  BY <1>1, <1>3 DEF HintTight, Free, Frames
<1> QED
  BY <1>3, <1>6, <1>7, <1>8 DEF IInv, BootInv, NotReserved, Partition

LEMMA AllocStep ==
  ASSUME IInv, NEW ret \in Frames \cup {NoFrame}, pmm_alloc_frame(ret)
  PROVE  IInv'
<1>1. TotalFrames \in Nat \ {0}
  BY SizeAssumption
<1>2. phase = "run" /\ TypeOK /\ \A i \in Free : last_free_index <= i
  BY DEF pmm_alloc_frame, IInv, HintTight
<1>3. Free \in SUBSET Frames /\ Cardinality(Free) \in Nat /\ IsFiniteSet(Free)
  BY FramesFinite DEF Free
<1>4. free_frames = TotalFrames + Cardinality(Free) /\ free_frames # 0
  BY <1>1, <1>2, <1>3 DEF IInv, CountDrift
<1>5. /\ phase' = "run" /\ ret = Scan /\ UNCHANGED boot_heap_ptr
      /\ IF ret = NoFrame THEN UNCHANGED pmmVars ELSE TakeFrame(ret)
  BY <1>2, <1>4 DEF pmm_alloc_frame
<1>6. CASE ret = NoFrame
  BY <1>2, <1>5, <1>6 DEF IInv, TypeOK, BootInv, NotReserved, Partition,
       CountDrift, HintTight, Free, pmmVars
<1>7. CASE ret # NoFrame
  <2>1. TakeFrame(ret) /\ ret \in Free /\ \A j \in Free : ret <= j
    BY <1>2, <1>5, <1>7, ScanIsLowest
  <2>2. ret \in 0 .. TotalFrames - 1 /\ ret \notin used
    BY <2>1 DEF Free, Frames
  <2>3. Free' = Free \ {ret} /\ Cardinality(Free') = Cardinality(Free) - 1
    <3>1. Free' = Free \ {ret}
      BY <2>1 DEF Free, TakeFrame
    <3> QED BY <3>1, <1>3, <2>1, FS_RemoveElement
  <2>4. TypeOK'
    BY <1>1, <1>2, <1>3, <1>4, <1>5, <2>1, <2>2 DEF TypeOK, TakeFrame, Frames, Phases
  <2>5. NotReserved'
    BY <1>2, <2>1, <2>2 DEF IInv, NotReserved, Partition, TakeFrame
  <2>6. Partition'
    BY <1>2, <2>1 DEF IInv, Partition, TakeFrame
  <2>7. CountDrift'
    BY <1>1, <1>3, <1>4, <2>1, <2>3 DEF CountDrift, TakeFrame
  <2>8. HintTight'
    <3>1. \A j \in Free' : ret + 1 <= j
      BY <2>1, <2>2, <2>3, <1>1 DEF Free, Frames
    <3> QED BY <3>1, <2>1 DEF HintTight, TakeFrame
  <2> QED BY <1>5, <2>4, <2>5, <2>6, <2>7, <2>8 DEF IInv, BootInv
<1> QED BY <1>6, <1>7

LEMMA FreeStep ==
  ASSUME IInv, NEW i \in Freeable, pmm_free_frame(i)
  PROVE  IInv'
<1>1. TotalFrames \in Nat \ {0}
  BY SizeAssumption
<1>2. phase = "run" /\ TypeOK /\ phase' = "run"
  BY DEF pmm_free_frame, IInv
<1>3. CASE ~ (i \in Frames /\ i \in used)
  BY <1>3 DEF IInv, TypeOK, BootInv, NotReserved, Partition, CountDrift,
       HintTight, Free, pmmVars, pmm_free_frame
<1>4. CASE i \in Frames /\ i \in used
  <2>1. /\ used' = used \ {i} /\ free_frames' = free_frames + 1
        /\ last_free_index' = LowerHint(i) /\ handed' = handed \ {i}
        /\ boot_heap_ptr' = boot_heap_ptr
    BY <1>4 DEF pmm_free_frame, CountFreed
  <2>2. i \in handed
    BY <1>4 DEF Freeable
  <2>3. i \notin Free /\ Free' = Free \cup {i}
    BY <1>4, <2>1 DEF Free
  <2>4. Cardinality(Free') = Cardinality(Free) + 1 /\ Cardinality(Free) \in Nat
    <3>1. Free \in SUBSET Frames
      BY DEF Free
    <3>2. IsFiniteSet(Free) /\ Cardinality(Free) \in Nat
      BY <3>1, FramesFinite
    <3> QED BY <2>3, <3>2, FS_AddElement
  <2>5. TypeOK'
    BY <1>1, <1>2, <1>4, <2>1 DEF TypeOK, LowerHint, Frames
  <2>6. NotReserved'
    BY <2>1 DEF IInv, NotReserved
  <2>7. Partition'
    BY <1>2, <2>1, <2>2 DEF IInv, Partition, NotReserved
  <2>8. CountDrift'
    BY <1>1, <1>2, <2>1, <2>4 DEF IInv, CountDrift
  <2>9. HintTight'
    <3>1. \A j \in Free : last_free_index <= j
      BY <1>2 DEF IInv, HintTight
    <3>2. i \in Nat /\ last_free_index \in Nat /\ Free \subseteq Nat
      BY <1>1, <1>2, <1>4 DEF TypeOK, Frames, Free
    <3>3. \A j \in Free' : LowerHint(i) <= j
      BY <3>1, <3>2, <2>3 DEF LowerHint
    <3> QED BY <3>3, <2>1 DEF HintTight
  <2> QED BY <1>2, <2>5, <2>6, <2>7, <2>8, <2>9 DEF IInv, BootInv
<1> QED BY <1>3, <1>4

LEMMA NextIInv == IInv /\ [Next]_vars => IInv'
<1> SUFFICES ASSUME IInv, [Next]_vars PROVE IInv'
  OBVIOUS
<1>1. CASE UNCHANGED vars
  BY <1>1 DEF vars, IInv, TypeOK, BootInv, NotReserved, Partition, CountDrift,
       HintTight, Free
<1>2. CASE Next
  BY <1>2, BootSteps, FreeRegionStep, ReserveStep, AllocStep, FreeStep DEF Next
<1> QED BY <1>1, <1>2

\* IInv holds in every reachable state.
THEOREM Invariance == Spec => []IInv
<1>1. Init => IInv
  BY InitIInv
<1>2. IInv /\ [Next]_vars => IInv'
  BY NextIInv
<1> QED BY <1>1, <1>2, PTL DEF Spec

----------------------------------------------------------------------------
(* What follows from it.                                                   *)

\* Type correctness of the frame allocator and of mm_init.
THEOREM TypeCorrect == Spec => []TypeOK
<1>1. IInv => TypeOK
  BY DEF IInv
<1> QED BY <1>1, Invariance, PTL

\* The set bits of the bitmap are the reserved frames and those handed out.
THEOREM BitmapPartition == Spec => []Partition
<1>1. IInv => Partition
  BY DEF IInv
<1> QED BY <1>1, Invariance, PTL

\* No byte of the kernel image and the boot heap is ever handed out.
THEOREM ImageIsSafe == Spec => []ImageSafe
<1>1. IInv => ImageSafe
  <2> SUFFICES ASSUME IInv, NEW i \in handed PROVE i * PAGE_SIZE >= KernBytes
    BY DEF ImageSafe
  <2>1. i \in Nat /\ i \notin Reserved /\ PAGE_SIZE \in Nat /\ KernBytes \in Nat
    BY SizeAssumption DEF IInv, TypeOK, NotReserved, Frames
  <2>2. ReserveCount \in Nat /\ i >= ReserveCount /\ ReserveCount * PAGE_SIZE >= KernBytes
    BY <2>1, ReserveCountType DEF Reserved
  <2>3. i * PAGE_SIZE >= ReserveCount * PAGE_SIZE
    BY <2>1, <2>2
  <2>4. i * PAGE_SIZE \in Nat /\ ReserveCount * PAGE_SIZE \in Nat
    BY <2>1, <2>2
  <2> QED BY <2>1, <2>2, <2>3, <2>4
<1> QED BY <1>1, Invariance, PTL

\* The hint never passes a free frame: the wrap-around scan is redundant.
THEOREM HintIsTight == Spec => []HintTight
<1>1. IInv => HintTight
  BY DEF IInv
<1> QED BY <1>1, Invariance, PTL

\* The out-of-memory panic never strikes while a frame is free.
THEOREM GuardIsSound == Spec => []GuardNeverRefuses
<1>1. IInv => GuardNeverRefuses
  BY SizeAssumption, FramesFinite DEF IInv, CountDrift, GuardNeverRefuses, Free
<1> QED BY <1>1, Invariance, PTL

\* Every frame handed out is the lowest free one, which is what kmalloc's
\* large path relies on.
THEOREM LowestFrameFirst == Spec => LowestFirst
<1> DEFINE A == \A i \in handed' \ handed : \A j \in Free : i <= j
<1>1. IInv /\ [Next]_vars => [A]_vars
  <2> SUFFICES ASSUME IInv, Next PROVE A
    OBVIOUS
  <2>1. CASE mm_boot_init \/ pmm_init \/ pmm_free_region \/ pmm_reserve_region
    BY <2>1 DEF mm_boot_init, pmm_init, pmm_free_region, pmm_reserve_region, pmmVars
  <2>2. ASSUME NEW ret \in Frames \cup {NoFrame}, pmm_alloc_frame(ret) PROVE A
    <3>1. phase = "run" /\ TypeOK /\ \A i \in Free : last_free_index <= i
      BY <2>2 DEF pmm_alloc_frame, IInv, HintTight
    <3>2. CASE handed' = handed
      BY <3>2
    <3>3. CASE handed' # handed
      <4>1. ret = Scan /\ ret # NoFrame /\ handed' = handed \cup {ret}
        BY <2>2, <3>3 DEF pmm_alloc_frame, pmmVars, TakeFrame
      <4>2. \A j \in Free : ret <= j
        BY <3>1, <4>1, ScanIsLowest
      <4> QED BY <4>1, <4>2
    <3> QED BY <3>2, <3>3
  <2>3. ASSUME NEW i \in Freeable, pmm_free_frame(i) PROVE A
    BY <2>3 DEF pmm_free_frame, pmmVars
  <2> QED BY <2>1, <2>2, <2>3 DEF Next
<1> QED BY <1>1, Invariance, PTL DEF Spec, LowestFirst
=============================================================================
