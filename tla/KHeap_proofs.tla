---------------------------- MODULE KHeap_proofs ----------------------------
(* The heap implements the frame allocator's specification: whatever is      *)
(* proved of PhysFrame holds under the heap and the other users of frames.   *)
(* No byte has two owners, granted sizes fit, and frames are not lost.       *)
EXTENDS KHeap, PhysFrame_proofs

\* No request is so large that its sum with the header wraps.
Fits(size) == size \in Nat \ {0} /\ size + AllocHeader + PAGE_SIZE <= SizeMod

NoWrap ==
  /\ \A size \in Sizes : Fits(size)
  /\ \A num \in Nums, size \in Sizes :
       ((num * size) % SizeMod) \div num = size => Fits((num * size) % SizeMod)

----------------------------------------------------------------------------
(* The inductive invariant: who holds which frames.                        *)

Large  == {a \in DOMAIN live : live[a].cache = NULL}
Run(a) == RunFrames(a \div PAGE_SIZE, num_pages(live[a].size))

LiveOK ==
  /\ live \in [DOMAIN live -> [size : Nat, cache : Int, asked : Nat]]
  /\ \A a \in DOMAIN live :
       /\ Fits(live[a].size)
       /\ live[a].asked \in 1 .. live[a].size
       /\ live[a].cache = NULL <=> get_bucket_index(live[a].size) = -1
       /\ live[a].cache = NULL => a \in Int

CallOK ==
  \/ call = NoCall
  \/ /\ call \in [op : {"kmalloc"}, phys : Nat, i : Nat, n : Nat, size : Nat,
                  src : DOMAIN live \cup {NULL}]
     /\ 1 <= call.i /\ call.i <= call.n
     /\ Fits(call.size) /\ call.n = num_pages(call.size)
     /\ get_bucket_index(call.size) = -1
  \/ call \in [op : {"kfree"}, ptr : DOMAIN live]
  \/ /\ call \in [op : {"free"}, phys : Int, i : Nat, n : Nat]
     /\ call.i <= call.n

\* The frames of the other users, of the call in progress and of the large
\* blocks were all handed out, each to one of them.
Owned ==
  /\ others \subseteq handed
  /\ CallFrames \subseteq handed
  /\ others \cap CallFrames = {}
  /\ \A a \in Large : /\ Run(a) \subseteq handed
                      /\ Run(a) \cap (others \cup CallFrames) = {}
  /\ \A a, b \in Large : a # b => Run(a) \cap Run(b) = {}

HeapInv == LiveOK /\ CallOK /\ Owned

----------------------------------------------------------------------------
(* Arithmetic of num_pages and get_bucket_index.                           *)

Quot(x) == (x + PAGE_SIZE - 1) \div PAGE_SIZE

\* The number of frames for x bytes, rounded up.
LEMMA QuotBounds ==
  ASSUME NEW x \in Nat
  PROVE  /\ Quot(x) \in Nat
         /\ Quot(x) * PAGE_SIZE <= x + PAGE_SIZE - 1
         /\ x + PAGE_SIZE - 1 < Quot(x) * PAGE_SIZE + PAGE_SIZE
         /\ (Quot(x) * PAGE_SIZE) \div PAGE_SIZE = Quot(x)
<1> DEFINE P == PAGE_SIZE
           q == (x + P - 1) \div P
<1>1. P \in Nat \ {0}
  BY SizeAssumption
<1>2. /\ q \in Int
      /\ q * P <= x + P - 1
      /\ x + P - 1 < q * P + P
  BY <1>1, SMT
<1>3. (q * P) \div P = q
  <2> HIDE DEF q
  <2> QED BY <1>1, <1>2, SMT
<1>4. q >= 0
  <2> HIDE DEF q, P
  <2>1. SUFFICES ASSUME q <= -1 PROVE FALSE
    BY <1>2
  <2>2. q * P <= (-1) * P
    BY <1>1, <1>2, <2>1
  <2> QED BY <1>1, <1>2, <2>2
<1> QED BY <1>1, <1>2, <1>3, <1>4 DEF Quot

\* In the absence of a wrap, num_pages rounds the size with its header up, so
\* that it is at least 1 and grows with the size.
LEMMA NumPages ==
  ASSUME NEW size, Fits(size)
  PROVE  num_pages(size) = Quot(size + AllocHeader) /\ num_pages(size) \in Nat \ {0}
<1> DEFINE total == size + AllocHeader
<1>1. /\ PAGE_SIZE \in Nat \ {0} /\ total \in Nat \ {0} /\ SizeMod \in Nat \ {0}
      /\ total + PAGE_SIZE <= SizeMod
  BY SizeAssumption, HeapAssumption DEF Fits
<1>2. total % SizeMod = total
  <2> HIDE DEF total
  <2> QED BY <1>1, SMT
<1>3. /\ Quot(total) \in Nat
      /\ Quot(total) * PAGE_SIZE <= total + PAGE_SIZE - 1
      /\ total + PAGE_SIZE - 1 < Quot(total) * PAGE_SIZE + PAGE_SIZE
      /\ (Quot(total) * PAGE_SIZE) \div PAGE_SIZE = Quot(total)
  BY <1>1, QuotBounds
<1>4. (Quot(total) * PAGE_SIZE) % SizeMod = Quot(total) * PAGE_SIZE
  <2> DEFINE m == Quot(total) * PAGE_SIZE
  <2>1. m \in Nat /\ m < SizeMod
    BY <1>1, <1>3
  <2> HIDE DEF m
  <2>2. m % SizeMod = m
    BY <2>1, <1>1, SMT
  <2> QED BY <2>2 DEF m
<1>5. num_pages(size) = Quot(total)
  BY <1>2, <1>3, <1>4 DEF num_pages, ALIGN_UP, Quot
<1>6. Quot(total) # 0
  <2> HIDE DEF total
  <2> QED BY <1>1, <1>3
<1> QED BY <1>3, <1>5, <1>6

LEMMA NumPagesMonotone ==
  ASSUME NEW s \in Nat \ {0}, NEW t, Fits(t), s <= t
  PROVE  num_pages(s) \in Nat \ {0} /\ num_pages(s) <= num_pages(t)
<1> DEFINE a == s + AllocHeader
           b == t + AllocHeader
<1>1. Fits(s)
  BY HeapAssumption, SizeAssumption DEF Fits
<1>2. /\ PAGE_SIZE \in Nat \ {0}
      /\ a \in Nat /\ b \in Nat /\ a <= b
  BY HeapAssumption, SizeAssumption DEF Fits
<1>3. num_pages(s) = Quot(a) /\ num_pages(t) = Quot(b) /\ num_pages(s) \in Nat \ {0}
  BY <1>1, NumPages
<1>4. /\ Quot(a) \in Nat /\ Quot(b) \in Nat
      /\ Quot(a) * PAGE_SIZE <= a + PAGE_SIZE - 1
      /\ b + PAGE_SIZE - 1 < Quot(b) * PAGE_SIZE + PAGE_SIZE
  BY <1>2, QuotBounds
<1>5. Quot(a) <= Quot(b)
  <2> HIDE DEF a, b
  <2>1. SUFFICES ASSUME Quot(a) >= Quot(b) + 1 PROVE FALSE
    BY <1>4
  <2>2. Quot(a) * PAGE_SIZE >= (Quot(b) + 1) * PAGE_SIZE
    BY <1>2, <1>4, <2>1
  <2>3. (Quot(b) + 1) * PAGE_SIZE = Quot(b) * PAGE_SIZE + PAGE_SIZE
    BY <1>2, <1>4
  <2> QED BY <1>2, <1>4, <2>2, <2>3
<1> QED BY <1>3, <1>5

\* A frame number survives the way through its address.
LEMMA FrameOfAddress ==
  ASSUME NEW f \in Int
  PROVE  (f * PAGE_SIZE) \div PAGE_SIZE = f
BY SizeAssumption, SMT

LEMMA BucketType ==
  ASSUME NEW size
  PROVE  get_bucket_index(size) \in Nat \cup {-1}
<1> DEFINE fits == {b \in Buckets : size <= BucketSize(b)}
<1>1. fits \subseteq Nat
  BY HeapAssumption DEF Buckets
<1>2. CASE fits = {}
  BY <1>2 DEF get_bucket_index
<1>3. CASE fits # {}
  <2>1. Min(fits) \in fits
    <3> HIDE DEF fits
    <3> QED BY <1>1, <1>3, MinIsLeast
  <2> QED BY <2>1, <1>1, <1>3 DEF get_bucket_index
<1> QED BY <1>2, <1>3

LEMMA BucketMonotone ==
  ASSUME NEW s \in Nat, NEW t \in Nat, s <= t, get_bucket_index(s) = -1
  PROVE  get_bucket_index(t) = -1
<1> DEFINE fits(x) == {b \in Buckets : x <= BucketSize(b)}
<1>1. \A b \in Buckets : b \in Nat /\ BucketSize(b) \in Nat
  BY HeapAssumption, BucketAssumption DEF Buckets
<1>2. fits(s) = {}
  <2>1. SUFFICES ASSUME fits(s) # {} PROVE FALSE
    OBVIOUS
  <2>2. fits(s) \subseteq Nat
    BY <1>1
  <2>3. Min(fits(s)) \in fits(s)
    <3> HIDE DEF fits
    <3> QED BY <2>1, <2>2, MinIsLeast
  <2> QED BY <2>1, <2>2, <2>3 DEF get_bucket_index
<1>3. fits(t) = {}
  BY <1>1, <1>2
<1> QED BY <1>3 DEF get_bucket_index

----------------------------------------------------------------------------
(* What a step of the frame allocator does to the frames handed out.       *)

LEMMA FreeFacts ==
  ASSUME IInv, NEW i \in handed, pmm_free_frame(i)
  PROVE  handed' = handed \ {i} /\ Next
<1>1. TypeOK /\ Partition /\ phase = "run"
  BY DEF IInv, pmm_free_frame
<1>2. i \in Frames /\ i \in used
  BY <1>1 DEF Partition, TypeOK
<1>3. i \in Freeable
  BY <1>2, SizeAssumption DEF Freeable, Frames
<1> QED BY <1>2, <1>3 DEF pmm_free_frame, Next

----------------------------------------------------------------------------
(* HeapInv is preserved, one lemma for each kind of step.                  *)

\* Steps that leave blocks, calls and single frames alone: kheap_init and the
\* clients' own slab caches.
LEMMA QuietStep ==
  ASSUME HeapInv, handed \subseteq handed', UNCHANGED <<live, others, call>>
  PROVE  HeapInv'
<1>1. LiveOK' /\ CallOK'
  BY DEF HeapInv, LiveOK, CallOK
<1>2. CallFrames' = CallFrames /\ Large' = Large /\ \A a \in Large : Run(a)' = Run(a)
  BY DEF CallFrames, Large, Run
<1>3. Owned'
  BY <1>2 DEF HeapInv, Owned
<1> QED BY <1>1, <1>3 DEF HeapInv

\* A block leaves and the call ends or turns to freeing frames of that block.
LEMMA RemoveStep ==
  ASSUME HeapInv, CallFrames = {}, handed' = handed, others' = others,
         NEW a \in DOMAIN live, RemoveBlock(a),
         \/ call' = NoCall
         \/ /\ a \in Large
            /\ \E n \in Nat :
                 /\ n <= num_pages(live[a].size)
                 /\ call' = [op |-> "free", phys |-> a \div PAGE_SIZE, i |-> 0, n |-> n]
  PROVE  HeapInv'
<1>1. /\ DOMAIN live' = DOMAIN live \ {a}
      /\ \A x \in DOMAIN live' : live'[x] = live[x]
  BY DEF RemoveBlock
<1>2. LiveOK'
  <2>1. live \in [DOMAIN live -> [size : Nat, cache : Int, asked : Nat]]
    BY DEF HeapInv, LiveOK
  <2>2. live' \in [DOMAIN live' -> [size : Nat, cache : Int, asked : Nat]]
    BY <2>1, <1>1 DEF RemoveBlock
  <2> QED BY <1>1, <2>1, <2>2 DEF HeapInv, LiveOK
<1>3. /\ Large' = Large \ {a}
      /\ \A x \in Large' : Run(x)' = Run(x)
  BY <1>1 DEF Large, Run
<1>4. CASE call' = NoCall
  <2>1. CallOK'
    BY <1>4 DEF CallOK
  <2>2. CallFrames' = {}
    BY <1>4 DEF CallFrames, NoCall
  <2>3. Owned'
    BY <1>3, <2>2 DEF HeapInv, Owned
  <2> QED BY <1>2, <2>1, <2>3 DEF HeapInv
<1>5. CASE /\ a \in Large
           /\ \E n \in Nat :
                /\ n <= num_pages(live[a].size)
                /\ call' = [op |-> "free", phys |-> a \div PAGE_SIZE, i |-> 0, n |-> n]
  <2>1. PICK n \in Nat :
          /\ n <= num_pages(live[a].size)
          /\ call' = [op |-> "free", phys |-> a \div PAGE_SIZE, i |-> 0, n |-> n]
    BY <1>5
  <2>2. a \div PAGE_SIZE \in Int
    BY <1>5, SizeAssumption DEF HeapInv, LiveOK, Large
  <2>3. CallOK'
    BY <2>1, <2>2 DEF CallOK
  <2>4. num_pages(live[a].size) \in Nat
    BY NumPages DEF HeapInv, LiveOK
  <2>5. CallFrames' \subseteq Run(a)
    BY <2>1, <2>2, <2>4 DEF CallFrames, Run, RunFrames
  <2>6. Owned'
    BY <1>3, <1>5, <2>5 DEF HeapInv, Owned
  <2> QED BY <1>2, <2>3, <2>6 DEF HeapInv
<1> QED BY <1>4, <1>5

\* A block arrives: one from a slab cache, or one that is the run of frames
\* the call has collected.
LEMMA AddStep ==
  ASSUME HeapInv, handed \subseteq handed', others' = others,
         NEW a, NEW size, NEW cache \in Int, AddBlock(a, size, cache), Fits(size),
         cache = NULL <=> get_bucket_index(size) = -1,
         cache = NULL => a \in Int,
         cache = NULL => RunFrames(a \div PAGE_SIZE, num_pages(size)) = CallFrames,
         NEW src \in DOMAIN live \cup {NULL}, Then(src)
  PROVE  HeapInv'
<1>1. /\ DOMAIN live' = DOMAIN live \cup {a}
      /\ \A x \in DOMAIN live \ {a} : live'[x] = live[x]
      /\ live'[a] = [size |-> size, cache |-> cache, asked |-> size]
  BY DEF AddBlock
<1>2. LiveOK'
  <2>1. /\ live \in [DOMAIN live -> [size : Nat, cache : Int, asked : Nat]]
        /\ size \in Nat \ {0}
    BY DEF HeapInv, LiveOK, Fits
  <2>2. live' \in [DOMAIN live' -> [size : Nat, cache : Int, asked : Nat]]
    BY <2>1, <1>1 DEF AddBlock
  <2>3. \A x \in DOMAIN live' :
          /\ Fits(live'[x].size)
          /\ live'[x].asked \in 1 .. live'[x].size
          /\ live'[x].cache = NULL <=> get_bucket_index(live'[x].size) = -1
          /\ live'[x].cache = NULL => x \in Int
    <3> TAKE x \in DOMAIN live'
    <3>1. CASE x = a
      BY <3>1, <1>1, <2>1
    <3>2. CASE x # a
      BY <3>2, <1>1 DEF HeapInv, LiveOK
    <3> QED BY <3>1, <3>2
  <2> QED BY <1>1, <2>1, <2>2, <2>3 DEF LiveOK
<1>3. CallOK' /\ CallFrames' = {}
  BY <1>1 DEF Then, CallOK, CallFrames, NoCall, HeapInv, LiveOK, NULL
<1>4. \A x \in Large' : x # a => x \in Large /\ Run(x)' = Run(x)
  BY <1>1 DEF Large, Run
<1>5. a \in Large' => Run(a)' = CallFrames
  BY <1>1 DEF Large, Run
<1>6. Owned'
  BY <1>3, <1>4, <1>5 DEF HeapInv, Owned
<1> QED BY <1>2, <1>3, <1>6 DEF HeapInv

\* kmalloc, for krealloc too: its slab path adds a block, its large path starts
\* a call with one frame.
LEMMA KmallocStep ==
  ASSUME HeapInv, IInv, NEW size, Fits(size), NEW src \in DOMAIN live \cup {NULL},
         kmalloc(size, src)
  PROVE  HeapInv' /\ [Next]_vars
<1>1. phase = "run" /\ call = NoCall /\ others' = others
  BY DEF kmalloc, Ready
<1>2. CASE kmalloc_slab(size, src)
  <2> DEFINE c == get_bucket_index(size) + 2
             a == Node(caches[c])
  <2>1. get_bucket_index(size) \in Nat /\ c \in Int /\ c # NULL
    BY <1>2, BucketType DEF kmalloc_slab, NULL
  <2>2. handed \subseteq handed' /\ [Next]_vars
    <3>1. CASE UNCHANGED physVars
      BY <3>1 DEF physVars, vars
    <3>2. CASE pmm_alloc_frame(NextFrame)
      BY <1>1, <3>2, AllocFacts
    <3> QED BY <1>2, <3>1, <3>2 DEF kmalloc_slab, slab_alloc
  <2>3. CASE a = NULL
    BY <1>1, <1>2, <2>2, <2>3, QuietStep DEF kmalloc_slab
  <2>4. CASE a # NULL
    <3>1. AddBlock(a, size, c) /\ Then(src)
      BY <1>2, <2>4 DEF kmalloc_slab
    <3>2. HeapInv'
      <4> HIDE DEF a, c
      <4>1. get_bucket_index(size) # -1
        BY <2>1
      <4> QED BY <1>1, <2>1, <2>2, <3>1, <4>1, AddStep
    <3> QED BY <2>2, <3>2
  <2> QED BY <2>2, <2>3, <2>4
<1>3. CASE kmalloc_first(size, src)
  <2>1. pmm_alloc_frame(NextFrame) /\ UNCHANGED live /\ get_bucket_index(size) = -1
    BY <1>3 DEF kmalloc_first
  <2>2. /\ NextFrame \in Frames \cup {NoFrame}
        /\ NextFrame \notin handed
        /\ handed' = handed \cup ({NextFrame} \ {NoFrame})
        /\ Next
    BY <1>1, <2>1, AllocFacts
  <2>3. CASE NextFrame = NoFrame
    BY <1>1, <1>3, <2>2, <2>3, QuietStep DEF kmalloc_first
  <2>4. CASE NextFrame # NoFrame
    <3>1. call' = [op |-> "kmalloc", phys |-> NextFrame, i |-> 1,
                   n |-> num_pages(size), size |-> size, src |-> src]
      BY <1>3, <2>4 DEF kmalloc_first
    <3>2. /\ NextFrame \in Nat
          /\ num_pages(size) \in Nat \ {0} /\ size \in Nat
      BY <2>2, <2>4, NumPages, SizeAssumption DEF Frames, HeapInv, LiveOK, NULL, Fits
    <3>3. CallOK'
      BY <2>1, <3>1, <3>2 DEF CallOK
    <3>4. CallFrames' = {NextFrame}
      BY <3>1, <3>2 DEF CallFrames, RunFrames
    <3>5. LiveOK' /\ Large' = Large /\ \A a \in Large : Run(a)' = Run(a)
      BY <2>1 DEF HeapInv, LiveOK, Large, Run
    <3>6. Owned'
      BY <1>1, <2>2, <2>4, <3>4, <3>5 DEF HeapInv, Owned
    <3> QED BY <2>2, <3>3, <3>5, <3>6 DEF HeapInv
  <2> QED BY <2>2, <2>3, <2>4
<1> QED BY <1>2, <1>3 DEF kmalloc

LEMMA KmallocNextStep ==
  ASSUME HeapInv, IInv, kmalloc_next
  PROVE  HeapInv' /\ [Next]_vars
<1>1. /\ phase = "run" /\ call.op = "kmalloc" /\ others' = others
      /\ call \in [op : {"kmalloc"}, phys : Nat, i : Nat, n : Nat, size : Nat,
                   src : DOMAIN live \cup {NULL}]
      /\ 1 <= call.i /\ call.i <= call.n
      /\ Fits(call.size) /\ call.n = num_pages(call.size)
      /\ get_bucket_index(call.size) = -1
      /\ call.src \in DOMAIN live \cup {NULL}
  BY DEF kmalloc_next, HeapInv, CallOK, NoCall
<1>2. CASE call.i < call.n
  <2>1. pmm_alloc_frame(NextFrame) /\ UNCHANGED live
    BY <1>2 DEF kmalloc_next
  <2>2. /\ NextFrame \in Frames \cup {NoFrame}
        /\ NextFrame \notin handed
        /\ handed' = handed \cup ({NextFrame} \ {NoFrame})
        /\ Next
    BY <1>1, <2>1, AllocFacts
  <2>3. CASE NextFrame # call.phys + call.i
    BY <1>1, <1>2, <2>1, <2>2, <2>3, QuietStep DEF kmalloc_next
  <2>4. CASE NextFrame = call.phys + call.i
    <3>1. call' = [call EXCEPT !.i = @ + 1]
      BY <1>2, <2>4 DEF kmalloc_next
    <3>2. CallOK'
      BY <1>1, <1>2, <2>1, <3>1 DEF CallOK
    <3>3. CallFrames' = CallFrames \cup {NextFrame}
      BY <1>1, <3>1, <2>4 DEF CallFrames, RunFrames
    <3>4. LiveOK' /\ Large' = Large /\ \A a \in Large : Run(a)' = Run(a)
      BY <2>1 DEF HeapInv, LiveOK, Large, Run
    <3>5. NextFrame # NoFrame
      BY <1>1, <2>4 DEF NoFrame
    <3>6. Owned'
      BY <1>1, <2>2, <3>3, <3>4, <3>5 DEF HeapInv, Owned
    <3> QED BY <2>2, <3>2, <3>4, <3>6 DEF HeapInv
  <2> QED BY <2>2, <2>3, <2>4
<1>3. CASE ~(call.i < call.n)
  <2>1. /\ AddBlock(call.phys * PAGE_SIZE, call.size, NULL)
        /\ Then(call.src) /\ UNCHANGED physVars
    BY <1>3 DEF kmalloc_next
  <2>2. call.i = call.n /\ call.phys * PAGE_SIZE \in Int /\ NULL \in Int
    BY <1>1, <1>3, SizeAssumption DEF NULL
  <2>3. RunFrames((call.phys * PAGE_SIZE) \div PAGE_SIZE, num_pages(call.size)) = CallFrames
    BY <1>1, <2>2, FrameOfAddress DEF CallFrames
  <2>4. handed' = handed /\ UNCHANGED vars
    BY <2>1 DEF physVars, vars
  <2>5. HeapInv'
    <3> DEFINE a == call.phys * PAGE_SIZE
               src == call.src
               size == call.size
    <3>1. /\ a \in Int /\ src \in DOMAIN live \cup {NULL} /\ Fits(size)
          /\ AddBlock(a, size, NULL) /\ Then(src)
          /\ get_bucket_index(size) = -1
          /\ RunFrames(a \div PAGE_SIZE, num_pages(size)) = CallFrames
      BY <1>1, <2>1, <2>2, <2>3
    <3> HIDE DEF a, src, size
    <3> QED BY <1>1, <2>2, <2>4, <3>1, AddStep
  <2> QED BY <2>4, <2>5
<1> QED BY <1>2, <1>3

\* kfree, kfree_sized and krealloc's kfree.
LEMMA ReleaseStep ==
  ASSUME HeapInv, NEW a \in DOMAIN live, NEW c, NEW n, CallFrames = {},
         Release(a, c, n),
         c = NULL => a \in Large /\ n \in Nat /\ n <= num_pages(live[a].size)
  PROVE  HeapInv' /\ [Next]_vars
<1>1. /\ RemoveBlock(a) /\ others' = others
      /\ handed' = handed /\ UNCHANGED vars
  BY DEF Release, physVars, vars
<1>2. \/ call' = NoCall
      \/ /\ a \in Large
         /\ \E m \in Nat :
              /\ m <= num_pages(live[a].size)
              /\ call' = [op |-> "free", phys |-> a \div PAGE_SIZE, i |-> 0, n |-> m]
  BY DEF Release
<1> QED BY <1>1, <1>2, RemoveStep

LEMMA FreeNextStep ==
  ASSUME HeapInv, IInv, free_next
  PROVE  HeapInv' /\ [Next]_vars
<1>1. /\ call.op = "free" /\ others' = others /\ UNCHANGED live
      /\ call \in [op : {"free"}, phys : Int, i : Nat, n : Nat]
      /\ call.i <= call.n
  BY DEF free_next, HeapInv, CallOK, NoCall
<1>2. LiveOK' /\ Large' = Large /\ \A a \in Large : Run(a)' = Run(a)
  BY <1>1 DEF HeapInv, LiveOK, Large, Run
<1>3. CASE call.i < call.n
  <2> DEFINE f == call.phys + call.i
  <2>1. pmm_free_frame(f) /\ call' = [call EXCEPT !.i = @ + 1]
    BY <1>3 DEF free_next, FrameToFree
  <2>2. f \in CallFrames /\ CallFrames' = CallFrames \ {f}
    BY <1>1, <1>3, <2>1 DEF CallFrames
  <2>3. f \in handed
    BY <2>2 DEF HeapInv, Owned
  <2>4. handed' = handed \ {f} /\ Next
    BY <2>1, <2>3, FreeFacts
  <2>5. CallOK'
    BY <1>1, <1>3, <2>1 DEF CallOK
  <2> HIDE DEF f
  <2>6. Owned'
    BY <1>1, <1>2, <2>2, <2>4 DEF HeapInv, Owned
  <2> QED BY <1>2, <2>4, <2>5, <2>6 DEF HeapInv
<1>4. CASE ~(call.i < call.n)
  <2>1. call' = NoCall /\ UNCHANGED physVars
    BY <1>4 DEF free_next
  <2>2. handed' = handed /\ UNCHANGED vars
    BY <2>1 DEF physVars, vars
  <2>3. CallOK' /\ CallFrames' = {}
    BY <2>1 DEF CallOK, CallFrames, NoCall
  <2>4. Owned'
    BY <1>1, <1>2, <2>2, <2>3 DEF HeapInv, Owned
  <2> QED BY <1>2, <2>2, <2>3, <2>4 DEF HeapInv
<1> QED BY <1>3, <1>4

LEMMA KeepStep ==
  ASSUME HeapInv, NEW a \in DOMAIN live, NEW new_size \in Sizes, krealloc_keep(a, new_size)
  PROVE  HeapInv' /\ [Next]_vars
<1>1. /\ live' = [live EXCEPT ![a].asked = new_size] /\ new_size <= live[a].size
      /\ UNCHANGED <<others, call>> /\ UNCHANGED physVars
  BY DEF krealloc_keep
<1>2. handed' = handed /\ UNCHANGED vars
  BY <1>1 DEF physVars, vars
<1>3. live \in [DOMAIN live -> [size : Nat, cache : Int, asked : Nat]]
  BY DEF HeapInv, LiveOK
<1>4. new_size \in Nat \ {0}
  BY HeapAssumption
<1>5. /\ DOMAIN live' = DOMAIN live
      /\ live' \in [DOMAIN live -> [size : Nat, cache : Int, asked : Nat]]
      /\ \A x \in DOMAIN live : /\ live'[x].size = live[x].size
                                /\ live'[x].cache = live[x].cache
                                /\ live'[x].asked = IF x = a THEN new_size ELSE live[x].asked
  BY <1>1, <1>3, <1>4
<1>6. LiveOK'
  BY <1>1, <1>4, <1>5 DEF HeapInv, LiveOK
<1>7. CallOK'
  BY <1>1, <1>5 DEF HeapInv, CallOK
<1>8. CallFrames' = CallFrames /\ Large' = Large /\ \A x \in Large : Run(x)' = Run(x)
  BY <1>1, <1>5 DEF CallFrames, Large, Run
<1>9. Owned'
  BY <1>1, <1>2, <1>8 DEF HeapInv, Owned
<1> QED BY <1>2, <1>6, <1>7, <1>9 DEF HeapInv

\* Steps of the heap start-up and of the clients' caches and frames.
LEMMA ClientStep ==
  ASSUME HeapInv, IInv,
         \/ kheap_init
         \/ \E size \in TypeSizes : type_cache_create(size)
         \/ \E c \in TypeCaches : type_alloc(c)
         \/ \E o \in objs : type_free(o)
  PROVE  HeapInv' /\ [Next]_vars
<1>1. UNCHANGED <<live, others, call>>
  BY DEF kheap_init, type_cache_create, type_alloc, type_free
<1>2. UNCHANGED physVars \/ (phase = "run" /\ pmm_alloc_frame(NextFrame))
  BY DEF kheap_init, type_cache_create, type_alloc, type_free, slab_cache_create,
         slab_alloc, Ready
<1>3. handed \subseteq handed' /\ [Next]_vars
  <2>1. CASE UNCHANGED physVars
    BY <2>1 DEF physVars, vars
  <2>2. CASE phase = "run" /\ pmm_alloc_frame(NextFrame)
    BY <2>2, AllocFacts
  <2> QED BY <1>2, <2>1, <2>2
<1> QED BY <1>1, <1>3, QuietStep

LEMMA OtherAllocStep ==
  ASSUME HeapInv, IInv, other_alloc
  PROVE  HeapInv' /\ [Next]_vars
<1>1. /\ phase = "run" /\ pmm_alloc_frame(NextFrame) /\ UNCHANGED <<live, call>>
      /\ others' = others \cup ({NextFrame} \ {NoFrame})
  BY DEF other_alloc, Ready
<1>2. /\ NextFrame \notin handed
      /\ handed' = handed \cup ({NextFrame} \ {NoFrame})
      /\ Next
  BY <1>1, AllocFacts
<1>3. /\ LiveOK' /\ CallOK' /\ CallFrames' = CallFrames /\ Large' = Large
      /\ \A a \in Large : Run(a)' = Run(a)
  BY <1>1 DEF HeapInv, LiveOK, CallOK, CallFrames, Large, Run
<1>4. Owned'
  BY <1>1, <1>2, <1>3 DEF HeapInv, Owned
<1> QED BY <1>2, <1>3, <1>4 DEF HeapInv

LEMMA OtherFreeStep ==
  ASSUME HeapInv, IInv, NEW f \in others, other_free(f)
  PROVE  HeapInv' /\ [Next]_vars
<1>1. pmm_free_frame(f) /\ UNCHANGED <<live, call>> /\ others' = others \ {f} /\ f \in handed
  BY DEF other_free, HeapInv, Owned
<1>2. handed' = handed \ {f} /\ Next
  BY <1>1, FreeFacts
<1>3. /\ LiveOK' /\ CallOK' /\ CallFrames' = CallFrames /\ Large' = Large
      /\ \A a \in Large : Run(a)' = Run(a)
  BY <1>1 DEF HeapInv, LiveOK, CallOK, CallFrames, Large, Run
<1>4. Owned'
  BY <1>1, <1>2, <1>3 DEF HeapInv, Owned
<1> QED BY <1>2, <1>3, <1>4 DEF HeapInv

LEMMA BlockStep ==
  ASSUME HeapInv, IInv, NoWrap, NEW a \in DOMAIN live,
         \/ kfree(a)
         \/ kfree_sized(a)
         \/ \E size \in Sizes : krealloc_keep(a, size) \/ krealloc_move(a, size)
  PROVE  HeapInv' /\ [Next]_vars
<1>1. /\ Fits(live[a].size) /\ live[a].size \in Nat
      /\ live[a].asked \in 1 .. live[a].size
      /\ live[a].cache = NULL <=> get_bucket_index(live[a].size) = -1
  BY DEF HeapInv, LiveOK, Fits
<1>2. num_pages(live[a].size) \in Nat
  BY <1>1, NumPages
<1>3. call = NoCall => CallFrames = {}
  BY DEF CallFrames, NoCall
<1>4. CASE kfree(a)
  <2>1. Release(a, live[a].cache, num_pages(live[a].size)) /\ CallFrames = {}
    BY <1>3, <1>4 DEF kfree, Ready
  <2>2. live[a].cache = NULL => a \in Large
    BY DEF Large
  <2> QED BY <1>2, <2>1, <2>2, ReleaseStep
<1>5. CASE kfree_sized(a)
  <2> DEFINE s == live[a].asked
             b == get_bucket_index(s)
             c == IF b = -1 THEN NULL ELSE b + 2
  <2>1. Release(a, c, num_pages(s)) /\ CallFrames = {}
    BY <1>3, <1>5 DEF kfree_sized, Ready
  <2>2. s \in Nat \ {0} /\ s <= live[a].size
    BY <1>1
  <2>3. num_pages(s) \in Nat /\ num_pages(s) <= num_pages(live[a].size)
    BY <1>1, <2>2, NumPagesMonotone
  <2>4. b = -1 => a \in Large
    BY <1>1, <2>2, BucketMonotone DEF Large
  <2>5. c = NULL => a \in Large
    <3>1. b \in Nat \cup {-1}
      BY BucketType
    <3> QED BY <2>4, <3>1 DEF NULL
  <2> HIDE DEF s, b, c
  <2> QED BY <2>1, <2>3, <2>5, ReleaseStep
<1>6. CASE \E size \in Sizes : krealloc_keep(a, size)
  BY <1>6, KeepStep
<1>7. CASE \E size \in Sizes : krealloc_move(a, size)
  <2>1. PICK size \in Sizes : kmalloc(size, a)
    BY <1>7 DEF krealloc_move
  <2>2. Fits(size) /\ a \in DOMAIN live \cup {NULL}
    BY DEF NoWrap
  <2> QED BY <2>1, <2>2, KmallocStep
<1> QED BY <1>4, <1>5, <1>6, <1>7

LEMMA HeapStep ==
  ASSUME HeapInv, IInv, NoWrap, [KHNext]_heapVars
  PROVE  HeapInv' /\ [Next]_vars
<1>1. CASE BootStep
  <2>1. UNCHANGED <<live, others, call>> /\ Next
    BY <1>1 DEF BootStep, Next
  <2>2. handed' = handed
    BY <1>1 DEF BootStep, mm_boot_init, pmm_init, pmm_free_region, pmm_reserve_region, pmmVars
  <2> QED BY <2>1, <2>2, QuietStep
<1>2. CASE \E size \in Sizes : kmalloc(size, NULL)
  <2>1. PICK size \in Sizes : kmalloc(size, NULL)
    BY <1>2
  <2> QED BY <2>1, KmallocStep DEF NoWrap
<1>3. CASE \E num \in Nums, size \in Sizes : kcalloc(num, size)
  <2>1. PICK num \in Nums, size \in Sizes : kcalloc(num, size)
    BY <1>3
  <2> DEFINE total == (num * size) % SizeMod
  <2>2. Fits(total) /\ kmalloc(total, NULL)
    BY <2>1 DEF kcalloc, NoWrap
  <2> HIDE DEF total
  <2> QED BY <2>2, KmallocStep
<1>4. CASE kmalloc_next
  BY <1>4, KmallocNextStep
<1>5. CASE krealloc_kfree
  <2> DEFINE a == call.ptr
  <2>1. a \in DOMAIN live /\ CallFrames = {}
    BY <1>5 DEF krealloc_kfree, HeapInv, CallOK, NoCall, CallFrames
  <2>2. Release(a, live[a].cache, num_pages(live[a].size))
    BY <1>5 DEF krealloc_kfree
  <2>3. /\ live[a].cache = NULL => a \in Large
        /\ num_pages(live[a].size) \in Nat
    BY <2>1, NumPages DEF Large, HeapInv, LiveOK
  <2> HIDE DEF a
  <2> QED BY <2>1, <2>2, <2>3, ReleaseStep
<1>6. CASE free_next
  BY <1>6, FreeNextStep
<1>7. CASE \E a \in DOMAIN live :
             \/ kfree(a)
             \/ kfree_sized(a)
             \/ \E size \in Sizes : krealloc_keep(a, size) \/ krealloc_move(a, size)
  BY <1>7, BlockStep
<1>8. CASE \/ kheap_init
           \/ \E size \in TypeSizes : type_cache_create(size)
           \/ \E c \in TypeCaches : type_alloc(c)
           \/ \E o \in objs : type_free(o)
  BY <1>8, ClientStep
<1>9. CASE other_alloc
  BY <1>9, OtherAllocStep
<1>10. CASE \E f \in others : other_free(f)
  BY <1>10, OtherFreeStep
<1>11. CASE UNCHANGED heapVars
  <2>1. UNCHANGED <<live, others, call>> /\ UNCHANGED physVars
    BY <1>11 DEF heapVars
  <2>2. UNCHANGED vars /\ handed' = handed
    BY <2>1 DEF physVars, vars
  <2> QED BY <2>1, <2>2, QuietStep
<1> QED BY <1>1, <1>2, <1>3, <1>4, <1>5, <1>6, <1>7, <1>8, <1>9, <1>10, <1>11 DEF KHNext

LEMMA HeapInitial == KHInit => HeapInv /\ IInv
<1> SUFFICES ASSUME KHInit PROVE HeapInv /\ IInv
  OBVIOUS
<1>1. IInv
  BY InitIInv DEF KHInit
<1>2. DOMAIN live = {} /\ Large = {}
  BY DEF KHInit, Large
<1>3. LiveOK
  BY <1>2 DEF KHInit, LiveOK
<1>4. CallOK /\ CallFrames = {}
  BY DEF KHInit, CallOK, CallFrames, NoCall
<1>5. Owned
  BY <1>2, <1>4 DEF Owned, KHInit
<1> QED BY <1>1, <1>3, <1>4, <1>5 DEF HeapInv

----------------------------------------------------------------------------

\* Frames of large blocks, of the call in progress and of the other users are
\* handed out and belong to one of them only, in every state: kmalloc, kfree,
\* krealloc, kfree_sized and their neighbours never free a frame of another.
THEOREM FramesOwned == NoWrap => (KHSpec => [](HeapInv /\ IInv))
<1> SUFFICES ASSUME NoWrap PROVE KHSpec => [](HeapInv /\ IInv)
  OBVIOUS
<1>1. KHInit => HeapInv /\ IInv
  BY HeapInitial
<1>2. (HeapInv /\ IInv) /\ [KHNext]_heapVars => (HeapInv /\ IInv)'
  BY HeapStep, NextIInv
<1> QED BY <1>1, <1>2, PTL DEF KHSpec

\* Every behaviour of the heap and its clients is, on the frame allocator's
\* state, a behaviour of PhysFrame.
THEOREM HeapImplementsPhysFrame == NoWrap => (KHSpec => ImplementsPhysFrame)
<1> SUFFICES ASSUME NoWrap PROVE KHSpec => ImplementsPhysFrame
  OBVIOUS
<1>1. KHInit => Init
  BY DEF KHInit
<1>2. (HeapInv /\ IInv) /\ [KHNext]_heapVars => [Next]_vars
  BY HeapStep
<1>3. KHSpec => [](HeapInv /\ IInv)
  BY FramesOwned
<1> QED BY <1>1, <1>2, <1>3, PTL DEF KHSpec, Spec, ImplementsPhysFrame

----------------------------------------------------------------------------
(* The pieces of memory, byte by byte.                                     *)

Holds(p, x) == p.start <= x /\ x < p.start + p.len

\* Each piece has bytes, each byte has one piece and lies in one of the frames H.
Good(A, H) ==
  /\ \A p \in A : p.start \in Nat /\ p.len \in Nat \ {0}
  /\ \A p, q \in A : \A x \in Nat : Holds(p, x) /\ Holds(q, x) => p = q
  /\ \A p \in A : \A x \in Nat : Holds(p, x) => x \div PAGE_SIZE \in H

CacheRecs == [obj_size : Nat \ {0}, slabs : SUBSET Nat, free_objects : Seq(Nat), at : Int]

BucketObj(b) == ALIGN_UP(Largest(BucketSize(b) + AllocHeader, NodeBytes), PtrAlign)

\* The caches, and who refers to them.
CachesOK ==
  /\ caches \in Seq(CacheRecs)
  /\ caches # << >> => caches[1].obj_size = CacheBytes
  /\ \A c \in 2 .. Len(caches) :
       c <= NUM_SLAB_BUCKETS + 1 => caches[c].obj_size = BucketObj(c - 2)
  /\ ~halted => (kheap_initialized <=> Len(caches) > NUM_SLAB_BUCKETS)
  /\ ~kheap_initialized => DOMAIN live = {} /\ call = NoCall
  /\ \A a \in DOMAIN live :
       IF live[a].cache = NULL THEN a = (a \div PAGE_SIZE) * PAGE_SIZE
       ELSE /\ live[a].cache = get_bucket_index(live[a].size) + 2
            /\ live[a].cache \in 1 .. Len(caches)
  /\ objs \subseteq TypeCaches \X Nat


----------------------------------------------------------------------------
(* Arithmetic of pages, alignment and carving.                             *)

LEMMA PageOf ==
  ASSUME NEW x \in Nat, NEW f \in Int
  PROVE  x \div PAGE_SIZE = f <=> f * PAGE_SIZE <= x /\ x < f * PAGE_SIZE + PAGE_SIZE
<1> DEFINE P == PAGE_SIZE
           q == x \div P
<1>1. P \in Nat \ {0}
  BY SizeAssumption
<1>2. q \in Int /\ q * P <= x /\ x < q * P + P
  BY <1>1, SMT
<1> HIDE DEF q, P
<1>3. ASSUME f * P <= x, x < f * P + P PROVE q = f
  <2>1. ASSUME q >= f + 1 PROVE FALSE
    <3>1. q * P >= (f + 1) * P
      BY <1>1, <1>2, <2>1
    <3>2. (f + 1) * P = f * P + P
      BY <1>1
    <3> QED BY <1>1, <1>2, <1>3, <3>1, <3>2
  <2>2. ASSUME f >= q + 1 PROVE FALSE
    <3>1. f * P >= (q + 1) * P
      BY <1>1, <1>2, <2>2
    <3>2. (q + 1) * P = q * P + P
      BY <1>1, <1>2
    <3> QED BY <1>1, <1>2, <1>3, <3>1, <3>2
  <2> QED BY <1>2, <2>1, <2>2
<1> QED BY <1>2, <1>3 DEF q, P

\* Rounding up loses nothing and is exact on multiples.
LEMMA AlignUp ==
  ASSUME NEW n \in Nat
  PROVE  /\ ALIGN_UP(n, PtrAlign) \in Nat
         /\ n <= ALIGN_UP(n, PtrAlign)
         /\ \A k \in Nat : n <= k * PAGE_SIZE => ALIGN_UP(n, PtrAlign) <= k * PAGE_SIZE
<1>1. PICK A : A = PtrAlign /\ A \in Nat \ {0}
  BY HeapAssumption
<1>2. PICK q : q = (n + A - 1) \div A
  OBVIOUS
<1>3. q \in Int /\ q * A <= n + A - 1 /\ n + A - 1 < q * A + A
  BY <1>1, <1>2, SMT
<1>4. q >= 0
  <2>1. SUFFICES ASSUME q <= -1 PROVE FALSE
    BY <1>3
  <2>2. q * A <= (-1) * A
    BY <1>1, <1>3, <2>1
  <2> QED BY <1>1, <1>3, <2>2
<1>5. PICK up : up = q * A
  OBVIOUS
<1>6. ALIGN_UP(n, PtrAlign) = up /\ up \in Nat /\ n <= up
  BY <1>1, <1>2, <1>3, <1>4, <1>5 DEF ALIGN_UP
<1>7. ASSUME NEW k \in Nat, n <= k * PAGE_SIZE PROVE up <= k * PAGE_SIZE
  <2>1. PICK d \in Nat : PAGE_SIZE = d * A
    <3>1. PICK P \in Nat : P = PAGE_SIZE
      BY SizeAssumption
    <3>2. PICK d, z : d = P \div A /\ z = P % A
      OBVIOUS
    <3>3. d \in Nat /\ P = A * d + z
      BY <1>1, <3>1, <3>2
    <3>4. z = 0
      BY <1>1, <3>1, <3>2, SlabAssumption
    <3>5. A * d = d * A
      BY <1>1, <3>3
    <3> QED BY <1>1, <3>1, <3>3, <3>4, <3>5
  <2>2. PICK m \in Nat : m = k * d
    OBVIOUS
  <2>3. k * PAGE_SIZE = m * A
    BY <1>1, <2>1, <2>2
  <2>4. n <= m * A
    BY <1>7, <2>3
  <2>5. q <= m
    <3>1. SUFFICES ASSUME q >= m + 1 PROVE FALSE
      BY <1>3
    <3>2. q * A >= (m + 1) * A
      BY <1>1, <1>3, <3>1
    <3>3. (m + 1) * A = m * A + A
      BY <1>1
    <3> QED BY <1>1, <1>3, <2>4, <3>2, <3>3
  <2>6. q * A <= m * A
    BY <1>1, <1>3, <2>5
  <2> QED BY <1>5, <2>3, <2>6
<1> QED BY <1>6, <1>7

\* Where slab_grow puts the objects: behind the header, inside the frame, apart.
LEMMA CarveFacts ==
  ASSUME NEW f \in Nat, NEW size \in Nat \ {0}
  PROVE  /\ Carve(f, size) \in Seq(Nat)
         /\ \A k \in 1 .. Len(Carve(f, size)) :
              /\ f * PAGE_SIZE + FrameHeader <= Carve(f, size)[k]
              /\ Carve(f, size)[k] + size <= f * PAGE_SIZE + PAGE_SIZE
         /\ \A j, k \in 1 .. Len(Carve(f, size)) :
              j < k => Carve(f, size)[k] + size <= Carve(f, size)[j]
         /\ ALIGN_UP(FrameHeader, PtrAlign) + size <= PAGE_SIZE => Carve(f, size) # << >>
<1>1. PICK h : h = ALIGN_UP(FrameHeader, PtrAlign) /\ h \in Nat /\ FrameHeader <= h
  BY HeapAssumption, AlignUp
<1>2. PICK b : b = f * PAGE_SIZE /\ b \in Nat
  BY SizeAssumption
<1>3. PICK P : P = PAGE_SIZE /\ P \in Nat \ {0}
  BY SizeAssumption
<1>4. (f + 1) * PAGE_SIZE = b + P
  BY <1>2, <1>3
<1>5. PICK m : m = (f + 1) * PAGE_SIZE - (b + h) /\ m = P - h /\ m \in Int
  BY <1>1, <1>2, <1>3, <1>4
<1>6. PICK n : n = m \div size
  OBVIOUS
<1>7. n \in Int /\ n * size <= m /\ m < n * size + size
  BY <1>5, <1>6, SMT
<1>8. Carve(f, size) = [k \in 1 .. n |-> (b + h) + (n - k) * size]
  BY <1>1, <1>2, <1>5, <1>6 DEF Carve
<1>9. ASSUME NEW k \in 1 .. n
      PROVE  /\ (n - k) * size \in Nat
             /\ (n - k) * size + size <= m
             /\ \A j \in 1 .. n : j < k => (n - k) * size + size <= (n - j) * size
  <2>1. n - k \in Nat /\ n - k + 1 <= n
    BY <1>7
  <2>2. (n - k + 1) * size = (n - k) * size + size
    BY <2>1
  <2>3. (n - k + 1) * size <= n * size
    BY <1>7, <2>1
  <2>4. ASSUME NEW j \in 1 .. n, j < k PROVE (n - k) * size + size <= (n - j) * size
    <3>1. n - k + 1 <= n - j /\ n - j \in Nat
      BY <1>7, <2>4
    <3>2. (n - k + 1) * size <= (n - j) * size
      BY <2>1, <3>1
    <3> QED BY <2>2, <3>2
  <2>5. (n - k) * size \in Nat
    BY <2>1
  <2>6. (n - k) * size + size <= m
    <3>1. PICK u \in Nat : u = (n - k) * size
      BY <2>5
    <3>2. PICK w \in Int : w = n * size
      BY <1>7
    <3>3. u + size <= w /\ w <= m
      BY <1>7, <2>2, <2>3, <3>1, <3>2
    <3> QED BY <1>5, <3>1, <3>2, <3>3
  <2> QED BY <2>4, <2>5, <2>6
<1>10. CASE n >= 1
  <2>1. n \in Nat
    BY <1>7, <1>10
  <2>2. \A k \in 1 .. n : (b + h) + (n - k) * size \in Nat
    BY <1>1, <1>2, <1>9
  <2>3. Carve(f, size) \in [1 .. n -> Nat]
    BY <1>8, <2>2
  <2>4. Carve(f, size) \in Seq(Nat) /\ Len(Carve(f, size)) = n
    BY <2>1, <2>3
  <2>5. \A k \in 1 .. n : Carve(f, size)[k] = (b + h) + (n - k) * size
    BY <1>8
  <2>6. ASSUME NEW k \in 1 .. n
        PROVE  /\ f * PAGE_SIZE + FrameHeader <= Carve(f, size)[k]
               /\ Carve(f, size)[k] + size <= f * PAGE_SIZE + PAGE_SIZE
               /\ \A j \in 1 .. n : j < k => Carve(f, size)[k] + size <= Carve(f, size)[j]
    <3>1. PICK u \in Nat : u = (n - k) * size /\ u + size <= m
      BY <1>9
    <3>2. Carve(f, size)[k] = b + h + u
      BY <2>5, <3>1
    <3>3. ASSUME NEW j \in 1 .. n, j < k PROVE Carve(f, size)[k] + size <= Carve(f, size)[j]
      <4>1. PICK v \in Nat : v = (n - j) * size
        BY <1>9
      <4>2. u + size <= v
        BY <1>9, <3>1, <3>3, <4>1
      <4>3. Carve(f, size)[j] = b + h + v
        BY <2>5, <4>1
      <4> QED BY <1>1, <1>2, <3>2, <4>2, <4>3
    <3> QED BY <1>1, <1>2, <1>3, <1>5, <3>1, <3>2, <3>3, HeapAssumption
  <2>7. Carve(f, size) # << >>
    BY <1>10, <2>4
  <2> QED BY <2>4, <2>6, <2>7
<1>11. CASE n <= 0
  <2>1. Carve(f, size) = << >>
    <3>1. 1 .. n = {}
      BY <1>7, <1>11
    <3> QED BY <1>8, <3>1
  <2>2. ~(ALIGN_UP(FrameHeader, PtrAlign) + size <= PAGE_SIZE)
    <3>1. n * size <= 0 * size
      BY <1>7, <1>11
    <3> QED BY <1>1, <1>3, <1>5, <1>7, <3>1
  <2> QED BY <2>1, <2>2
<1> QED BY <1>7, <1>10, <1>11

----------------------------------------------------------------------------
(* The pieces as a function of the caches, blocks, objects and frames.     *)

SlabP(cs) == {Piece("slab", f, 0, f * PAGE_SIZE, FrameHeader) :
                f \in UNION {cs[c].slabs : c \in 1 .. Len(cs)}}
FreeOf(cs, c) == {Piece("free", c, k, cs[c].free_objects[k], cs[c].obj_size) :
                    k \in 1 .. Len(cs[c].free_objects)}
FreeP(cs) == UNION {FreeOf(cs, c) : c \in 1 .. Len(cs)}
CacheP(cs) == {Piece("cache", c, 0, cs[c].at, CacheBytes) : c \in 2 .. Len(cs)}
BlockLen(cs, b) ==
  IF b.cache = NULL THEN num_pages(b.size) * PAGE_SIZE ELSE cs[b.cache].obj_size
BlockP(cs, lv) == {Piece("block", a, 0, a, BlockLen(cs, lv[a])) : a \in DOMAIN lv}
ObjP(cs, ob) == {Piece("object", o[1], o[2], o[2], cs[o[1]].obj_size) : o \in ob}
FrameP(fr) == {Piece("frame", f, 0, f * PAGE_SIZE, PAGE_SIZE) : f \in fr}

Whole(cs, lv, ob, fr) ==
  SlabP(cs) \cup FreeP(cs) \cup CacheP(cs) \cup BlockP(cs, lv) \cup ObjP(cs, ob) \cup FrameP(fr)

LEMMA PiecesAreWhole == Pieces = Whole(caches, live, objs, others \cup CallFrames)
<1>1. \A a \in DOMAIN live : BlockLen(caches, live[a]) = Extent(a)
  BY DEF BlockLen, Extent
<1>2. BlockP(caches, live) = {Piece("block", a, 0, a, Extent(a)) : a \in DOMAIN live}
  BY <1>1 DEF BlockP
<1>3. PICK S : S = {Piece("slab", f, 0, f * PAGE_SIZE, FrameHeader) : f \in SlabFrames}
  OBVIOUS
<1>4. PICK B : B = {Piece("block", a, 0, a, Extent(a)) : a \in DOMAIN live}
  OBVIOUS
<1>5. S = SlabP(caches)
  BY <1>3 DEF SlabP, SlabFrames
<1>6. B = BlockP(caches, live)
  BY <1>2, <1>4
<1>7. Pieces = {Piece("slab", f, 0, f * PAGE_SIZE, FrameHeader) : f \in SlabFrames}
                 \cup FreeP(caches) \cup CacheP(caches)
                 \cup {Piece("block", a, 0, a, Extent(a)) : a \in DOMAIN live}
                 \cup ObjP(caches, objs) \cup FrameP(others \cup CallFrames)
  BY DEF Pieces, FreeP, FreeOf, CacheP, ObjP, FrameP
<1>8. Pieces = S \cup FreeP(caches) \cup CacheP(caches) \cup B
                 \cup ObjP(caches, objs) \cup FrameP(others \cup CallFrames)
  BY <1>3, <1>4, <1>7
<1> QED BY <1>5, <1>6, <1>8, Zenon DEF Whole

\* Blocks and objects belong to caches there are.
Refers(cs, lv, ob) ==
  /\ \A a \in DOMAIN lv : lv[a].cache \in 1 .. Len(cs) \cup {NULL}
  /\ \A o \in ob : o[1] \in 1 .. Len(cs)

\* Caches of the same sizes in the same places, and with the same slabs.
SameSizes(cs, new) ==
  /\ Len(new) = Len(cs)
  /\ \A c \in 1 .. Len(cs) : new[c].obj_size = cs[c].obj_size /\ new[c].at = cs[c].at

SameShape(cs, new) ==
  /\ SameSizes(cs, new)
  /\ \A c \in 1 .. Len(cs) : new[c].slabs = cs[c].slabs

LEMMA SameSizePieces ==
  ASSUME NEW cs, NEW new, NEW lv, NEW ob, SameSizes(cs, new), Refers(cs, lv, ob),
         Len(cs) \in Nat
  PROVE  /\ CacheP(new) = CacheP(cs)
         /\ BlockP(new, lv) = BlockP(cs, lv) /\ ObjP(new, ob) = ObjP(cs, ob)
<1>1. CacheP(new) = CacheP(cs)
  <2>1. \A c \in 2 .. Len(cs) : new[c].at = cs[c].at
    BY DEF SameSizes
  <2> QED BY <2>1 DEF SameSizes, CacheP
<1>2. BlockP(new, lv) = BlockP(cs, lv)
  <2>1. \A a \in DOMAIN lv : BlockLen(new, lv[a]) = BlockLen(cs, lv[a])
    BY DEF SameSizes, Refers, BlockLen
  <2> QED BY <2>1 DEF BlockP
<1>3. ObjP(new, ob) = ObjP(cs, ob)
  <2>1. \A o \in ob : new[o[1]].obj_size = cs[o[1]].obj_size
    BY DEF SameSizes, Refers
  <2> QED BY <2>1 DEF ObjP
<1> QED BY <1>1, <1>2, <1>3

\* The pieces Y are cut out of the pieces X.
Cut(X, Y) ==
  /\ \A p \in Y : p.start \in Nat /\ p.len \in Nat \ {0}
  /\ \A p, q \in Y : \A x \in Nat : Holds(p, x) /\ Holds(q, x) => p = q
  /\ \A p \in Y : \A x \in Nat : Holds(p, x) => \E q \in X : Holds(q, x)

LEMMA Replace ==
  ASSUME NEW A, NEW H, NEW X \in SUBSET A, NEW Y, NEW B \in SUBSET ((A \ X) \cup Y),
         Good(A, H), Cut(X, Y)
  PROVE  Good(B, H)
<1>1. \A p \in B : p.start \in Nat /\ p.len \in Nat \ {0}
  BY DEF Good, Cut
<1>2. ASSUME NEW p \in B, NEW q \in B, NEW x \in Nat, Holds(p, x), Holds(q, x) PROVE p = q
  <2>1. \A r \in A \ X : \A y \in Y : ~(Holds(r, x) /\ Holds(y, x))
    <3> SUFFICES ASSUME NEW r \in A \ X, NEW y \in Y, Holds(r, x), Holds(y, x) PROVE FALSE
      OBVIOUS
    <3>1. PICK z \in X : Holds(z, x)
      BY DEF Cut
    <3>2. r = z
      BY <3>1 DEF Good
    <3> QED BY <3>1, <3>2
  <2>2. CASE p \in A /\ q \in A
    BY <1>2, <2>2 DEF Good
  <2>3. CASE p \in Y /\ q \in Y
    BY <1>2, <2>3 DEF Cut
  <2> QED BY <1>2, <2>1, <2>2, <2>3
<1>3. ASSUME NEW p \in B, NEW x \in Nat, Holds(p, x) PROVE x \div PAGE_SIZE \in H
  <2>1. CASE p \in A
    BY <1>3, <2>1 DEF Good
  <2>2. CASE p \in Y
    <3>1. PICK z \in X : Holds(z, x)
      BY <1>3, <2>2 DEF Cut
    <3> QED BY <3>1 DEF Good
  <2> QED BY <2>1, <2>2
<1> QED BY <1>1, <1>2, <1>3 DEF Good

LEMMA GoodSubset ==
  ASSUME NEW A, NEW H, Good(A, H), NEW B \in SUBSET A
  PROVE  Good(B, H)
  BY DEF Good

\* A frame that no piece lies in joins.
LEMMA AddFrame ==
  ASSUME NEW A, NEW H, Good(A, H), NEW f \in Nat, f \notin H, NEW p,
         p.start = f * PAGE_SIZE, p.len = PAGE_SIZE
  PROVE  Good(A \cup {p}, H \cup {f})
<1>1. PAGE_SIZE \in Nat \ {0} /\ f * PAGE_SIZE \in Nat
  BY SizeAssumption
<1>2. \A x \in Nat : Holds(p, x) <=> x \div PAGE_SIZE = f
  BY PageOf DEF Holds
<1>3. \A q \in A : \A x \in Nat : ~(Holds(p, x) /\ Holds(q, x))
  BY <1>2 DEF Good
<1>4. \A q \in A \cup {p} : q.start \in Nat /\ q.len \in Nat \ {0}
  BY <1>1 DEF Good
<1>5. \A q, r \in A \cup {p} : \A x \in Nat : Holds(q, x) /\ Holds(r, x) => q = r
  BY <1>3 DEF Good
<1>6. \A q \in A \cup {p} : \A x \in Nat : Holds(q, x) => x \div PAGE_SIZE \in H \cup {f}
  BY <1>2 DEF Good
<1> QED BY <1>4, <1>5, <1>6 DEF Good

\* A frame of its own leaves.
LEMMA DropFrame ==
  ASSUME NEW A, NEW H, Good(A, H), NEW f \in Nat, NEW p \in A,
         p.start = f * PAGE_SIZE, p.len = PAGE_SIZE, NEW B \in SUBSET (A \ {p})
  PROVE  Good(B, H \ {f})
<1>1. \A x \in Nat : Holds(p, x) <=> x \div PAGE_SIZE = f
  BY PageOf DEF Holds
<1>2. \A q \in B : \A x \in Nat : Holds(q, x) => ~Holds(p, x)
  BY DEF Good
<1> QED BY <1>1, <1>2 DEF Good

----------------------------------------------------------------------------
(* An object is taken from a free list, given back to one, or cut out of a *)
(* new frame.                                                              *)

\* Pieces of different kinds differ.
LEMMA Kinds ==
  ASSUME NEW cs, NEW lv, NEW ob, NEW fr
  PROVE  /\ \A p \in SlabP(cs) : p.who[1] = "slab"
         /\ \A p \in FreeP(cs) : p.who[1] = "free"
         /\ \A p \in CacheP(cs) : p.who[1] = "cache"
         /\ \A p \in BlockP(cs, lv) : p.who[1] = "block"
         /\ \A p \in ObjP(cs, ob) : p.who[1] = "object"
         /\ \A p \in FrameP(fr) : p.who[1] = "frame"
  BY DEF SlabP, FreeP, FreeOf, CacheP, BlockP, ObjP, FrameP, Piece

LEMMA FreeKinds ==
  ASSUME NEW cs, NEW c
  PROVE  \A p \in FreeOf(cs, c) : p.who[1] = "free" /\ p.who[2] = c
  BY DEF FreeOf, Piece

\* A step that changes the free list of one cache.
LEMMA FreeListPieces ==
  ASSUME NEW cs, NEW new, NEW c \in 1 .. Len(cs), NEW lv, NEW ob, NEW fr,
         SameShape(cs, new), Refers(cs, lv, ob), Len(cs) \in Nat,
         \A d \in 1 .. Len(cs) : d # c => new[d] = cs[d]
  PROVE  Whole(new, lv, ob, fr)
           \subseteq (Whole(cs, lv, ob, fr) \ FreeOf(cs, c)) \cup FreeOf(new, c)
<1> DEFINE A == Whole(cs, lv, ob, fr)
           X == FreeOf(cs, c)
           Y == FreeOf(new, c)
<1>1. /\ SlabP(new) = SlabP(cs) /\ CacheP(new) = CacheP(cs)
      /\ BlockP(new, lv) = BlockP(cs, lv) /\ ObjP(new, ob) = ObjP(cs, ob)
  BY SameSizePieces DEF SameShape, SameSizes, SlabP
<1>2. \A d \in 1 .. Len(cs) : d # c => FreeOf(new, d) = FreeOf(cs, d)
  BY DEF FreeOf
<1>3. FreeP(new) \subseteq (A \ X) \cup Y
  <2> SUFFICES ASSUME NEW d \in 1 .. Len(cs), NEW p \in FreeOf(new, d)
               PROVE  p \in (A \ X) \cup Y
    BY DEF FreeP, SameShape, SameSizes
  <2>1. CASE d = c
    BY <2>1
  <2>2. CASE d # c
    <3>1. p \in FreeOf(cs, d) /\ p \in A
      BY <1>2, <2>2 DEF FreeP, Whole
    <3>2. p \notin X
      BY <2>2, <3>1, FreeKinds
    <3> QED BY <3>1, <3>2
  <2> QED BY <2>1, <2>2
<1>4. SlabP(cs) \cup CacheP(cs) \cup BlockP(cs, lv) \cup ObjP(cs, ob) \cup FrameP(fr)
        \subseteq A \ X
  <2>1. \A p \in X : p.who[1] = "free"
    BY FreeKinds
  <2>2. \A p \in SlabP(cs) \cup CacheP(cs) \cup BlockP(cs, lv) \cup ObjP(cs, ob) \cup FrameP(fr) :
          p.who[1] # "free"
    BY Kinds
  <2> QED BY <2>1, <2>2 DEF Whole
<1> QED BY <1>1, <1>3, <1>4 DEF Whole

PopOf(cs, c) == [cs EXCEPT ![c].free_objects = Tail(@)]

LEMMA PopShape ==
  ASSUME NEW cs \in Seq(CacheRecs), NEW c \in 1 .. Len(cs), cs[c].free_objects # << >>
  PROVE  /\ PopOf(cs, c) \in Seq(CacheRecs)
         /\ SameShape(cs, PopOf(cs, c))
         /\ PopOf(cs, c)[c].free_objects = Tail(cs[c].free_objects)
         /\ \A d \in 1 .. Len(cs) : d # c => PopOf(cs, c)[d] = cs[d]
<1>1. PICK n \in Nat : n = Len(cs) /\ cs \in [1 .. n -> CacheRecs]
  OBVIOUS
<1>2. cs[c] \in CacheRecs /\ cs[c].free_objects \in Seq(Nat)
  BY <1>1 DEF CacheRecs
<1>3. PICK t : t = Tail(cs[c].free_objects) /\ t \in Seq(Nat)
  <2>1. PICK fl \in Seq(Nat) : fl = cs[c].free_objects /\ fl # << >>
    BY <1>2
  <2>2. Tail(fl) \in Seq(Nat)
    BY <2>1
  <2> QED BY <2>1, <2>2
<1>4. PopOf(cs, c) = [cs EXCEPT ![c] = [cs[c] EXCEPT !.free_objects = t]]
  BY <1>1, <1>3 DEF PopOf
<1>5. [cs[c] EXCEPT !.free_objects = t] \in CacheRecs
  BY <1>2, <1>3 DEF CacheRecs
<1>6. PopOf(cs, c) \in [1 .. n -> CacheRecs]
  BY <1>1, <1>4, <1>5
<1>7. PopOf(cs, c) \in Seq(CacheRecs) /\ Len(PopOf(cs, c)) = n
  BY <1>6
<1>8. PopOf(cs, c)[c] = [cs[c] EXCEPT !.free_objects = t]
  BY <1>1, <1>4
<1>9. \A d \in 1 .. Len(cs) : d # c => PopOf(cs, c)[d] = cs[d]
  BY <1>1, <1>4
<1>10. /\ PopOf(cs, c)[c].free_objects = t /\ PopOf(cs, c)[c].obj_size = cs[c].obj_size
       /\ PopOf(cs, c)[c].slabs = cs[c].slabs /\ PopOf(cs, c)[c].at = cs[c].at
  BY <1>2, <1>8 DEF CacheRecs
<1> QED BY <1>1, <1>3, <1>7, <1>9, <1>10 DEF SameShape, SameSizes

\* slab_alloc takes the head of a free list and gives it out.
LEMMA Pop ==
  ASSUME NEW cs \in Seq(CacheRecs), NEW c \in 1 .. Len(cs), cs[c].free_objects # << >>,
         NEW lv, NEW ob, NEW fr, NEW H, Refers(cs, lv, ob), Good(Whole(cs, lv, ob, fr), H),
         NEW q, q.start = Head(cs[c].free_objects), q.len \in 1 .. cs[c].obj_size
  PROVE  Good(Whole(PopOf(cs, c), lv, ob, fr) \cup {q}, H)
<1>1. /\ PopOf(cs, c) \in Seq(CacheRecs) /\ SameShape(cs, PopOf(cs, c))
      /\ PopOf(cs, c)[c].free_objects = Tail(cs[c].free_objects)
      /\ \A d \in 1 .. Len(cs) : d # c => PopOf(cs, c)[d] = cs[d]
  BY PopShape
<1>2. cs[c] \in CacheRecs /\ Len(cs) \in Nat
  OBVIOUS
<1>3. PICK fl \in Seq(Nat), sz \in Nat \ {0} :
        fl = cs[c].free_objects /\ sz = cs[c].obj_size /\ fl # << >>
  BY <1>2 DEF CacheRecs
<1>4. PICK n \in Nat : n = Len(fl) /\ n >= 1
  BY <1>3
<1>5. \A k \in 1 .. n : fl[k] \in Nat
  BY <1>3, <1>4
<1>6. PICK new : new = PopOf(cs, c)
  OBVIOUS
<1>7. /\ new[c].free_objects = Tail(fl) /\ Len(Tail(fl)) = n - 1
      /\ \A k \in 1 .. n - 1 : Tail(fl)[k] = fl[k + 1]
  BY <1>1, <1>3, <1>4, <1>6
<1>8. FreeOf(new, c) = {Piece("free", c, k, fl[k + 1], sz) : k \in 1 .. n - 1}
  <2>1. new[c].obj_size = sz
    BY <1>1, <1>3, <1>6 DEF SameShape, SameSizes
  <2> QED BY <1>7, <2>1 DEF FreeOf
<1> DEFINE Old(k) == Piece("free", c, k, fl[k], sz)
           A == Whole(cs, lv, ob, fr)
           X == FreeOf(cs, c)
           Y == FreeOf(new, c) \cup {q}
<1>9. /\ X \subseteq A
      /\ \A k \in 1 .. n : Old(k) \in X /\ Old(k).start = fl[k] /\ Old(k).len = sz
  BY <1>3, <1>4 DEF FreeOf, FreeP, Whole, Piece
<1>10. \A j, k \in 1 .. n : \A x \in Nat : Holds(Old(j), x) /\ Holds(Old(k), x) => j = k
  <2> SUFFICES ASSUME NEW j \in 1 .. n, NEW k \in 1 .. n, NEW x \in Nat,
                      Holds(Old(j), x), Holds(Old(k), x)
               PROVE  j = k
    OBVIOUS
  <2>1. Old(j) = Old(k)
    BY <1>9 DEF Good
  <2>2. Old(j).who = Old(k).who
    BY <2>1
  <2> QED BY <2>2 DEF Piece
\* Where the new pieces come from.
<1>11. /\ q.start \in Nat /\ q.len \in Nat \ {0}
       /\ \A x \in Nat : Holds(q, x) => Holds(Old(1), x)
  <2>1. q.start = fl[1] /\ q.start \in Nat /\ q.len \in Nat \ {0} /\ q.len <= sz
    BY <1>3, <1>4, <1>5
  <2>2. Old(1).start = fl[1] /\ Old(1).len = sz
    BY <1>4, <1>9
  <2> HIDE DEF Old
  <2> QED BY <2>1, <2>2 DEF Holds
<1>12. ASSUME NEW p \in FreeOf(new, c)
       PROVE  \E k \in 2 .. n :
                /\ p = Piece("free", c, k - 1, fl[k], sz)
                /\ p.start \in Nat /\ p.len \in Nat \ {0}
                /\ \A x \in Nat : Holds(p, x) => Holds(Old(k), x)
  <2>1. PICK j \in 1 .. n - 1 : p = Piece("free", c, j, fl[j + 1], sz)
    BY <1>8
  <2>2. PICK k \in 2 .. n : k = j + 1 /\ j = k - 1
    BY <1>4
  <2>3. p.start = fl[k] /\ p.len = sz /\ k \in 1 .. n
    BY <2>1, <2>2 DEF Piece
  <2>4. \A x \in Nat : Holds(p, x) => Holds(Old(k), x)
    BY <1>9, <2>3 DEF Holds
  <2>5. p.start \in Nat /\ p.len \in Nat \ {0}
    BY <1>3, <1>5, <2>3
  <2> QED BY <2>1, <2>2, <2>4, <2>5
<1>13. \A p \in Y : p.start \in Nat /\ p.len \in Nat \ {0}
  BY <1>11, <1>12
<1>14. \A p, r \in Y : \A x \in Nat : Holds(p, x) /\ Holds(r, x) => p = r
  <2> SUFFICES ASSUME NEW p \in Y, NEW r \in Y, NEW x \in Nat, Holds(p, x), Holds(r, x)
               PROVE  p = r
    OBVIOUS
  <2>1. CASE p = q /\ r = q
    BY <2>1
  <2>2. CASE p \in FreeOf(new, c) /\ r \in FreeOf(new, c)
    <3>1. PICK j \in 2 .. n : p = Piece("free", c, j - 1, fl[j], sz) /\ Holds(Old(j), x)
      BY <1>12, <2>2
    <3>2. PICK k \in 2 .. n : r = Piece("free", c, k - 1, fl[k], sz) /\ Holds(Old(k), x)
      BY <1>12, <2>2
    <3>3. j \in 1 .. n /\ k \in 1 .. n
      OBVIOUS
    <3>4. j = k
      BY <1>10, <3>1, <3>2, <3>3
    <3> QED BY <3>1, <3>2, <3>4
  <2>3. \A s \in FreeOf(new, c) : ~(Holds(s, x) /\ Holds(q, x))
    <3> SUFFICES ASSUME NEW s \in FreeOf(new, c), Holds(s, x), Holds(q, x) PROVE FALSE
      OBVIOUS
    <3>1. PICK k \in 2 .. n : Holds(Old(k), x)
      BY <1>12
    <3>2. 1 \in 1 .. n /\ k \in 1 .. n /\ k # 1
      BY <1>4
    <3>3. Holds(Old(1), x)
      BY <1>11
    <3> HIDE DEF Old
    <3> QED BY <1>10, <3>1, <3>2, <3>3
  <2> QED BY <2>1, <2>2, <2>3
<1>15. \A p \in Y : \A x \in Nat : Holds(p, x) => \E r \in X : Holds(r, x)
  <2> SUFFICES ASSUME NEW p \in Y, NEW x \in Nat, Holds(p, x) PROVE \E r \in X : Holds(r, x)
    OBVIOUS
  <2>1. \A k \in 1 .. n : Old(k) \in X
    BY <1>9
  <2>2. CASE p = q
    <3>1. 1 \in 1 .. n /\ Holds(Old(1), x)
      BY <1>4, <1>11, <2>2
    <3> QED BY <2>1, <3>1
  <2>3. CASE p \in FreeOf(new, c)
    <3>1. PICK k \in 2 .. n : Holds(Old(k), x)
      BY <1>12, <2>3
    <3>2. k \in 1 .. n
      OBVIOUS
    <3> QED BY <2>1, <3>1, <3>2
  <2> QED BY <2>2, <2>3
<1>16. Cut(X, Y)
  BY <1>13, <1>14, <1>15 DEF Cut
<1>17. Whole(new, lv, ob, fr) \subseteq (A \ X) \cup Y
  BY <1>1, <1>2, <1>6, FreeListPieces
<1>18. Whole(new, lv, ob, fr) \cup {q} \in SUBSET ((A \ X) \cup Y)
  BY <1>17
<1> HIDE DEF X, Y, A
<1>19. X \in SUBSET A /\ Good(A, H)
  BY <1>9 DEF A
<1>20. PICK B : B = Whole(new, lv, ob, fr) \cup {q}
  OBVIOUS
<1>21. Good(B, H)
  BY <1>16, <1>18, <1>19, <1>20, Replace
<1> QED BY <1>6, <1>20, <1>21

LEMMA PrependFacts ==
  ASSUME NEW a \in Nat, NEW s \in Seq(Nat)
  PROVE  /\ <<a>> \o s \in Seq(Nat) /\ Len(<<a>> \o s) = Len(s) + 1
         /\ (<<a>> \o s)[1] = a /\ \A k \in 2 .. Len(s) + 1 : (<<a>> \o s)[k] = s[k - 1]
<1>1. <<a>> \in Seq(Nat) /\ Len(<<a>>) = 1 /\ <<a>>[1] = a
  OBVIOUS
<1>2. PICK u \in Seq(Nat) : u = <<a>> /\ Len(u) = 1 /\ u[1] = a
  BY <1>1, Zenon
<1>3. /\ u \o s \in Seq(Nat) /\ Len(u \o s) = Len(u) + Len(s)
  BY <1>2
<1>4. \A k \in 1 .. Len(u) + Len(s) : (u \o s)[k] = IF k <= Len(u) THEN u[k] ELSE s[k - Len(u)]
  BY <1>2
<1> QED BY <1>2, <1>3, <1>4

PushOf(cs, c, a) == [cs EXCEPT ![c].free_objects = <<a>> \o @]

LEMMA PushShape ==
  ASSUME NEW cs \in Seq(CacheRecs), NEW c \in 1 .. Len(cs), NEW a \in Nat
  PROVE  /\ PushOf(cs, c, a) \in Seq(CacheRecs)
         /\ SameShape(cs, PushOf(cs, c, a))
         /\ PushOf(cs, c, a)[c].free_objects = <<a>> \o cs[c].free_objects
         /\ \A d \in 1 .. Len(cs) : d # c => PushOf(cs, c, a)[d] = cs[d]
<1>1. PICK n \in Nat : n = Len(cs) /\ cs \in [1 .. n -> CacheRecs]
  OBVIOUS
<1>2. cs[c] \in CacheRecs /\ cs[c].free_objects \in Seq(Nat)
  BY <1>1 DEF CacheRecs
<1>3. PICK t : t = <<a>> \o cs[c].free_objects /\ t \in Seq(Nat)
  BY <1>2, PrependFacts
<1>4. PushOf(cs, c, a) = [cs EXCEPT ![c] = [cs[c] EXCEPT !.free_objects = t]]
  BY <1>1, <1>3 DEF PushOf
<1>5. [cs[c] EXCEPT !.free_objects = t] \in CacheRecs
  BY <1>2, <1>3 DEF CacheRecs
<1>6. PushOf(cs, c, a) \in [1 .. n -> CacheRecs]
  BY <1>1, <1>4, <1>5
<1>7. PushOf(cs, c, a) \in Seq(CacheRecs) /\ Len(PushOf(cs, c, a)) = n
  BY <1>6
<1>8. PushOf(cs, c, a)[c] = [cs[c] EXCEPT !.free_objects = t]
  BY <1>1, <1>4
<1>9. \A d \in 1 .. Len(cs) : d # c => PushOf(cs, c, a)[d] = cs[d]
  BY <1>1, <1>4
<1>10. /\ PushOf(cs, c, a)[c].free_objects = t
       /\ PushOf(cs, c, a)[c].obj_size = cs[c].obj_size
       /\ PushOf(cs, c, a)[c].slabs = cs[c].slabs /\ PushOf(cs, c, a)[c].at = cs[c].at
  BY <1>2, <1>8 DEF CacheRecs
<1> QED BY <1>1, <1>3, <1>7, <1>9, <1>10 DEF SameShape, SameSizes

\* slab_free puts what someone held into a free list; it may be larger than the
\* objects of the cache.
LEMMA Push ==
  ASSUME NEW cs \in Seq(CacheRecs), NEW c \in 1 .. Len(cs), NEW a \in Nat,
         NEW lv, NEW ob, NEW fr, NEW H, Refers(cs, lv, ob), NEW q,
         q.start = a, q.len >= cs[c].obj_size, q \notin Whole(cs, lv, ob, fr),
         Good(Whole(cs, lv, ob, fr) \cup {q}, H)
  PROVE  Good(Whole(PushOf(cs, c, a), lv, ob, fr), H)
<1>1. /\ PushOf(cs, c, a) \in Seq(CacheRecs) /\ SameShape(cs, PushOf(cs, c, a))
      /\ PushOf(cs, c, a)[c].free_objects = <<a>> \o cs[c].free_objects
      /\ \A d \in 1 .. Len(cs) : d # c => PushOf(cs, c, a)[d] = cs[d]
  BY PushShape
<1>2. cs[c] \in CacheRecs /\ Len(cs) \in Nat
  OBVIOUS
<1>3. PICK fl \in Seq(Nat), sz \in Nat \ {0} :
        fl = cs[c].free_objects /\ sz = cs[c].obj_size
  BY <1>2 DEF CacheRecs
<1>4. PICK n \in Nat : n = Len(fl)
  BY <1>3
<1>5. \A k \in 1 .. n : fl[k] \in Nat
  BY <1>3, <1>4
<1>6. PICK new : new = PushOf(cs, c, a)
  OBVIOUS
<1>7. PICK t : /\ t = <<a>> \o fl /\ Len(t) = n + 1
               /\ t[1] = a /\ \A k \in 2 .. n + 1 : t[k] = fl[k - 1]
  <2>1. /\ Len(<<a>> \o fl) = n + 1 /\ (<<a>> \o fl)[1] = a
        /\ \A k \in 2 .. n + 1 : (<<a>> \o fl)[k] = fl[k - 1]
    BY <1>3, <1>4, PrependFacts
  <2> QED BY <2>1, Zenon
<1>8. FreeOf(new, c) = {Piece("free", c, k, t[k], sz) : k \in 1 .. n + 1}
  <2>1. new[c].obj_size = sz /\ new[c].free_objects = t
    BY <1>1, <1>3, <1>6, <1>7 DEF SameShape, SameSizes
  <2> QED BY <1>7, <2>1 DEF FreeOf
<1> DEFINE Old(k) == Piece("free", c, k, fl[k], sz)
           W == Whole(cs, lv, ob, fr)
           A == W \cup {q}
           X == FreeOf(cs, c) \cup {q}
           Y == FreeOf(new, c)
           Src(k) == IF k = 1 THEN q ELSE Old(k - 1)
<1>9. /\ FreeOf(cs, c) \subseteq W
      /\ \A k \in 1 .. n : Old(k) \in FreeOf(cs, c) /\ Old(k).start = fl[k] /\ Old(k).len = sz
  BY <1>3, <1>4 DEF FreeOf, FreeP, Whole, Piece
<1>10. q.start \in Nat /\ q.len \in Nat \ {0} /\ sz <= q.len
  BY <1>3 DEF Good
<1>11. ASSUME NEW k \in 1 .. n + 1
       PROVE  Src(k) \in X /\ Src(k).start = t[k] /\ sz <= Src(k).len /\ t[k] \in Nat
  <2>1. CASE k = 1
    BY <1>7, <1>10, <2>1
  <2>2. CASE k # 1
    <3>1. PICK j \in 1 .. n : j = k - 1
      BY <1>4, <2>2
    <3>2. t[k] = fl[j] /\ fl[j] \in Nat
      BY <1>4, <1>5, <1>7, <2>2, <3>1
    <3>3. Old(j) \in X /\ Old(j).start = fl[j] /\ Old(j).len = sz
      BY <1>9
    <3>4. Src(k) = Old(j)
      BY <2>2, <3>1
    <3> HIDE DEF Src, Old
    <3> QED BY <1>3, <3>2, <3>3, <3>4
  <2> QED BY <2>1, <2>2
<1>12. \A j, k \in 1 .. n + 1 : Src(j) = Src(k) => j = k
  <2> SUFFICES ASSUME NEW j \in 1 .. n + 1, NEW k \in 1 .. n + 1, Src(j) = Src(k) PROVE j = k
    OBVIOUS
  <2>1. \A i \in 1 .. n : Old(i) # q
    BY <1>9
  <2>2. \A i \in 1 .. n + 1 : i # 1 => i - 1 \in 1 .. n
    BY <1>4
  <2>3. \A h, i \in 1 .. n : Old(h) = Old(i) => h = i
    <3> SUFFICES ASSUME NEW h \in 1 .. n, NEW i \in 1 .. n, Old(h) = Old(i) PROVE h = i
      OBVIOUS
    <3>1. Old(h).who = Old(i).who
      OBVIOUS
    <3> QED BY <3>1 DEF Piece
  <2> HIDE DEF Old
  <2>4. CASE j = 1 \/ k = 1
    BY <2>1, <2>2, <2>4
  <2>5. CASE j # 1 /\ k # 1
    <3>1. Old(j - 1) = Old(k - 1)
      BY <2>5
    <3>2. j - 1 = k - 1
      BY <2>2, <2>3, <2>5, <3>1
    <3> QED BY <3>2
  <2> QED BY <2>4, <2>5
<1> HIDE DEF Src
<1>13. ASSUME NEW p \in Y
       PROVE  \E k \in 1 .. n + 1 :
                /\ p = Piece("free", c, k, t[k], sz)
                /\ p.start \in Nat /\ p.len \in Nat \ {0}
                /\ \A x \in Nat : Holds(p, x) => Holds(Src(k), x)
  <2>1. PICK k \in 1 .. n + 1 : p = Piece("free", c, k, t[k], sz)
    BY <1>8
  <2>2. p.start = t[k] /\ p.len = sz
    BY <2>1 DEF Piece
  <2>3. Src(k).start = t[k] /\ sz <= Src(k).len /\ t[k] \in Nat /\ Src(k).len \in Nat
    <3>1. Src(k) \in A
      BY <1>9, <1>11
    <3> QED BY <1>11, <3>1 DEF Good
  <2>4. \A x \in Nat : Holds(p, x) => Holds(Src(k), x)
    BY <1>3, <2>2, <2>3 DEF Holds
  <2>5. p.start \in Nat /\ p.len \in Nat \ {0}
    BY <1>3, <2>2, <2>3
  <2> QED BY <2>1, <2>4, <2>5
<1>14. Cut(X, Y)
  <2>1. \A p \in Y : p.start \in Nat /\ p.len \in Nat \ {0}
    BY <1>13
  <2>2. ASSUME NEW p \in Y, NEW r \in Y, NEW x \in Nat, Holds(p, x), Holds(r, x) PROVE p = r
    <3>1. PICK j \in 1 .. n + 1 : p = Piece("free", c, j, t[j], sz) /\ Holds(Src(j), x)
      BY <1>13, <2>2
    <3>2. PICK k \in 1 .. n + 1 : r = Piece("free", c, k, t[k], sz) /\ Holds(Src(k), x)
      BY <1>13, <2>2
    <3>3. Src(j) \in A /\ Src(k) \in A
      BY <1>9, <1>11
    <3>4. Src(j) = Src(k)
      BY <3>1, <3>2, <3>3 DEF Good
    <3> QED BY <1>12, <3>1, <3>2, <3>4
  <2>3. ASSUME NEW p \in Y, NEW x \in Nat, Holds(p, x) PROVE \E r \in X : Holds(r, x)
    <3>1. PICK j \in 1 .. n + 1 : Holds(Src(j), x)
      BY <1>13, <2>3
    <3> QED BY <1>11, <3>1
  <2> QED BY <2>1, <2>2, <2>3 DEF Cut
<1>15. Whole(new, lv, ob, fr) \subseteq (W \ FreeOf(cs, c)) \cup Y
  BY <1>1, <1>2, <1>6, FreeListPieces
<1>16. Whole(new, lv, ob, fr) \in SUBSET ((A \ X) \cup Y)
  BY <1>15
<1>17. X \in SUBSET A
  BY <1>9
<1> HIDE DEF X, Y
<1>18. PICK B : B = Whole(new, lv, ob, fr)
  OBVIOUS
<1>19. Good(B, H)
  BY <1>14, <1>16, <1>17, <1>18, Replace
<1> QED BY <1>6, <1>18, <1>19

GrowOf(cs, c, f) == [cs EXCEPT ![c] = slab_grow(@, f)]

LEMMA GrowShape ==
  ASSUME NEW cs \in Seq(CacheRecs), NEW c \in 1 .. Len(cs), NEW f \in Nat,
         cs[c].free_objects = << >>
  PROVE  /\ GrowOf(cs, c, f) \in Seq(CacheRecs)
         /\ SameSizes(cs, GrowOf(cs, c, f))
         /\ GrowOf(cs, c, f)[c].slabs = cs[c].slabs \cup {f}
         /\ GrowOf(cs, c, f)[c].free_objects = Carve(f, cs[c].obj_size)
         /\ \A d \in 1 .. Len(cs) : d # c => GrowOf(cs, c, f)[d] = cs[d]
<1>1. PICK n \in Nat : n = Len(cs) /\ cs \in [1 .. n -> CacheRecs]
  OBVIOUS
<1>2. cs[c] \in CacheRecs /\ cs[c].obj_size \in Nat \ {0}
  BY <1>1 DEF CacheRecs
<1>3. PICK t : t = Carve(f, cs[c].obj_size) /\ t \in Seq(Nat)
  BY <1>2, CarveFacts
<1>4. t \o << >> = t
  BY <1>3
<1>5. PICK r : r = [cs[c] EXCEPT !.slabs = cs[c].slabs \cup {f}, !.free_objects = t]
  OBVIOUS
<1>6. slab_grow(cs[c], f) = r
  BY <1>2, <1>3, <1>4, <1>5 DEF slab_grow, CacheRecs
<1>7. /\ r \in CacheRecs /\ r.obj_size = cs[c].obj_size /\ r.at = cs[c].at
      /\ r.slabs = cs[c].slabs \cup {f} /\ r.free_objects = t
  BY <1>2, <1>3, <1>5 DEF CacheRecs
<1>8. GrowOf(cs, c, f) = [cs EXCEPT ![c] = r]
  BY <1>1, <1>6 DEF GrowOf
<1>9. GrowOf(cs, c, f) \in [1 .. n -> CacheRecs]
  BY <1>1, <1>7, <1>8
<1>10. GrowOf(cs, c, f) \in Seq(CacheRecs) /\ Len(GrowOf(cs, c, f)) = n
  BY <1>9
<1>11. GrowOf(cs, c, f)[c] = r /\ \A d \in 1 .. Len(cs) : d # c => GrowOf(cs, c, f)[d] = cs[d]
  BY <1>1, <1>8
<1> QED BY <1>1, <1>3, <1>7, <1>10, <1>11 DEF SameSizes

\* slab_grow cuts a new frame into its header and objects.
LEMMA Grow ==
  ASSUME NEW cs \in Seq(CacheRecs), NEW c \in 1 .. Len(cs), cs[c].free_objects = << >>,
         NEW lv, NEW ob, NEW fr, NEW H, NEW f \in Nat, f \notin H,
         Refers(cs, lv, ob), Good(Whole(cs, lv, ob, fr), H)
  PROVE  Good(Whole(GrowOf(cs, c, f), lv, ob, fr), H \cup {f})
<1>1. PICK new : new = GrowOf(cs, c, f)
  OBVIOUS
<1>2. /\ new \in Seq(CacheRecs) /\ SameSizes(cs, new)
      /\ new[c].slabs = cs[c].slabs \cup {f}
      /\ new[c].free_objects = Carve(f, cs[c].obj_size)
      /\ \A d \in 1 .. Len(cs) : d # c => new[d] = cs[d]
  <2>1. /\ GrowOf(cs, c, f) \in Seq(CacheRecs) /\ SameSizes(cs, GrowOf(cs, c, f))
        /\ GrowOf(cs, c, f)[c].slabs = cs[c].slabs \cup {f}
        /\ GrowOf(cs, c, f)[c].free_objects = Carve(f, cs[c].obj_size)
        /\ \A d \in 1 .. Len(cs) : d # c => GrowOf(cs, c, f)[d] = cs[d]
    <3>1. GrowOf(cs, c, f) \in Seq(CacheRecs) /\ SameSizes(cs, GrowOf(cs, c, f))
      BY GrowShape
    <3>2. GrowOf(cs, c, f)[c].slabs = cs[c].slabs \cup {f}
      BY GrowShape
    <3>3. GrowOf(cs, c, f)[c].free_objects = Carve(f, cs[c].obj_size)
      BY GrowShape
    <3>4. \A d \in 1 .. Len(cs) : d # c => GrowOf(cs, c, f)[d] = cs[d]
      BY GrowShape
    <3> QED BY <3>1, <3>2, <3>3, <3>4
  <2> QED BY <1>1, <2>1, Zenon
<1>3. Len(cs) \in Nat /\ cs[c].obj_size \in Nat \ {0} /\ Len(new) = Len(cs)
  <2>1. cs[c] \in CacheRecs
    OBVIOUS
  <2> QED BY <1>2, <2>1 DEF CacheRecs, SameSizes
<1>4. PICK P, base, h, sz :
        /\ P = PAGE_SIZE /\ P \in Nat \ {0} /\ base = f * PAGE_SIZE /\ base \in Nat
        /\ h = FrameHeader /\ h \in Nat \ {0} /\ sz = cs[c].obj_size /\ sz \in Nat \ {0}
  BY <1>3, SizeAssumption, HeapAssumption
<1>5. PICK t \in Seq(Nat), n \in Nat :
        /\ t = Carve(f, sz) /\ n = Len(t)
        /\ \A k \in 1 .. n : t[k] \in Nat /\ base + h <= t[k] /\ t[k] + sz <= base + P
        /\ \A j, k \in 1 .. n : j < k => t[k] + sz <= t[j]
  <2>1. PICK t \in Seq(Nat) : t = Carve(f, sz)
    BY <1>4, CarveFacts
  <2>2. Len(t) \in Nat /\ \A k \in 1 .. Len(t) : t[k] \in Nat
    BY <2>1
  <2> QED BY <1>4, <2>1, <2>2, CarveFacts
<1> DEFINE q == Piece("frame", f, 0, base, P)
           s == Piece("slab", f, 0, base, h)
           W == Whole(cs, lv, ob, fr)
           F == {Piece("free", c, k, t[k], sz) : k \in 1 .. n}
           Y == F \cup {s}
<1>6. q.start = base /\ q.len = P /\ s.start = base /\ s.len = h
  BY DEF Piece
<1>7. Good(W \cup {q}, H \cup {f})
  <2> HIDE DEF q
  <2> QED BY <1>4, <1>6, AddFrame
<1>8. q \notin W
  <2>1. Holds(q, base) /\ base \div PAGE_SIZE = f
    <3>1. Holds(q, base)
      BY <1>4, <1>6 DEF Holds
    <3>2. base \div PAGE_SIZE = f
      BY <1>4, PageOf
    <3> QED BY <3>1, <3>2
  <2> HIDE DEF q
  <2> QED BY <1>4, <2>1 DEF Good
<1>9. ASSUME NEW p \in F
      PROVE  \E k \in 1 .. n : /\ p = Piece("free", c, k, t[k], sz)
                               /\ p.start = t[k] /\ p.len = sz
  BY DEF Piece
<1>10. Cut({q}, Y)
  <2>1. ASSUME NEW p \in Y
        PROVE  /\ p.start \in Nat /\ p.len \in Nat \ {0}
               /\ base <= p.start /\ p.start + p.len <= base + P
    <3>1. CASE p = s
      <4>1. h <= P
        <5>1. PICK up \in Nat : up = ALIGN_UP(FrameHeader, PtrAlign) /\ FrameHeader <= up
          BY HeapAssumption, AlignUp
        <5>2. up + CacheBytes <= PAGE_SIZE
          BY <5>1, SlabAssumption
        <5> QED BY <1>4, <5>1, <5>2, HeapAssumption
      <4> QED BY <1>4, <1>6, <3>1, <4>1
    <3>2. CASE p \in F
      <4>1. PICK k \in 1 .. n : p.start = t[k] /\ p.len = sz
        BY <1>9, <3>2
      <4>2. t[k] \in Nat /\ base + h <= t[k] /\ t[k] + sz <= base + P
        BY <1>5
      <4> QED BY <1>4, <4>1, <4>2
    <3> QED BY <3>1, <3>2
  <2>2. ASSUME NEW p \in Y, NEW r \in Y, NEW x \in Nat, Holds(p, x), Holds(r, x) PROVE p = r
    <3>1. \A u \in F : ~(Holds(u, x) /\ Holds(s, x))
      <4> SUFFICES ASSUME NEW u \in F, Holds(u, x), Holds(s, x) PROVE FALSE
        OBVIOUS
      <4>1. PICK k \in 1 .. n : u.start = t[k] /\ u.len = sz
        BY <1>9
      <4>2. x < base + h /\ t[k] <= x /\ base + h <= t[k] /\ t[k] \in Nat
        BY <1>5, <1>6, <4>1 DEF Holds
      <4> QED BY <1>4, <4>2
    <3>2. CASE p \in F /\ r \in F
      <4>1. PICK j \in 1 .. n : p = Piece("free", c, j, t[j], sz) /\ p.start = t[j] /\ p.len = sz
        BY <1>9, <3>2
      <4>2. PICK k \in 1 .. n : r = Piece("free", c, k, t[k], sz) /\ r.start = t[k] /\ r.len = sz
        BY <1>9, <3>2
      <4>3. t[j] <= x /\ x < t[j] + sz /\ t[k] <= x /\ x < t[k] + sz /\ t[j] \in Nat /\ t[k] \in Nat
        BY <1>5, <2>2, <4>1, <4>2 DEF Holds
      <4>4. ~(j < k) /\ ~(k < j)
        <5>1. (j < k => t[k] + sz <= t[j]) /\ (k < j => t[j] + sz <= t[k])
          BY <1>5
        <5>2. PICK y \in Nat, z \in Nat : y = t[j] /\ z = t[k]
          BY <4>3
        <5>3. y <= x /\ x < y + sz /\ z <= x /\ x < z + sz
          BY <4>3, <5>2
        <5>4. sz \in Nat
          BY <1>4
        <5>5. ~(z + sz <= y) /\ ~(y + sz <= z)
          BY <5>3, <5>4
        <5> QED BY <5>1, <5>2, <5>5
      <4>5. j = k
        BY <4>4
      <4> QED BY <4>1, <4>2, <4>5
    <3> QED BY <2>2, <3>1, <3>2
  <2>3. ASSUME NEW p \in Y, NEW x \in Nat, Holds(p, x) PROVE Holds(q, x)
    <3> HIDE DEF q, Y
    <3> QED BY <1>4, <1>6, <2>1, <2>3 DEF Holds
  <2> HIDE DEF q, Y
  <2>4. \A p \in Y : p.start \in Nat /\ p.len \in Nat \ {0}
    BY <2>1
  <2>5. \A p, r \in Y : \A x \in Nat : Holds(p, x) /\ Holds(r, x) => p = r
    BY <2>2
  <2>6. \A p \in Y : \A x \in Nat : Holds(p, x) => \E r \in {q} : Holds(r, x)
    BY <2>3
  <2> QED BY <2>4, <2>5, <2>6 DEF Cut
<1>11. Whole(new, lv, ob, fr) \subseteq W \cup Y
  <2>1. /\ CacheP(new) = CacheP(cs)
        /\ BlockP(new, lv) = BlockP(cs, lv) /\ ObjP(new, ob) = ObjP(cs, ob)
    BY <1>2, <1>3, SameSizePieces
  <2>2. SlabP(new) \subseteq SlabP(cs) \cup {s}
    <3>1. \A d \in 1 .. Len(cs) : new[d].slabs \subseteq cs[d].slabs \cup {f}
      BY <1>2
    <3> QED BY <1>3, <1>4, <3>1 DEF SlabP
  <2>3. FreeOf(new, c) = F
    <3>1. new[c].free_objects = t /\ new[c].obj_size = sz
      BY <1>2, <1>4, <1>5 DEF SameSizes
    <3> QED BY <1>5, <3>1 DEF FreeOf
  <2>4. \A d \in 1 .. Len(cs) : d # c => FreeOf(new, d) = FreeOf(cs, d)
    BY <1>2 DEF FreeOf
  <2>5. FreeP(new) \subseteq FreeP(cs) \cup F
    BY <1>3, <2>3, <2>4 DEF FreeP
  <2> HIDE DEF F, s
  <2> QED BY <2>1, <2>2, <2>5 DEF Whole
<1>12. PICK B : B = Whole(new, lv, ob, fr)
  OBVIOUS
<1> HIDE DEF q, Y, W
<1>13. B \in SUBSET (((W \cup {q}) \ {q}) \cup Y) /\ {q} \in SUBSET (W \cup {q})
  BY <1>8, <1>11, <1>12
<1>14. Good(B, H \cup {f})
  BY <1>7, <1>10, <1>13, Replace
<1> QED BY <1>1, <1>12, <1>14

----------------------------------------------------------------------------
(* Frames become a block, a block becomes frames, a cache joins.           *)

\* The bytes of a run of frames.
LEMMA RunBytes ==
  ASSUME NEW f \in Nat, NEW n \in Nat, NEW x \in Nat
  PROVE  /\ f * PAGE_SIZE <= x /\ x < f * PAGE_SIZE + n * PAGE_SIZE
              => x \div PAGE_SIZE \in RunFrames(f, n)
         /\ \A m \in Nat : m <= n /\ x \div PAGE_SIZE \in RunFrames(f, m)
              => f * PAGE_SIZE <= x /\ x < f * PAGE_SIZE + n * PAGE_SIZE
<1>1. PICK P \in Nat \ {0} : P = PAGE_SIZE
  BY SizeAssumption
<1>2. PICK g \in Int : g = x \div P
  BY <1>1
<1>3. g * P <= x /\ x < g * P + P
  BY <1>1, <1>2, PageOf
<1>4. ASSUME f * P <= x, x < f * P + n * P PROVE f <= g /\ g <= f + n - 1
  <2>1. ASSUME g + 1 <= f PROVE FALSE
    <3>1. (g + 1) * P <= f * P
      BY <1>1, <1>2, <2>1
    <3>2. (g + 1) * P = g * P + P
      BY <1>1, <1>2
    <3> QED BY <1>1, <1>3, <1>4, <3>1, <3>2
  <2>2. ASSUME g >= f + n PROVE FALSE
    <3>1. g * P >= (f + n) * P
      BY <1>1, <1>2, <2>2
    <3>2. (f + n) * P = f * P + n * P
      BY <1>1
    <3> QED BY <1>1, <1>3, <1>4, <3>1, <3>2
  <2> QED BY <1>2, <2>1, <2>2
<1>5. ASSUME NEW m \in Nat, m <= n, f <= g, g <= f + m - 1
      PROVE  f * P <= x /\ x < f * P + n * P
  <2>1. f * P <= g * P
    BY <1>1, <1>2, <1>5
  <2>2. (g + 1) * P <= (f + n) * P
    BY <1>1, <1>2, <1>5
  <2>3. (g + 1) * P = g * P + P /\ (f + n) * P = f * P + n * P
    BY <1>1, <1>2
  <2> QED BY <1>1, <1>3, <2>1, <2>2, <2>3
<1> QED BY <1>1, <1>2, <1>4, <1>5 DEF RunFrames

LEMMA FramePieceOf ==
  ASSUME NEW f \in Nat
  PROVE  /\ Piece("frame", f, 0, f * PAGE_SIZE, PAGE_SIZE).start \in Nat
         /\ Piece("frame", f, 0, f * PAGE_SIZE, PAGE_SIZE).len \in Nat \ {0}
         /\ \A x \in Nat : Holds(Piece("frame", f, 0, f * PAGE_SIZE, PAGE_SIZE), x)
                             <=> x \div PAGE_SIZE = f
<1>1. PICK b : b = f * PAGE_SIZE /\ b \in Nat /\ PAGE_SIZE \in Nat \ {0}
  BY SizeAssumption
<1>2. /\ Piece("frame", f, 0, b, PAGE_SIZE).start = b
      /\ Piece("frame", f, 0, b, PAGE_SIZE).len = PAGE_SIZE
  BY DEF Piece
<1>3. \A x \in Nat : b <= x /\ x < b + PAGE_SIZE <=> x \div PAGE_SIZE = f
  BY <1>1, PageOf
<1> QED BY <1>1, <1>2, <1>3 DEF Holds

\* The frames that kmalloc collected are one block.
LEMMA Gather ==
  ASSUME NEW cs, NEW lv, NEW ob, NEW fr, NEW H, Good(Whole(cs, lv, ob, fr), H),
         NEW f \in Nat, NEW n \in Nat \ {0}, RunFrames(f, n) \subseteq fr,
         NEW q, q.start = f * PAGE_SIZE, q.len = n * PAGE_SIZE
  PROVE  Good(Whole(cs, lv, ob, fr \ RunFrames(f, n)) \cup {q}, H)
<1> DEFINE A == Whole(cs, lv, ob, fr)
           X == FrameP(RunFrames(f, n))
<1>1. PICK P, base, len : /\ P = PAGE_SIZE /\ P \in Nat \ {0}
                          /\ base = f * PAGE_SIZE /\ base \in Nat
                          /\ len = n * PAGE_SIZE /\ len \in Nat \ {0}
  BY SizeAssumption
<1>2. X \subseteq A
  BY DEF FrameP, Whole
<1>3. ASSUME NEW x \in Nat, Holds(q, x) PROVE \E r \in X : Holds(r, x)
  <2>1. base <= x /\ x < base + len
    BY <1>1, <1>3 DEF Holds
  <2>2. x \div PAGE_SIZE \in RunFrames(f, n)
    BY <1>1, <2>1, RunBytes
  <2>3. PICK g \in Nat : g = x \div PAGE_SIZE /\ g \in RunFrames(f, n)
    BY <2>2 DEF RunFrames
  <2>4. Holds(Piece("frame", g, 0, g * PAGE_SIZE, PAGE_SIZE), x)
    BY <2>3, FramePieceOf
  <2> QED BY <2>3, <2>4 DEF FrameP
<1>4. Cut(X, {q})
  BY <1>1, <1>3 DEF Cut
<1>5. Whole(cs, lv, ob, fr \ RunFrames(f, n)) \subseteq A \ X
  <2>1. FrameP(fr \ RunFrames(f, n)) \subseteq FrameP(fr) \ X
    <3> SUFFICES ASSUME NEW g \in fr \ RunFrames(f, n)
                 PROVE  Piece("frame", g, 0, g * PAGE_SIZE, PAGE_SIZE) \notin X
      BY DEF FrameP
    <3>1. \A p \in X : p.who[2] \in RunFrames(f, n)
      BY DEF FrameP, Piece
    <3>2. Piece("frame", g, 0, g * PAGE_SIZE, PAGE_SIZE).who[2] = g
      BY DEF Piece
    <3> QED BY <3>1, <3>2
  <2>2. \A p \in X : p.who[1] = "frame"
    BY Kinds
  <2>3. SlabP(cs) \cup FreeP(cs) \cup CacheP(cs) \cup BlockP(cs, lv) \cup ObjP(cs, ob) \subseteq A \ X
    <3>1. \A p \in SlabP(cs) \cup FreeP(cs) \cup CacheP(cs) \cup BlockP(cs, lv) \cup ObjP(cs, ob) :
            p.who[1] # "frame"
      BY Kinds
    <3> QED BY <2>2, <3>1 DEF Whole
  <2> QED BY <2>1, <2>3 DEF Whole
<1>6. PICK B : B = Whole(cs, lv, ob, fr \ RunFrames(f, n)) \cup {q}
  OBVIOUS
<1> HIDE DEF A, X
<1>7. B \in SUBSET ((A \ X) \cup {q})
  BY <1>5, <1>6
<1>8. Good(A, H)
  BY DEF A
<1>9. Good(B, H)
  BY <1>2, <1>4, <1>7, <1>8, Replace
<1> QED BY <1>6, <1>9

\* The first m frames of a large block are freed one by one.
LEMMA Split ==
  ASSUME NEW cs, NEW lv, NEW ob, NEW fr, NEW H, NEW q, q \notin Whole(cs, lv, ob, fr),
         Good(Whole(cs, lv, ob, fr) \cup {q}, H),
         NEW f \in Nat, NEW n \in Nat, NEW m \in Nat, m <= n,
         q.start = f * PAGE_SIZE, q.len = n * PAGE_SIZE
  PROVE  Good(Whole(cs, lv, ob, fr \cup RunFrames(f, m)), H)
<1> DEFINE W == Whole(cs, lv, ob, fr)
           Y == FrameP(RunFrames(f, m))
<1>1. \A g \in RunFrames(f, m) : g \in Nat
  BY DEF RunFrames
<1>2. ASSUME NEW p \in Y
      PROVE  \E g \in RunFrames(f, m) :
               /\ p = Piece("frame", g, 0, g * PAGE_SIZE, PAGE_SIZE)
               /\ p.start \in Nat /\ p.len \in Nat \ {0}
               /\ \A x \in Nat : Holds(p, x) <=> x \div PAGE_SIZE = g
  <2>1. PICK g \in RunFrames(f, m) : p = Piece("frame", g, 0, g * PAGE_SIZE, PAGE_SIZE)
    BY DEF FrameP
  <2>2. g \in Nat
    BY <1>1
  <2> QED BY <2>1, <2>2, FramePieceOf
<1>3. \A p \in Y : p.start \in Nat /\ p.len \in Nat \ {0}
  BY <1>2
<1>4. ASSUME NEW p \in Y, NEW r \in Y, NEW x \in Nat, Holds(p, x), Holds(r, x) PROVE p = r
  <2>1. PICK g \in RunFrames(f, m) :
          p = Piece("frame", g, 0, g * PAGE_SIZE, PAGE_SIZE) /\ x \div PAGE_SIZE = g
    BY <1>2, <1>4
  <2>2. PICK k \in RunFrames(f, m) :
          r = Piece("frame", k, 0, k * PAGE_SIZE, PAGE_SIZE) /\ x \div PAGE_SIZE = k
    BY <1>2, <1>4
  <2> QED BY <2>1, <2>2
<1>5. ASSUME NEW p \in Y, NEW x \in Nat, Holds(p, x) PROVE Holds(q, x)
  <2>1. x \div PAGE_SIZE \in RunFrames(f, m)
    BY <1>2, <1>5
  <2>2. f * PAGE_SIZE <= x /\ x < f * PAGE_SIZE + n * PAGE_SIZE
    BY <2>1, RunBytes
  <2> QED BY <2>2 DEF Holds
<1>6. Cut({q}, Y)
  <2>1. \A p \in Y : \A x \in Nat : Holds(p, x) => \E r \in {q} : Holds(r, x)
    BY <1>5
  <2>2. \A p, r \in Y : \A x \in Nat : Holds(p, x) /\ Holds(r, x) => p = r
    BY <1>4
  <2> HIDE DEF Y
  <2> QED BY <1>3, <2>1, <2>2 DEF Cut
<1>7. Whole(cs, lv, ob, fr \cup RunFrames(f, m)) \subseteq W \cup Y
  BY DEF Whole, FrameP
<1>8. PICK B : B = Whole(cs, lv, ob, fr \cup RunFrames(f, m))
  OBVIOUS
<1> HIDE DEF W, Y
<1>9. B \in SUBSET (((W \cup {q}) \ {q}) \cup Y) /\ {q} \in SUBSET (W \cup {q})
  BY <1>7, <1>8 DEF W
<1>10. Good(W \cup {q}, H)
  BY DEF W
<1>11. Good(B, H)
  BY <1>6, <1>9, <1>10, Replace
<1> QED BY <1>8, <1>11

----------------------------------------------------------------------------
(* slab_alloc and slab_cache_create.                                       *)

\* What slab_alloc on cache c of cs leaves behind: its object, node, can be given
\* to anyone; without one the cache of descriptors panics.
Taken(cs, c, new, lv, ob, fr, node) ==
  /\ new \in Seq(CacheRecs) /\ SameSizes(cs, new)
  /\ node = NULL => /\ Good(Whole(new, lv, ob, fr), handed')
                    /\ ALIGN_UP(FrameHeader, PtrAlign) + cs[c].obj_size <= PAGE_SIZE => halted'
  /\ node # NULL => /\ node \in Nat
                    /\ \A q : q.start = node /\ q.len \in 1 .. cs[c].obj_size
                         => Good(Whole(new, lv, ob, fr) \cup {q}, handed')

LEMMA TakeObject ==
  ASSUME NEW cs \in Seq(CacheRecs), NEW c \in 1 .. Len(cs), NEW lv, NEW ob, NEW fr,
         Refers(cs, lv, ob), Good(Whole(cs, lv, ob, fr), handed),
         IInv, phase = "run", slab_alloc(cs[c]), NEW new, new = [cs EXCEPT ![c] = Popped(cs[c])]
  PROVE  Taken(cs, c, new, lv, ob, fr, Node(cs[c])) /\ handed \subseteq handed'
<1>1. cs[c] \in CacheRecs /\ Len(cs) \in Nat /\ cs \in [1 .. Len(cs) -> CacheRecs]
  OBVIOUS
<1>2. PICK fl \in Seq(Nat), sz \in Nat \ {0} : fl = cs[c].free_objects /\ sz = cs[c].obj_size
  BY <1>1 DEF CacheRecs
\* The head of a list that is not empty.
<1>3. ASSUME NEW cx \in Seq(CacheRecs), Len(cx) = Len(cs), cx[c].free_objects # << >>,
             SameSizes(cs, cx), Good(Whole(cx, lv, ob, fr), handed'),
             new = PopOf(cx, c), Node(cs[c]) = Head(cx[c].free_objects)
      PROVE  Taken(cs, c, new, lv, ob, fr, Node(cs[c]))
  <2>1. new \in Seq(CacheRecs) /\ SameShape(cx, new)
    BY <1>3, PopShape
  <2>2. SameSizes(cs, new)
    BY <1>3, <2>1 DEF SameShape, SameSizes
  <2>3. Head(cx[c].free_objects) \in Nat
    <3>1. cx[c] \in CacheRecs
      BY <1>3
    <3>2. PICK l \in Seq(Nat) : l = cx[c].free_objects /\ l # << >>
      BY <1>3, <3>1 DEF CacheRecs
    <3> QED BY <3>2
  <2>4. Refers(cx, lv, ob)
    BY <1>3 DEF Refers
  <2>5. cx[c].obj_size = cs[c].obj_size /\ c \in 1 .. Len(cx)
    BY <1>3 DEF SameSizes
  <2>6. ASSUME NEW q, q.start = Head(cx[c].free_objects), q.len \in 1 .. cx[c].obj_size
        PROVE  Good(Whole(PopOf(cx, c), lv, ob, fr) \cup {q}, handed')
    BY <1>3, <2>4, <2>5, <2>6, Pop
  <2>7. \A q : q.start = Node(cs[c]) /\ q.len \in 1 .. cs[c].obj_size
                 => Good(Whole(new, lv, ob, fr) \cup {q}, handed')
    BY <1>3, <2>5, <2>6
  <2>8. Node(cs[c]) \in Nat /\ Node(cs[c]) # NULL
    BY <1>3, <2>3 DEF NULL
  <2> QED BY <2>1, <2>2, <2>7, <2>8 DEF Taken
<1>4. CASE fl # << >>
  <2>1. UNCHANGED <<physVars, halted>>
    BY <1>2, <1>4 DEF slab_alloc
  <2>2. handed' = handed
    BY <2>1 DEF physVars
  <2>3. Filled(cs[c]) = cs[c]
    BY <1>2, <1>4 DEF Filled
  <2>4. Head(fl) \in Nat
    BY <1>4
  <2>5. Node(cs[c]) = Head(cs[c].free_objects) /\ Node(cs[c]) # NULL
    BY <1>2, <1>4, <2>3, <2>4 DEF Node, NULL
  <2>6. Popped(cs[c]) = [cs[c] EXCEPT !.free_objects = Tail(@)]
    BY <2>3, <2>5 DEF Popped
  <2>7. new = PopOf(cs, c)
    BY <1>1, <2>6 DEF PopOf
  <2>8. SameSizes(cs, cs)
    BY DEF SameSizes
  <2> QED BY <1>2, <1>3, <1>4, <2>2, <2>5, <2>7, <2>8
<1>5. CASE fl = << >>
  <2>1. pmm_alloc_frame(NextFrame) /\ halted' = (NextFrame = NoFrame)
    BY <1>2, <1>5 DEF slab_alloc
  <2>2. /\ NextFrame \in Frames \cup {NoFrame} /\ NextFrame \notin handed
        /\ handed' = handed \cup ({NextFrame} \ {NoFrame})
    BY <2>1, AllocFacts
  <2>3. CASE NextFrame = NoFrame
    <3>1. Filled(cs[c]) = cs[c]
      BY <2>3 DEF Filled
    <3>2. Node(cs[c]) = NULL
      BY <1>2, <1>5, <3>1 DEF Node
    <3>3. Popped(cs[c]) = cs[c]
      BY <3>1, <3>2 DEF Popped
    <3>4. new = cs
      BY <1>1, <3>3
    <3>5. handed' = handed /\ halted'
      BY <2>1, <2>2, <2>3
    <3>6. SameSizes(cs, new)
      BY <3>4 DEF SameSizes
    <3> QED BY <3>2, <3>4, <3>5, <3>6 DEF Taken
  <2>4. CASE NextFrame # NoFrame
    <3>1. PICK f \in Nat : f = NextFrame /\ f \notin handed /\ handed' = handed \cup {f}
      BY <2>2, <2>4, SizeAssumption DEF Frames
    <3>2. PICK cx : cx = GrowOf(cs, c, f)
      OBVIOUS
    <3>3. /\ cx \in Seq(CacheRecs) /\ SameSizes(cs, cx)
          /\ cx[c].free_objects = Carve(f, sz)
      <4>1. cs[c].free_objects = << >>
        BY <1>2, <1>5
      <4>2. GrowOf(cs, c, f) \in Seq(CacheRecs) /\ SameSizes(cs, GrowOf(cs, c, f))
        BY <4>1, GrowShape
      <4>3. GrowOf(cs, c, f)[c].free_objects = Carve(f, cs[c].obj_size)
        BY <4>1, GrowShape
      <4> QED BY <1>2, <3>2, <4>2, <4>3, Zenon
    <3>4. Good(Whole(cx, lv, ob, fr), handed')
      BY <1>2, <1>5, <3>1, <3>2, Grow
    <3>5. Filled(cs[c]) = slab_grow(cs[c], f) /\ cx[c] = slab_grow(cs[c], f)
      BY <1>1, <1>2, <1>5, <2>4, <3>1, <3>2 DEF Filled, GrowOf
    <3>6. CASE cx[c].free_objects = << >>
      <4>1. Node(cs[c]) = NULL
        BY <3>5, <3>6 DEF Node
      <4>2. Popped(cs[c]) = cx[c]
        BY <3>5, <4>1 DEF Popped
      <4>3. new = cx
        BY <1>1, <3>2, <3>5, <4>2 DEF GrowOf
      <4>4. ~(ALIGN_UP(FrameHeader, PtrAlign) + cs[c].obj_size <= PAGE_SIZE)
        BY <1>2, <3>3, <3>6, CarveFacts
      <4> QED BY <3>1, <3>3, <3>4, <4>1, <4>3, <4>4 DEF Taken
    <3>7. CASE cx[c].free_objects # << >>
      <4>1. cx[c] \in CacheRecs /\ Len(cx) = Len(cs) /\ cx[c].free_objects \in Seq(Nat)
        <5>1. Len(cx) = Len(cs)
          BY <3>3 DEF SameSizes
        <5>2. cx[c] \in CacheRecs
          BY <3>3, <5>1
        <5> QED BY <5>1, <5>2 DEF CacheRecs
      <4>2. Head(cx[c].free_objects) \in Nat
        BY <3>7, <4>1
      <4>3. Node(cs[c]) = Head(cx[c].free_objects) /\ Node(cs[c]) # NULL
        BY <3>5, <3>7, <4>2 DEF Node, NULL
      <4>4. Popped(cs[c]) = [cx[c] EXCEPT !.free_objects = Tail(@)]
        BY <3>5, <4>3 DEF Popped
      <4>5. new = PopOf(cx, c)
        <5>1. cx = [cs EXCEPT ![c] = cx[c]]
          BY <1>1, <3>2, <3>5 DEF GrowOf
        <5>2. PopOf(cx, c) = [cx EXCEPT ![c] = [cx[c] EXCEPT !.free_objects = Tail(@)]]
          BY <1>1, <5>1 DEF PopOf
        <5>3. PICK u : u = [cx[c] EXCEPT !.free_objects = Tail(@)]
          OBVIOUS
        <5>4. [cx EXCEPT ![c] = u] = [cs EXCEPT ![c] = u]
          BY <1>1, <5>1
        <5> QED BY <4>4, <5>2, <5>3, <5>4
      <4> QED BY <1>3, <3>1, <3>3, <3>4, <3>7, <4>1, <4>3, <4>5
    <3> QED BY <3>6, <3>7
  <2> QED BY <2>3, <2>4
<1> QED BY <1>4, <1>5

----------------------------------------------------------------------------
(* Blocks, objects and caches come and go.                                 *)

OneOwner == Good(Whole(caches, live, objs, others \cup CallFrames), handed)

MemInv == CachesOK /\ OneOwner

LEMMA AddBlockPieces ==
  ASSUME NEW cs, NEW lv, NEW ob, NEW fr, NEW a, NEW b, NEW new,
         new = [x \in DOMAIN lv \cup {a} |-> IF x = a THEN b ELSE lv[x]]
  PROVE  Whole(cs, new, ob, fr)
           \subseteq Whole(cs, lv, ob, fr) \cup {Piece("block", a, 0, a, BlockLen(cs, b))}
<1>1. BlockP(cs, new) \subseteq BlockP(cs, lv) \cup {Piece("block", a, 0, a, BlockLen(cs, b))}
  <2> SUFFICES ASSUME NEW x \in DOMAIN new
               PROVE  Piece("block", x, 0, x, BlockLen(cs, new[x]))
                        \in BlockP(cs, lv) \cup {Piece("block", a, 0, a, BlockLen(cs, b))}
    BY DEF BlockP
  <2>1. CASE x = a
    BY <2>1
  <2>2. CASE x # a
    <3>1. x \in DOMAIN lv /\ new[x] = lv[x]
      BY <2>2
    <3> QED BY <3>1 DEF BlockP
  <2> QED BY <2>1, <2>2
<1> QED BY <1>1 DEF Whole

\* Piece q of B is not among the pieces A.
Without(A, q, B) == A \cup {q} \subseteq B /\ q \notin A

Unblock(lv, a)        == [x \in DOMAIN lv \ {a} |-> lv[x]]
BlockPiece(cs, lv, a) == Piece("block", a, 0, a, BlockLen(cs, lv[a]))
ObjPiece(cs, c, a)    == Piece("object", c, a, a, cs[c].obj_size)

LEMMA RemoveBlockPieces ==
  ASSUME NEW cs, NEW lv, NEW ob, NEW fr, NEW a \in DOMAIN lv
  PROVE  Without(Whole(cs, Unblock(lv, a), ob, fr), BlockPiece(cs, lv, a), Whole(cs, lv, ob, fr))
<1>0. PICK new, q : /\ new = [x \in DOMAIN lv \ {a} |-> lv[x]] /\ new = Unblock(lv, a)
                    /\ q = Piece("block", a, 0, a, BlockLen(cs, lv[a])) /\ q = BlockPiece(cs, lv, a)
  BY DEF Unblock, BlockPiece
<1>1. BlockP(cs, new) \cup {q} \subseteq BlockP(cs, lv)
  BY <1>0 DEF BlockP
<1>2. q \notin BlockP(cs, new)
  <2>1. \A p \in BlockP(cs, new) : p.who[2] # a
    BY <1>0 DEF BlockP, Piece
  <2>2. q.who[2] = a
    BY <1>0 DEF Piece
  <2> QED BY <2>1, <2>2
<1>3. q.who[1] = "block"
  BY <1>0 DEF Piece
<1>4. q \notin SlabP(cs) \cup FreeP(cs) \cup CacheP(cs) \cup ObjP(cs, ob) \cup FrameP(fr)
  BY <1>3, Kinds
<1>5. Whole(cs, new, ob, fr) \cup {q} \subseteq Whole(cs, lv, ob, fr)
  BY <1>1 DEF Whole
<1>6. q \notin Whole(cs, new, ob, fr)
  BY <1>2, <1>4 DEF Whole
<1> QED BY <1>0, <1>5, <1>6 DEF Without

LEMMA AddObjectPieces ==
  ASSUME NEW cs, NEW lv, NEW ob, NEW fr, NEW c, NEW a
  PROVE  Whole(cs, lv, ob \cup {<<c, a>>}, fr)
           \subseteq Whole(cs, lv, ob, fr) \cup {Piece("object", c, a, a, cs[c].obj_size)}
<1>1. ObjP(cs, ob \cup {<<c, a>>}) \subseteq ObjP(cs, ob) \cup {Piece("object", c, a, a, cs[c].obj_size)}
  BY DEF ObjP
<1> QED BY <1>1 DEF Whole

LEMMA RemoveObjectPieces ==
  ASSUME NEW cs, NEW lv, NEW ob, NEW fr, NEW c, NEW a, <<c, a>> \in ob,
         \A o \in ob : o = <<o[1], o[2]>>
  PROVE  Without(Whole(cs, lv, ob \ {<<c, a>>}, fr), ObjPiece(cs, c, a), Whole(cs, lv, ob, fr))
<1>0. PICK q : q = Piece("object", c, a, a, cs[c].obj_size) /\ q = ObjPiece(cs, c, a)
  BY DEF ObjPiece
<1>1. ObjP(cs, ob \ {<<c, a>>}) \cup {q} \subseteq ObjP(cs, ob)
  BY <1>0 DEF ObjP
<1>2. q \notin ObjP(cs, ob \ {<<c, a>>})
  <2>1. SUFFICES ASSUME NEW o \in ob, o # <<c, a>>,
                        q = Piece("object", o[1], o[2], o[2], cs[o[1]].obj_size)
                 PROVE  FALSE
    BY DEF ObjP
  <2>2. q.who[2] = c /\ q.who[3] = a
    BY <1>0 DEF Piece
  <2>3. q.who[2] = o[1] /\ q.who[3] = o[2]
    BY <2>1 DEF Piece
  <2> QED BY <2>1, <2>2, <2>3
<1>3. q.who[1] = "object"
  BY <1>0 DEF Piece
<1>4. q \notin SlabP(cs) \cup FreeP(cs) \cup CacheP(cs) \cup BlockP(cs, lv) \cup FrameP(fr)
  BY <1>3, Kinds
<1>5. Whole(cs, lv, ob \ {<<c, a>>}, fr) \cup {q} \subseteq Whole(cs, lv, ob, fr)
  BY <1>1 DEF Whole
<1>6. q \notin Whole(cs, lv, ob \ {<<c, a>>}, fr)
  BY <1>2, <1>4 DEF Whole
<1> QED BY <1>0, <1>5, <1>6 DEF Without

\* A cache without slabs joins.
LEMMA AddCachePieces ==
  ASSUME NEW cs \in Seq(CacheRecs), NEW r \in CacheRecs, r.slabs = {}, r.free_objects = << >>,
         NEW lv, NEW ob, NEW fr, Refers(cs, lv, ob), NEW new, new = cs \o << r >>
  PROVE  /\ new \in Seq(CacheRecs) /\ Len(new) = Len(cs) + 1 /\ new[Len(cs) + 1] = r
         /\ \A c \in 1 .. Len(cs) : new[c] = cs[c]
         /\ Whole(new, lv, ob, fr)
              \subseteq Whole(cs, lv, ob, fr) \cup {Piece("cache", Len(cs) + 1, 0, r.at, CacheBytes)}
<1>1. PICK n \in Nat : n = Len(cs)
  OBVIOUS
<1>2. << r >> \in Seq(CacheRecs) /\ Len(<< r >>) = 1 /\ << r >>[1] = r
  OBVIOUS
<1>3. PICK s \in Seq(CacheRecs) : s = << r >> /\ Len(s) = 1 /\ s[1] = r
  BY <1>2, Zenon
<1>4. cs \o s \in Seq(CacheRecs) /\ Len(cs \o s) = n + 1
  BY <1>1, <1>3
<1>5. \A c \in 1 .. n + 1 : (cs \o s)[c] = IF c <= n THEN cs[c] ELSE s[c - n]
  BY <1>1, <1>3
<1>6. /\ new \in Seq(CacheRecs) /\ Len(new) = n + 1 /\ new[n + 1] = r
      /\ \A c \in 1 .. n : new[c] = cs[c]
  BY <1>1, <1>3, <1>4, <1>5
<1>7. SlabP(new) \subseteq SlabP(cs)
  <2>1. \A c \in 1 .. n + 1 : new[c].slabs = {} \/ (c \in 1 .. n /\ new[c] = cs[c])
    BY <1>6
  <2> QED BY <1>1, <1>6, <2>1 DEF SlabP
<1>8. FreeP(new) \subseteq FreeP(cs)
  <2> SUFFICES ASSUME NEW c \in 1 .. n + 1 PROVE FreeOf(new, c) \subseteq FreeP(cs)
    BY <1>6 DEF FreeP
  <2>1. CASE c = n + 1
    <3>1. Len(new[c].free_objects) = 0
      BY <1>6, <2>1
    <3>2. 1 .. Len(new[c].free_objects) = {}
      <4>1. 1 .. 0 = {}
        OBVIOUS
      <4> QED BY <3>1, <4>1, Zenon
    <3>3. FreeOf(new, c) = {}
      BY <3>2 DEF FreeOf
    <3> QED BY <3>3
  <2>2. CASE c \in 1 .. n
    <3>1. FreeOf(new, c) = FreeOf(cs, c)
      BY <1>6, <2>2 DEF FreeOf
    <3> QED BY <1>1, <2>2, <3>1 DEF FreeP
  <2> QED BY <2>1, <2>2
<1>9. CacheP(new) \subseteq CacheP(cs) \cup {Piece("cache", n + 1, 0, r.at, CacheBytes)}
  <2> SUFFICES ASSUME NEW c \in 2 .. n + 1
               PROVE  Piece("cache", c, 0, new[c].at, CacheBytes)
                        \in CacheP(cs) \cup {Piece("cache", n + 1, 0, r.at, CacheBytes)}
    BY <1>6 DEF CacheP
  <2>1. CASE c = n + 1
    BY <1>6, <2>1
  <2>2. CASE c \in 2 .. n
    <3>1. new[c] = cs[c]
      BY <1>6, <2>2
    <3> QED BY <1>1, <2>2, <3>1 DEF CacheP
  <2>3. c = n + 1 \/ c \in 2 .. n
    OBVIOUS
  <2> QED BY <2>1, <2>2, <2>3
<1>10. BlockP(new, lv) = BlockP(cs, lv) /\ ObjP(new, ob) = ObjP(cs, ob)
  <2>1. \A a \in DOMAIN lv : BlockLen(new, lv[a]) = BlockLen(cs, lv[a])
    BY <1>1, <1>6 DEF Refers, BlockLen
  <2>2. \A o \in ob : new[o[1]].obj_size = cs[o[1]].obj_size
    BY <1>1, <1>6 DEF Refers
  <2> QED BY <2>1, <2>2 DEF BlockP, ObjP
<1> QED BY <1>1, <1>6, <1>7, <1>8, <1>9, <1>10 DEF Whole

----------------------------------------------------------------------------
(* MemInv is preserved, one lemma for each kind of step.                   *)

LEMMA RefersNow ==
  ASSUME CachesOK
  PROVE  Refers(caches, live, objs) /\ Len(caches) \in Nat
         /\ \A o \in objs : o = <<o[1], o[2]>> /\ o[1] \in TypeCaches /\ o[2] \in Nat
<1>1. Len(caches) \in Nat
  BY DEF CachesOK
<1>2. \A o \in objs : o = <<o[1], o[2]>> /\ o[1] \in TypeCaches /\ o[2] \in Nat
  BY DEF CachesOK
<1>3. \A o \in objs : o[1] \in 1 .. Len(caches)
  BY <1>1, <1>2, HeapAssumption DEF TypeCaches
<1>4. \A a \in DOMAIN live : live[a].cache \in 1 .. Len(caches) \cup {NULL}
  BY DEF CachesOK
<1> QED BY <1>1, <1>2, <1>3, <1>4 DEF Refers

\* Steps that leave the caches, the blocks and the objects alone.
LEMMA SameCaches ==
  ASSUME CachesOK, UNCHANGED <<caches, live, objs, kheap_initialized>>, halted => halted',
         kheap_initialized \/ UNCHANGED call
  PROVE  CachesOK'
  BY DEF CachesOK, TypeCaches

\* other_alloc and kmalloc's calls of pmm_alloc_frame.
LEMMA FrameJoins ==
  ASSUME MemInv, UNCHANGED <<caches, live, objs, kheap_initialized>>, halted => halted',
         kheap_initialized \/ UNCHANGED call,
         NEW f \in Nat, f \notin handed, handed' = handed \cup {f},
         (others \cup CallFrames)' = others \cup CallFrames \cup {f}
  PROVE  MemInv'
<1>1. CachesOK'
  BY SameCaches DEF MemInv
<1>2. PICK fr : fr = others \cup CallFrames
  OBVIOUS
<1>3. PICK q : q = Piece("frame", f, 0, f * PAGE_SIZE, PAGE_SIZE)
  OBVIOUS
<1>4. q.start = f * PAGE_SIZE /\ q.len = PAGE_SIZE
  BY <1>3 DEF Piece
<1>5. Good(Whole(caches, live, objs, fr) \cup {q}, handed \cup {f})
  BY <1>2, <1>4, AddFrame DEF MemInv, OneOwner
<1>6. Whole(caches, live, objs, fr \cup {f}) \subseteq Whole(caches, live, objs, fr) \cup {q}
  BY <1>3 DEF Whole, FrameP
<1>7. Good(Whole(caches, live, objs, fr \cup {f}), handed \cup {f})
  BY <1>5, <1>6, GoodSubset
<1> QED BY <1>1, <1>2, <1>7 DEF MemInv, OneOwner

\* A frame is handed out and nobody keeps it: the panic of kmalloc; or no frame
\* is left.
LEMMA FrameWaits ==
  ASSUME MemInv, UNCHANGED <<caches, live, objs, kheap_initialized>>, halted => halted',
         kheap_initialized \/ UNCHANGED call,
         handed \subseteq handed', (others \cup CallFrames)' = others \cup CallFrames
  PROVE  MemInv'
<1>1. CachesOK'
  BY SameCaches DEF MemInv
<1>2. Good(Whole(caches, live, objs, others \cup CallFrames), handed')
  BY DEF MemInv, OneOwner, Good
<1> QED BY <1>1, <1>2 DEF MemInv, OneOwner

\* other_free and the loop that frees a large block.
LEMMA FrameLeaves ==
  ASSUME MemInv, UNCHANGED <<caches, live, objs, kheap_initialized, halted>>,
         kheap_initialized \/ UNCHANGED call,
         NEW f \in others \cup CallFrames, f \in Nat, handed' = handed \ {f},
         (others \cup CallFrames)' = (others \cup CallFrames) \ {f}
  PROVE  MemInv'
<1>1. CachesOK'
  BY SameCaches DEF MemInv
<1>2. PICK fr : fr = others \cup CallFrames
  OBVIOUS
<1>3. PICK q : q = Piece("frame", f, 0, f * PAGE_SIZE, PAGE_SIZE)
  OBVIOUS
<1>4. q.start = f * PAGE_SIZE /\ q.len = PAGE_SIZE /\ q.who[1] = "frame" /\ q.who[2] = f
  BY <1>3 DEF Piece
<1>5. q \in Whole(caches, live, objs, fr)
  BY <1>2, <1>3 DEF Whole, FrameP
<1>6. Whole(caches, live, objs, fr \ {f}) \subseteq Whole(caches, live, objs, fr) \ {q}
  <2>1. \A p \in FrameP(fr \ {f}) : p.who[2] # f
    BY DEF FrameP, Piece
  <2>2. FrameP(fr \ {f}) \subseteq FrameP(fr)
    BY DEF FrameP
  <2>3. q \notin SlabP(caches) \cup FreeP(caches) \cup CacheP(caches) \cup BlockP(caches, live)
                   \cup ObjP(caches, objs)
    BY <1>4, Kinds
  <2> QED BY <1>4, <2>1, <2>2, <2>3 DEF Whole
<1>7. Good(Whole(caches, live, objs, fr), handed)
  BY <1>2 DEF MemInv, OneOwner
<1>8. Good(Whole(caches, live, objs, fr \ {f}), handed \ {f})
  <2>1. PICK A, B : A = Whole(caches, live, objs, fr) /\ B = Whole(caches, live, objs, fr \ {f})
    OBVIOUS
  <2>2. q \in A /\ B \in SUBSET (A \ {q}) /\ Good(A, handed) /\ f \in Nat
    BY <1>5, <1>6, <1>7, <2>1
  <2>3. Good(B, handed \ {f})
    BY <1>4, <2>2, DropFrame
  <2> QED BY <2>1, <2>3
<1> QED BY <1>1, <1>2, <1>8 DEF MemInv, OneOwner

\* get_bucket_index finds a bucket that exists and is large enough.
LEMMA BucketFits ==
  ASSUME NEW size \in Nat, get_bucket_index(size) # -1
  PROVE  /\ get_bucket_index(size) \in Buckets
         /\ size <= BucketSize(get_bucket_index(size))
         /\ \A b \in Buckets : size <= BucketSize(b) => get_bucket_index(size) <= b
<1> DEFINE fits == {b \in Buckets : size <= BucketSize(b)}
<1>1. fits \in SUBSET Nat
  BY HeapAssumption DEF Buckets
<1>2. fits # {} /\ get_bucket_index(size) = Min(fits)
  BY DEF get_bucket_index
<1>3. Min(fits) \in fits /\ \A x \in fits : Min(fits) <= x
  <2> HIDE DEF fits
  <2> QED BY <1>1, <1>2, MinIsLeast
<1> QED BY <1>2, <1>3

\* The objects of a bucket hold the header and every size of the bucket.
LEMMA BucketObjFits ==
  ASSUME NEW b \in Buckets
  PROVE  /\ BucketObj(b) \in Nat \ {0}
         /\ BucketSize(b) + AllocHeader <= BucketObj(b)
         /\ \A k \in Nat : BucketSize(b) + AllocHeader <= k * PAGE_SIZE => BucketObj(b) <= k * PAGE_SIZE
<1>1. PICK m \in Nat \ {0} : m = BucketSize(b) + AllocHeader /\ NodeBytes <= m
  BY HeapAssumption, BucketAssumption, SlabAssumption
<1>2. Largest(BucketSize(b) + AllocHeader, NodeBytes) = m
  BY <1>1, HeapAssumption DEF Largest
<1>3. BucketObj(b) = ALIGN_UP(m, PtrAlign)
  BY <1>2 DEF BucketObj
<1>4. /\ ALIGN_UP(m, PtrAlign) \in Nat /\ m <= ALIGN_UP(m, PtrAlign)
      /\ \A k \in Nat : m <= k * PAGE_SIZE => ALIGN_UP(m, PtrAlign) <= k * PAGE_SIZE
  BY AlignUp
<1> QED BY <1>1, <1>3, <1>4

LEMMA BucketObjMonotone ==
  ASSUME NEW b \in Buckets, NEW d \in Buckets, b <= d
  PROVE  BucketObj(b) <= BucketObj(d)
<1>1. PICK A, x, y :
        /\ A = PtrAlign /\ A \in Nat \ {0}
        /\ x = Largest(BucketSize(b) + AllocHeader, NodeBytes) /\ x \in Nat
        /\ y = Largest(BucketSize(d) + AllocHeader, NodeBytes) /\ y \in Nat /\ x <= y
  <2>1. BucketSize(b) \in Nat /\ BucketSize(d) \in Nat /\ BucketSize(b) <= BucketSize(d)
    <3>1. d \in b .. NUM_SLAB_BUCKETS - 1
      BY HeapAssumption DEF Buckets
    <3> QED BY <3>1, BucketAssumption
  <2> QED BY <2>1, HeapAssumption DEF Largest
<1>2. PICK q, r : q = (x + A - 1) \div A /\ r = (y + A - 1) \div A
  OBVIOUS
<1>3. /\ q \in Int /\ q * A <= x + A - 1 /\ x + A - 1 < q * A + A
      /\ r \in Int /\ r * A <= y + A - 1 /\ y + A - 1 < r * A + A
  <2>1. A \in Nat \ {0} /\ x \in Nat /\ y \in Nat
    BY <1>1
  <2>2. q \in Int /\ q * A <= x + A - 1 /\ x + A - 1 < q * A + A
    BY <1>2, <2>1, SMT
  <2>3. r \in Int /\ r * A <= y + A - 1 /\ y + A - 1 < r * A + A
    BY <1>2, <2>1, SMT
  <2> QED BY <2>2, <2>3
<1>4. q <= r
  <2>1. SUFFICES ASSUME q >= r + 1 PROVE FALSE
    BY <1>3
  <2>2. q * A >= (r + 1) * A
    BY <1>1, <1>3, <2>1
  <2>3. (r + 1) * A = r * A + A
    BY <1>1, <1>3
  <2> QED BY <1>1, <1>3, <2>2, <2>3
<1>5. q * A <= r * A
  BY <1>1, <1>3, <1>4
<1>6. BucketObj(b) = q * A /\ BucketObj(d) = r * A
  BY <1>1, <1>2 DEF BucketObj, ALIGN_UP
<1> QED BY <1>5, <1>6

\* Steps that leave the sizes of the caches alone.
LEMMA KeepCaches ==
  ASSUME CachesOK, ~halted, kheap_initialized, kheap_initialized',
         caches' \in Seq(CacheRecs), SameSizes(caches, caches'), objs' \subseteq TypeCaches \X Nat,
         \A a \in DOMAIN live' :
           IF live'[a].cache = NULL THEN a = (a \div PAGE_SIZE) * PAGE_SIZE
           ELSE /\ live'[a].cache = get_bucket_index(live'[a].size) + 2
                /\ live'[a].cache \in 1 .. Len(caches)
  PROVE  CachesOK'
<1>1. Len(caches') = Len(caches) /\ TypeCaches' = TypeCaches /\ Len(caches) \in Nat
  BY DEF SameSizes, TypeCaches, CachesOK
<1>2. \A c \in 1 .. Len(caches) : caches'[c].obj_size = caches[c].obj_size
  BY DEF SameSizes
<1>3. caches # << >> /\ 1 \in 1 .. Len(caches)
  <2>1. Len(caches) > NUM_SLAB_BUCKETS
    BY DEF CachesOK
  <2> QED BY <1>1, <2>1, HeapAssumption
<1>4. caches'[1].obj_size = CacheBytes
  BY <1>2, <1>3 DEF CachesOK
<1>5. \A c \in 2 .. Len(caches) :
        c <= NUM_SLAB_BUCKETS + 1 => caches'[c].obj_size = BucketObj(c - 2)
  <2> SUFFICES ASSUME NEW c \in 2 .. Len(caches), c <= NUM_SLAB_BUCKETS + 1
               PROVE  caches'[c].obj_size = BucketObj(c - 2)
    OBVIOUS
  <2>1. c \in 1 .. Len(caches)
    BY <1>1
  <2>2. caches[c].obj_size = BucketObj(c - 2)
    BY DEF CachesOK
  <2> QED BY <1>2, <2>1, <2>2
<1>6. Len(caches) > NUM_SLAB_BUCKETS
  BY DEF CachesOK
<1> QED BY <1>1, <1>4, <1>5, <1>6 DEF CachesOK

\* kmalloc from a bucket.
LEMMA KmallocSlabMem ==
  ASSUME HeapInv, IInv, MemInv, NEW size \in Nat, NEW src, kmalloc(size, src),
         kmalloc_slab(size, src)
  PROVE  MemInv'
<1>1. /\ phase = "run" /\ ~halted /\ call = NoCall /\ kheap_initialized /\ kheap_initialized'
      /\ UNCHANGED <<objs, others>>
  BY DEF kmalloc, Ready
<1>2. PICK b, c : b = get_bucket_index(size) /\ c = b + 2 /\ b \in Buckets
  BY BucketFits DEF kmalloc_slab
<1>3. /\ Len(caches) \in Nat /\ Len(caches) > NUM_SLAB_BUCKETS /\ caches \in Seq(CacheRecs)
      /\ Refers(caches, live, objs) /\ CachesOK
  BY <1>1, RefersNow DEF MemInv, CachesOK
<1>4. c \in 1 .. Len(caches) /\ c # NULL
  BY <1>2, <1>3, HeapAssumption DEF Buckets, NULL
<1>5. /\ slab_alloc(caches[c]) /\ caches' = [caches EXCEPT ![c] = Popped(@)]
      /\ IF Node(caches[c]) = NULL THEN UNCHANGED <<live, call>>
         ELSE AddBlock(Node(caches[c]), size, c) /\ Then(src)
  BY <1>2 DEF kmalloc_slab
<1>6. PICK new, node : /\ new = [caches EXCEPT ![c] = Popped(caches[c])] /\ node = Node(caches[c])
                       /\ caches' = new
  BY <1>4, <1>5
<1>7. CallFrames = {} /\ CallFrames' = {}
  BY <1>1, <1>5 DEF CallFrames, NoCall, Then
<1>8. Good(Whole(caches, live, objs, others), handed)
  BY <1>7 DEF MemInv, OneOwner
<1>9. Taken(caches, c, new, live, objs, others, node)
  BY <1>1, <1>3, <1>4, <1>5, <1>6, <1>8, TakeObject
<1>10. new \in Seq(CacheRecs) /\ SameSizes(caches, new)
  BY <1>9 DEF Taken
<1>11. objs' \subseteq TypeCaches \X Nat
  BY <1>1, <1>3 DEF CachesOK
<1>12. CASE node = NULL
  <2>1. UNCHANGED live
    BY <1>5, <1>6, <1>12
  <2>2. Good(Whole(new, live, objs, others), handed')
    BY <1>9, <1>12 DEF Taken
  <2>3. OneOwner'
    BY <1>1, <1>6, <1>7, <2>1, <2>2 DEF OneOwner
  <2>4. \A a \in DOMAIN live' :
           IF live'[a].cache = NULL THEN a = (a \div PAGE_SIZE) * PAGE_SIZE
           ELSE /\ live'[a].cache = get_bucket_index(live'[a].size) + 2
                /\ live'[a].cache \in 1 .. Len(caches)
    BY <1>3, <2>1 DEF CachesOK
  <2>5. CachesOK'
    BY <1>1, <1>3, <1>6, <1>10, <1>11, <2>4, KeepCaches
  <2> QED BY <2>3, <2>5 DEF MemInv
<1>13. CASE node # NULL
  <2>1. PICK r : r = [size |-> size, cache |-> c, asked |-> size]
    OBVIOUS
  <2>2. live' = [x \in DOMAIN live \cup {node} |-> IF x = node THEN r ELSE live[x]]
    BY <1>5, <1>6, <1>13, <2>1 DEF AddBlock
  <2>3. PICK q : q = Piece("block", node, 0, node, BlockLen(new, r))
    OBVIOUS
  <2>4. q.start = node /\ q.len = caches[c].obj_size
    <3>1. BlockLen(new, r) = new[c].obj_size
      BY <1>4, <2>1 DEF BlockLen
    <3>2. new[c].obj_size = caches[c].obj_size
      BY <1>4, <1>10 DEF SameSizes
    <3> QED BY <2>3, <3>1, <3>2 DEF Piece
  <2>5. q.len \in 1 .. caches[c].obj_size
    <3>1. caches[c] \in CacheRecs
      BY <1>3, <1>4
    <3>2. caches[c].obj_size \in Nat \ {0}
      BY <3>1 DEF CacheRecs
    <3> QED BY <2>4, <3>2
  <2>6. Good(Whole(new, live, objs, others) \cup {q}, handed')
    BY <1>9, <1>13, <2>4, <2>5 DEF Taken
  <2>7. Whole(new, live', objs, others) \subseteq Whole(new, live, objs, others) \cup {q}
    BY <2>2, <2>3, AddBlockPieces
  <2>8. Good(Whole(new, live', objs, others), handed')
    BY <2>6, <2>7, GoodSubset
  <2>9. OneOwner'
    BY <1>1, <1>6, <1>7, <2>8 DEF OneOwner
  <2>10. ASSUME NEW a \in DOMAIN live'
         PROVE  IF live'[a].cache = NULL THEN a = (a \div PAGE_SIZE) * PAGE_SIZE
                ELSE /\ live'[a].cache = get_bucket_index(live'[a].size) + 2
                     /\ live'[a].cache \in 1 .. Len(caches)
    <3>1. CASE a = node
      BY <1>2, <1>4, <2>1, <2>2, <3>1
    <3>2. CASE a # node
      <4>1. a \in DOMAIN live /\ live'[a] = live[a]
        BY <2>2, <3>2
      <4> QED BY <1>3, <4>1 DEF CachesOK
    <3> QED BY <3>1, <3>2
  <2>11. CachesOK'
    BY <1>1, <1>3, <1>6, <1>10, <1>11, <2>10, KeepCaches
  <2> QED BY <2>9, <2>11 DEF MemInv
<1> QED BY <1>12, <1>13

LEMMA KmallocMem ==
  ASSUME HeapInv, IInv, MemInv, NEW size \in Nat, NEW src, kmalloc(size, src)
  PROVE  MemInv'
<1>1. CASE kmalloc_slab(size, src)
  BY <1>1, KmallocSlabMem
<1>2. CASE kmalloc_first(size, src)
  <2>1. /\ phase = "run" /\ call = NoCall /\ kheap_initialized
        /\ UNCHANGED <<caches, live, objs, others, kheap_initialized, halted>>
        /\ pmm_alloc_frame(NextFrame)
    BY <1>2 DEF kmalloc, Ready, kmalloc_first
  <2>2. /\ NextFrame \in Frames \cup {NoFrame} /\ NextFrame \notin handed
        /\ handed' = handed \cup ({NextFrame} \ {NoFrame})
    BY <2>1, AllocFacts
  <2>3. CallFrames = {}
    BY <2>1 DEF CallFrames, NoCall
  <2>4. CASE NextFrame = NoFrame
    <3>1. CallFrames' = {}
      BY <1>2, <2>4 DEF kmalloc_first, CallFrames, NoCall
    <3> QED BY <2>1, <2>2, <2>3, <3>1, FrameWaits
  <2>5. CASE NextFrame # NoFrame
    <3>1. PICK f \in Nat : f = NextFrame /\ f \notin handed /\ handed' = handed \cup {f}
      BY <2>2, <2>5, SizeAssumption DEF Frames
    <3>2. CallFrames' = {f}
      BY <1>2, <2>5, <3>1 DEF kmalloc_first, CallFrames, RunFrames
    <3>3. (others \cup CallFrames)' = others \cup CallFrames \cup {f}
      BY <2>1, <2>3, <3>2
    <3> QED BY <2>1, <3>1, <3>3, FrameJoins
  <2> QED BY <2>4, <2>5
<1> QED BY <1>1, <1>2 DEF kmalloc

\* num_pages leaves room for the block and its header.
LEMMA PagesFit ==
  ASSUME NEW size, Fits(size)
  PROVE  /\ num_pages(size) \in Nat \ {0} /\ size \in Nat
         /\ size + AllocHeader <= num_pages(size) * PAGE_SIZE
<1>1. PICK t \in Nat : t = size + AllocHeader /\ size \in Nat
  BY HeapAssumption DEF Fits
<1>2. num_pages(size) = Quot(t) /\ num_pages(size) \in Nat \ {0}
  BY <1>1, NumPages
<1>3. t + PAGE_SIZE - 1 < Quot(t) * PAGE_SIZE + PAGE_SIZE /\ Quot(t) \in Nat
  BY <1>1, QuotBounds
<1>4. PICK m \in Int, P \in Nat : m = Quot(t) * PAGE_SIZE /\ P = PAGE_SIZE
  BY <1>3, SizeAssumption
<1>5. t <= m
  BY <1>3, <1>4
<1> QED BY <1>1, <1>2, <1>4, <1>5

LEMMA KmallocNextMem ==
  ASSUME HeapInv, IInv, MemInv, kmalloc_next
  PROVE  MemInv'
<1>1. /\ phase = "run" /\ ~halted /\ call.op = "kmalloc"
      /\ UNCHANGED <<caches, objs, others, kheap_initialized>>
      /\ call \in [op : {"kmalloc"}, phys : Nat, i : Nat, n : Nat, size : Nat,
                   src : DOMAIN live \cup {NULL}]
      /\ 1 <= call.i /\ call.i <= call.n
      /\ Fits(call.size) /\ call.n = num_pages(call.size)
  BY DEF kmalloc_next, HeapInv, CallOK, NoCall
<1>2. kheap_initialized
  BY <1>1 DEF MemInv, CachesOK, NoCall
<1>3. CallFrames = RunFrames(call.phys, call.i)
  BY <1>1 DEF CallFrames
<1>4. CASE call.i < call.n
  <2>1. pmm_alloc_frame(NextFrame) /\ UNCHANGED live
    BY <1>4 DEF kmalloc_next
  <2>2. /\ NextFrame \in Frames \cup {NoFrame} /\ NextFrame \notin handed
        /\ handed' = handed \cup ({NextFrame} \ {NoFrame})
    BY <1>1, <2>1, AllocFacts
  <2>3. CASE NextFrame = call.phys + call.i
    <3>1. call' = [call EXCEPT !.i = @ + 1] /\ UNCHANGED halted
      BY <1>4, <2>3 DEF kmalloc_next
    <3>2. NextFrame \in Nat /\ NextFrame # NoFrame
      BY <1>1, <2>3 DEF NoFrame
    <3>3. CallFrames' = CallFrames \cup {NextFrame}
      BY <1>1, <2>3, <3>1 DEF CallFrames, RunFrames
    <3>4. PICK f \in Nat : f = NextFrame
      BY <3>2
    <3>5. f \notin handed /\ handed' = handed \cup {f}
      BY <2>2, <3>2, <3>4
    <3>6. (others \cup CallFrames)' = others \cup CallFrames \cup {f}
      BY <1>1, <3>3, <3>4
    <3> QED BY <1>1, <1>2, <2>1, <3>1, <3>5, <3>6, FrameJoins
  <2>4. CASE NextFrame # call.phys + call.i
    <3>1. halted' = TRUE /\ UNCHANGED call
      BY <1>4, <2>4 DEF kmalloc_next
    <3>2. (others \cup CallFrames)' = others \cup CallFrames /\ handed \subseteq handed'
      BY <1>1, <2>2, <3>1 DEF CallFrames
    <3> QED BY <1>1, <1>2, <2>1, <3>1, <3>2, FrameWaits
  <2> QED BY <2>3, <2>4
<1>5. CASE ~(call.i < call.n)
  <2>1. /\ AddBlock(call.phys * PAGE_SIZE, call.size, NULL)
        /\ Then(call.src) /\ UNCHANGED <<physVars, halted>>
    BY <1>5 DEF kmalloc_next
  <2>2. handed' = handed
    BY <2>1 DEF physVars
  <2>3. PICK f \in Nat, n \in Nat \ {0}, size \in Nat :
          /\ f = call.phys /\ n = call.n /\ size = call.size
          /\ n = num_pages(size) /\ call.i = n
    BY <1>1, <1>5
  <2>4. PICK a \in Nat : a = f * PAGE_SIZE
    BY <2>3, SizeAssumption
  <2>5. PICK r : r = [size |-> size, cache |-> NULL, asked |-> size]
    OBVIOUS
  <2>6. live' = [x \in DOMAIN live \cup {a} |-> IF x = a THEN r ELSE live[x]]
    BY <2>1, <2>3, <2>4, <2>5 DEF AddBlock
  <2>7. PICK q : q = Piece("block", a, 0, a, BlockLen(caches, r))
    OBVIOUS
  <2>8. q.start = f * PAGE_SIZE /\ q.len = n * PAGE_SIZE
    BY <2>3, <2>4, <2>5, <2>7 DEF Piece, BlockLen
  <2>9. PICK fr : fr = others \cup CallFrames /\ RunFrames(f, n) \subseteq fr
                  /\ fr \ RunFrames(f, n) = others
    BY <1>3, <2>3 DEF HeapInv, Owned
  <2>10. Good(Whole(caches, live, objs, fr), handed)
    BY <2>9 DEF MemInv, OneOwner
  <2>11. Good(Whole(caches, live, objs, others) \cup {q}, handed)
    BY <2>8, <2>9, <2>10, Gather
  <2>12. Whole(caches, live', objs, others) \subseteq Whole(caches, live, objs, others) \cup {q}
    BY <2>6, <2>7, AddBlockPieces
  <2>13. Good(Whole(caches, live', objs, others), handed)
    BY <2>11, <2>12, GoodSubset
  <2>14. CallFrames' = {}
    BY <2>1 DEF CallFrames, NoCall, Then
  <2>15. OneOwner'
    BY <1>1, <2>2, <2>13, <2>14 DEF OneOwner
  <2>16. CachesOK /\ SameSizes(caches, caches') /\ caches' \in Seq(CacheRecs)
         /\ objs' \subseteq TypeCaches \X Nat
    BY <1>1 DEF MemInv, CachesOK, SameSizes
  <2>17. ASSUME NEW x \in DOMAIN live'
         PROVE  IF live'[x].cache = NULL THEN x = (x \div PAGE_SIZE) * PAGE_SIZE
                ELSE /\ live'[x].cache = get_bucket_index(live'[x].size) + 2
                     /\ live'[x].cache \in 1 .. Len(caches)
    <3>1. CASE x = a
      <4>1. a \div PAGE_SIZE = f
        BY <2>4, FrameOfAddress
      <4>2. live'[x].cache = NULL
        BY <2>5, <2>6, <3>1
      <4> QED BY <2>4, <3>1, <4>1, <4>2
    <3>2. CASE x # a
      <4>1. x \in DOMAIN live /\ live'[x] = live[x]
        BY <2>6, <3>2
      <4> QED BY <2>16, <4>1 DEF CachesOK
    <3> QED BY <3>1, <3>2
  <2>18. CachesOK'
    BY <1>1, <1>2, <2>16, <2>17, KeepCaches
  <2> QED BY <2>15, <2>18 DEF MemInv
<1> QED BY <1>4, <1>5

\* kfree, kfree_sized and krealloc's kfree: the object or the frames the block
\* goes back as lie in the block.
LEMMA ReleaseMem ==
  ASSUME HeapInv, MemInv, ~halted, NEW a \in DOMAIN live, NEW c, NEW n \in Nat,
         CallFrames = {}, Release(a, c, n),
         c # NULL => /\ c \in 1 .. Len(caches)
                     /\ caches[c].obj_size <= BlockLen(caches, live[a]),
         c = NULL => live[a].cache = NULL /\ n <= num_pages(live[a].size)
  PROVE  MemInv'
<1>1. /\ live' = [x \in DOMAIN live \ {a} |-> live[x]] /\ handed' = handed
      /\ UNCHANGED <<kheap_initialized, objs, others, halted>>
  BY DEF Release, RemoveBlock, physVars
<1>2. PICK q : q = Piece("block", a, 0, a, BlockLen(caches, live[a]))
  OBVIOUS
<1>3. q.start = a /\ q.len = BlockLen(caches, live[a])
  BY <1>2 DEF Piece
<1>4. /\ Whole(caches, live', objs, others) \cup {q} \subseteq Whole(caches, live, objs, others)
      /\ q \notin Whole(caches, live', objs, others)
  <2>1. Without(Whole(caches, Unblock(live, a), objs, others), BlockPiece(caches, live, a),
                Whole(caches, live, objs, others))
    BY RemoveBlockPieces, Zenon
  <2>2. live' = Unblock(live, a) /\ q = BlockPiece(caches, live, a)
    BY <1>1, <1>2 DEF Unblock, BlockPiece
  <2> QED BY <2>1, <2>2 DEF Without
<1>5. Good(Whole(caches, live, objs, others), handed)
  BY DEF MemInv, OneOwner
<1>6. Good(Whole(caches, live', objs, others) \cup {q}, handed)
  BY <1>4, <1>5, GoodSubset
<1>7. a \in Nat
  BY <1>3, <1>6 DEF Good
<1>8. /\ Len(caches) \in Nat /\ caches \in Seq(CacheRecs) /\ CachesOK
      /\ Refers(caches, live, objs) /\ kheap_initialized /\ objs' \subseteq TypeCaches \X Nat
  BY <1>1, RefersNow DEF MemInv, CachesOK
<1>9. Refers(caches, live', objs)
  BY <1>1, <1>8 DEF Refers
<1>10. \A x \in DOMAIN live' :
         IF live'[x].cache = NULL THEN x = (x \div PAGE_SIZE) * PAGE_SIZE
         ELSE /\ live'[x].cache = get_bucket_index(live'[x].size) + 2
              /\ live'[x].cache \in 1 .. Len(caches)
  <2>1. \A x \in DOMAIN live' : x \in DOMAIN live /\ live'[x] = live[x]
    BY <1>1
  <2> QED BY <1>8, <2>1 DEF CachesOK
<1>11. CASE c # NULL
  <2>1. call' = NoCall /\ slab_free(c, a)
    BY <1>11 DEF Release
  <2>2. CallFrames' = {}
    BY <2>1 DEF CallFrames, NoCall
  <2>3. caches' = PushOf(caches, c, a)
    BY <2>1 DEF slab_free, PushOf
  <2>4. caches' \in Seq(CacheRecs) /\ SameSizes(caches, caches')
    BY <1>7, <1>8, <1>11, <2>3, PushShape DEF SameShape
  <2>5. q.len >= caches[c].obj_size
    <3>1. caches[c] \in CacheRecs
      BY <1>8, <1>11
    <3>2. caches[c].obj_size \in Nat /\ q.len \in Nat
      BY <1>6, <3>1 DEF Good, CacheRecs
    <3> QED BY <1>3, <1>11, <3>2
  <2>6. Good(Whole(PushOf(caches, c, a), live', objs, others), handed)
    BY <1>3, <1>4, <1>6, <1>7, <1>8, <1>9, <1>11, <2>5, Push
  <2>7. OneOwner'
    BY <1>1, <2>2, <2>3, <2>6 DEF OneOwner
  <2>8. CachesOK'
    BY <1>1, <1>8, <1>10, <2>4, KeepCaches
  <2> QED BY <2>7, <2>8 DEF MemInv
<1>12. CASE c = NULL
  <2>1. /\ call' = [op |-> "free", phys |-> a \div PAGE_SIZE, i |-> 0, n |-> n]
        /\ UNCHANGED caches
    BY <1>12 DEF Release
  <2>2. PICK f \in Nat : f = a \div PAGE_SIZE /\ a = f * PAGE_SIZE
    <3>1. a \div PAGE_SIZE \in Nat
      BY <1>7, SizeAssumption
    <3>2. a = (a \div PAGE_SIZE) * PAGE_SIZE
      BY <1>8, <1>12 DEF CachesOK
    <3> QED BY <3>1, <3>2
  <2>3. CallFrames' = RunFrames(f, n)
    BY <2>1, <2>2 DEF CallFrames, RunFrames
  <2>4. PICK k \in Nat : k = num_pages(live[a].size) /\ n <= k
    BY <1>12, PagesFit DEF HeapInv, LiveOK
  <2>5. q.start = f * PAGE_SIZE /\ q.len = k * PAGE_SIZE
    BY <1>3, <1>12, <2>2, <2>4 DEF BlockLen
  <2>6. Good(Whole(caches, live', objs, others \cup RunFrames(f, n)), handed)
    BY <1>4, <1>6, <2>4, <2>5, Split
  <2>7. OneOwner'
    BY <1>1, <2>1, <2>3, <2>6 DEF OneOwner
  <2>8. caches' \in Seq(CacheRecs) /\ SameSizes(caches, caches')
    BY <1>8, <2>1 DEF SameSizes
  <2>9. CachesOK'
    BY <1>1, <1>8, <1>10, <2>8, KeepCaches
  <2> QED BY <2>7, <2>9 DEF MemInv
<1> QED BY <1>11, <1>12

LEMMA FreeNextMem ==
  ASSUME HeapInv, IInv, MemInv, free_next
  PROVE  MemInv'
<1>1. /\ call.op = "free" /\ UNCHANGED <<caches, kheap_initialized, live, objs, others, halted>>
      /\ call \in [op : {"free"}, phys : Int, i : Nat, n : Nat]
  BY DEF free_next, HeapInv, CallOK, NoCall
<1>2. kheap_initialized
  BY <1>1 DEF MemInv, CachesOK, NoCall
<1>3. CASE call.i < call.n
  <2>1. PICK f : f = call.phys + call.i
    OBVIOUS
  <2>2. pmm_free_frame(f) /\ call' = [call EXCEPT !.i = @ + 1]
    BY <1>3, <2>1 DEF free_next, FrameToFree
  <2>3. f \in CallFrames /\ CallFrames' = CallFrames \ {f}
    BY <1>1, <1>3, <2>1, <2>2 DEF CallFrames
  <2>4. f \in handed /\ f \notin others
    BY <2>3 DEF HeapInv, Owned
  <2>5. handed' = handed \ {f}
    BY <2>2, <2>4, FreeFacts
  <2>6. f \in Nat
    BY <2>4 DEF IInv, TypeOK, Frames
  <2>7. (others \cup CallFrames)' = (others \cup CallFrames) \ {f}
    BY <1>1, <2>3, <2>4
  <2> QED BY <1>1, <1>2, <2>3, <2>5, <2>6, <2>7, FrameLeaves
<1>4. CASE ~(call.i < call.n)
  <2>1. call' = NoCall /\ UNCHANGED physVars
    BY <1>4 DEF free_next
  <2>2. handed' = handed /\ CallFrames' = {}
    BY <2>1 DEF physVars, CallFrames, NoCall
  <2>3. CachesOK'
    BY <1>1, <1>2, SameCaches DEF MemInv
  <2>4. Good(Whole(caches, live, objs, others), handed)
    <3>1. Whole(caches, live, objs, others) \subseteq Whole(caches, live, objs, others \cup CallFrames)
      BY DEF Whole, FrameP
    <3> QED BY <3>1, GoodSubset DEF MemInv, OneOwner
  <2> QED BY <1>1, <2>2, <2>3, <2>4 DEF MemInv, OneOwner
<1> QED BY <1>3, <1>4

LEMMA KeepMem ==
  ASSUME HeapInv, MemInv, NEW a \in DOMAIN live, NEW new_size, krealloc_keep(a, new_size)
  PROVE  MemInv'
<1>1. /\ live' = [live EXCEPT ![a].asked = new_size] /\ ~halted
      /\ UNCHANGED <<caches, kheap_initialized, objs, others, call, halted>> /\ handed' = handed
  BY DEF krealloc_keep, Ready, physVars
<1>2. live \in [DOMAIN live -> [size : Nat, cache : Int, asked : Nat]]
  BY DEF HeapInv, LiveOK
<1>3. /\ DOMAIN live' = DOMAIN live
      /\ \A x \in DOMAIN live : live'[x].size = live[x].size /\ live'[x].cache = live[x].cache
  BY <1>1, <1>2
<1>4. BlockP(caches, live') = BlockP(caches, live)
  <2>1. \A x \in DOMAIN live : BlockLen(caches, live'[x]) = BlockLen(caches, live[x])
    BY <1>3 DEF BlockLen
  <2> QED BY <1>3, <2>1 DEF BlockP
<1>5. CallFrames' = CallFrames
  BY <1>1 DEF CallFrames
<1>6. Whole(caches, live', objs, others \cup CallFrames)
        = Whole(caches, live, objs, others \cup CallFrames)
  BY <1>4 DEF Whole
<1>7. OneOwner'
  BY <1>1, <1>5, <1>6 DEF MemInv, OneOwner
<1>8. /\ CachesOK /\ kheap_initialized /\ objs' \subseteq TypeCaches \X Nat
      /\ caches' \in Seq(CacheRecs) /\ SameSizes(caches, caches')
  BY <1>1 DEF MemInv, CachesOK, SameSizes
<1>9. \A x \in DOMAIN live' :
         IF live'[x].cache = NULL THEN x = (x \div PAGE_SIZE) * PAGE_SIZE
         ELSE /\ live'[x].cache = get_bucket_index(live'[x].size) + 2
              /\ live'[x].cache \in 1 .. Len(caches)
  BY <1>3, <1>8 DEF CachesOK
<1>10. CachesOK'
  BY <1>1, <1>8, <1>9, KeepCaches
<1> QED BY <1>7, <1>10 DEF MemInv

\* Objects of the clients' own caches.
LEMMA TypeAllocMem ==
  ASSUME IInv, MemInv, NEW c \in TypeCaches, type_alloc(c)
  PROVE  MemInv'
<1>1. /\ phase = "run" /\ ~halted /\ call = NoCall /\ slab_alloc(caches[c])
      /\ caches' = [caches EXCEPT ![c] = Popped(@)]
      /\ objs' = IF Node(caches[c]) = NULL THEN objs ELSE objs \cup {<<c, Node(caches[c])>>}
      /\ UNCHANGED <<kheap_initialized, live, others, call>>
  BY DEF type_alloc, Ready
<1>2. /\ Len(caches) \in Nat /\ caches \in Seq(CacheRecs) /\ CachesOK
      /\ Refers(caches, live, objs)
  BY RefersNow DEF MemInv, CachesOK
<1>3. c \in 1 .. Len(caches) /\ kheap_initialized
  BY <1>1, <1>2, HeapAssumption DEF TypeCaches, CachesOK
<1>4. PICK new, node : /\ new = [caches EXCEPT ![c] = Popped(caches[c])] /\ node = Node(caches[c])
                       /\ caches' = new
  BY <1>1, <1>3
<1>5. CallFrames = {} /\ CallFrames' = {}
  BY <1>1 DEF CallFrames, NoCall
<1>6. Good(Whole(caches, live, objs, others), handed)
  BY <1>5 DEF MemInv, OneOwner
<1>7. Taken(caches, c, new, live, objs, others, node)
  BY <1>1, <1>2, <1>3, <1>4, <1>6, TakeObject
<1>8. new \in Seq(CacheRecs) /\ SameSizes(caches, new)
  BY <1>7 DEF Taken
<1>9. \A a \in DOMAIN live' :
         IF live'[a].cache = NULL THEN a = (a \div PAGE_SIZE) * PAGE_SIZE
         ELSE /\ live'[a].cache = get_bucket_index(live'[a].size) + 2
              /\ live'[a].cache \in 1 .. Len(caches)
  BY <1>1, <1>2 DEF CachesOK
<1>10. objs \subseteq TypeCaches \X Nat
  BY <1>2 DEF CachesOK
<1>11. CASE node = NULL
  <2>1. objs' = objs
    BY <1>1, <1>4, <1>11
  <2>2. Good(Whole(new, live, objs, others), handed')
    BY <1>7, <1>11 DEF Taken
  <2>3. OneOwner'
    BY <1>1, <1>4, <1>5, <2>1, <2>2 DEF OneOwner
  <2>4. CachesOK'
    BY <1>1, <1>2, <1>3, <1>4, <1>8, <1>9, <1>10, <2>1, KeepCaches
  <2> QED BY <2>3, <2>4 DEF MemInv
<1>12. CASE node # NULL
  <2>1. objs' = objs \cup {<<c, node>>} /\ node \in Nat
    BY <1>1, <1>4, <1>7, <1>12 DEF Taken
  <2>2. PICK q : q = Piece("object", c, node, node, new[c].obj_size)
    OBVIOUS
  <2>3. q.start = node /\ q.len = caches[c].obj_size
    BY <1>3, <1>8, <2>2 DEF Piece, SameSizes
  <2>4. q.len \in 1 .. caches[c].obj_size
    <3>1. caches[c] \in CacheRecs
      BY <1>2, <1>3
    <3>2. caches[c].obj_size \in Nat \ {0}
      BY <3>1 DEF CacheRecs
    <3> QED BY <2>3, <3>2
  <2>5. Good(Whole(new, live, objs, others) \cup {q}, handed')
    BY <1>7, <1>12, <2>3, <2>4 DEF Taken
  <2>6. Whole(new, live, objs \cup {<<c, node>>}, others) \subseteq Whole(new, live, objs, others) \cup {q}
    BY <2>2, AddObjectPieces
  <2>7. Good(Whole(new, live, objs \cup {<<c, node>>}, others), handed')
    <3>1. PICK A, B : A = Whole(new, live, objs, others) \cup {q}
                      /\ B = Whole(new, live, objs \cup {<<c, node>>}, others)
      OBVIOUS
    <3>2. B \in SUBSET A /\ Good(A, handed')
      BY <2>5, <2>6, <3>1
    <3>3. Good(B, handed')
      BY <3>2, GoodSubset
    <3> QED BY <3>1, <3>3
  <2>8. OneOwner'
    BY <1>1, <1>4, <1>5, <2>1, <2>7 DEF OneOwner
  <2>9. objs' \subseteq TypeCaches \X Nat
    BY <1>10, <2>1
  <2>10. CachesOK'
    BY <1>1, <1>2, <1>3, <1>4, <1>8, <1>9, <2>9, KeepCaches
  <2> QED BY <2>8, <2>10 DEF MemInv
<1> QED BY <1>11, <1>12

LEMMA TypeFreeMem ==
  ASSUME MemInv, NEW o \in objs, type_free(o)
  PROVE  MemInv'
<1>1. /\ ~halted /\ call = NoCall /\ objs' = objs \ {o} /\ slab_free(o[1], o[2])
      /\ UNCHANGED <<kheap_initialized, live, others, call, halted>> /\ handed' = handed
  BY DEF type_free, Ready, physVars
<1>2. /\ Len(caches) \in Nat /\ caches \in Seq(CacheRecs) /\ CachesOK
      /\ Refers(caches, live, objs)
      /\ \A x \in objs : x = <<x[1], x[2]>> /\ x[1] \in TypeCaches /\ x[2] \in Nat
  BY RefersNow DEF MemInv, CachesOK
<1>3. PICK c \in TypeCaches, a \in Nat : o = <<c, a>> /\ c = o[1] /\ a = o[2]
  BY <1>2
<1>4. c \in 1 .. Len(caches) /\ kheap_initialized
  BY <1>1, <1>2, HeapAssumption DEF TypeCaches, CachesOK
<1>5. CallFrames = {} /\ CallFrames' = {}
  BY <1>1 DEF CallFrames, NoCall
<1>6. caches' = PushOf(caches, c, a)
  BY <1>1, <1>3 DEF slab_free, PushOf
<1>7. caches' \in Seq(CacheRecs) /\ SameSizes(caches, caches')
  BY <1>2, <1>4, <1>6, PushShape DEF SameShape
<1>8. PICK q : q = Piece("object", c, a, a, caches[c].obj_size)
  OBVIOUS
<1>9. q.start = a /\ q.len = caches[c].obj_size
  BY <1>8 DEF Piece
<1>10. /\ Whole(caches, live, objs \ {<<c, a>>}, others) \cup {q} \subseteq Whole(caches, live, objs, others)
       /\ q \notin Whole(caches, live, objs \ {<<c, a>>}, others)
  <2>1. \A x \in objs : x = <<x[1], x[2]>>
    BY <1>2
  <2>2. <<c, a>> \in objs
    BY <1>3
  <2>3. Without(Whole(caches, live, objs \ {<<c, a>>}, others), ObjPiece(caches, c, a),
                Whole(caches, live, objs, others))
    BY <2>1, <2>2, RemoveObjectPieces, Zenon
  <2>4. q = ObjPiece(caches, c, a)
    BY <1>8 DEF ObjPiece
  <2> QED BY <2>3, <2>4 DEF Without
<1>11. PICK ob : ob = objs \ {<<c, a>>}
  OBVIOUS
<1>12. Good(Whole(caches, live, ob, others) \cup {q}, handed)
  BY <1>5, <1>10, <1>11, GoodSubset DEF MemInv, OneOwner
<1>13. q.len >= caches[c].obj_size
  <2>1. q.len \in Nat
    BY <1>12 DEF Good
  <2> QED BY <1>9, <2>1
<1>14. Refers(caches, live, ob)
  BY <1>2, <1>11 DEF Refers
<1>15. Good(Whole(PushOf(caches, c, a), live, ob, others), handed)
  BY <1>2, <1>4, <1>9, <1>10, <1>11, <1>12, <1>13, <1>14, Push
<1>16. OneOwner'
  BY <1>1, <1>3, <1>5, <1>6, <1>11, <1>15 DEF OneOwner
<1>17. \A x \in DOMAIN live' :
         IF live'[x].cache = NULL THEN x = (x \div PAGE_SIZE) * PAGE_SIZE
         ELSE /\ live'[x].cache = get_bucket_index(live'[x].size) + 2
              /\ live'[x].cache \in 1 .. Len(caches)
  BY <1>1, <1>2 DEF CachesOK
<1>18. objs' \subseteq TypeCaches \X Nat
  BY <1>1, <1>2 DEF CachesOK
<1>19. CachesOK'
  BY <1>1, <1>2, <1>4, <1>7, <1>17, <1>18, KeepCaches
<1> QED BY <1>16, <1>19 DEF MemInv

\* slab_cache_create: the first call makes the cache of the caches.
LEMMA FirstCachePieces ==
  ASSUME NEW r \in CacheRecs, r.slabs = {}, r.free_objects = << >>,
         NEW lv, NEW ob, NEW fr, Refers(<< >>, lv, ob)
  PROVE  Whole(<< r >>, lv, ob, fr) \subseteq Whole(<< >>, lv, ob, fr)
<1>1. PICK cs : cs = << r >>
  OBVIOUS
<1>2. Len(cs) = 1 /\ cs[1] = r
  BY <1>1
<1>3. SlabP(cs) = {}
  <2>1. \A c \in 1 .. Len(cs) : cs[c].slabs = {}
    BY <1>2
  <2> QED BY <2>1 DEF SlabP
<1>4. FreeP(cs) = {}
  <2>1. 1 .. 0 = {}
    OBVIOUS
  <2>2. \A c \in 1 .. Len(cs) : Len(cs[c].free_objects) = 0
    BY <1>2
  <2>3. \A c \in 1 .. Len(cs) : FreeOf(cs, c) = {}
    BY <2>1, <2>2 DEF FreeOf
  <2> QED BY <2>3 DEF FreeP
<1>5. CacheP(cs) = {}
  <2>1. 2 .. 1 = {}
    OBVIOUS
  <2> QED BY <1>2, <2>1 DEF CacheP
<1>6. 1 .. Len(<< >>) = {}
  OBVIOUS
<1>7. ObjP(cs, ob) = {}
  <2>1. ob = {}
    BY <1>6 DEF Refers
  <2> QED BY <2>1 DEF ObjP
<1>8. BlockP(cs, lv) = BlockP(<< >>, lv)
  <2>1. \A a \in DOMAIN lv : lv[a].cache = NULL
    BY <1>6 DEF Refers
  <2>2. \A a \in DOMAIN lv : BlockLen(cs, lv[a]) = BlockLen(<< >>, lv[a])
    BY <2>1 DEF BlockLen
  <2> QED BY <2>2 DEF BlockP
<1> QED BY <1>1, <1>3, <1>4, <1>5, <1>7, <1>8 DEF Whole

\* What slab_cache_create makes of the caches cs: one more, or a panic.
Created(cs, size) ==
  /\ caches' \in Seq(CacheRecs)
  /\ \A c \in 1 .. Len(cs) : caches'[c].obj_size = cs[c].obj_size
  /\ \/ halted' /\ Len(caches') = Len(cs)
     \/ /\ Len(caches') = Len(cs) + 1
        /\ caches'[Len(cs) + 1].obj_size = ALIGN_UP(Largest(size, NodeBytes), PtrAlign)

LEMMA BootstrapFacts ==
  ASSUME MemInv
  PROVE  /\ Bootstrapped \in Seq(CacheRecs) /\ Len(Bootstrapped) \in Nat \ {0}
         /\ Bootstrapped[1].obj_size = CacheBytes
         /\ caches # << >> => Bootstrapped = caches
         /\ caches = << >> => Len(Bootstrapped) = 1
         /\ Refers(Bootstrapped, live, objs)
         /\ Good(Whole(Bootstrapped, live, objs, others \cup CallFrames), handed)
<1>1. caches \in Seq(CacheRecs) /\ Len(caches) \in Nat /\ Refers(caches, live, objs)
  BY RefersNow DEF MemInv, CachesOK
<1>2. CASE caches # << >>
  <2>1. Bootstrapped = caches
    BY <1>2 DEF Bootstrapped
  <2>2. Len(caches) # 0
    BY <1>1, <1>2
  <2> QED BY <1>1, <1>2, <2>1, <2>2 DEF MemInv, OneOwner, CachesOK
<1>3. CASE caches = << >>
  <2>1. PICK r : r = EmptyCache(CacheBytes, NULL)
    OBVIOUS
  <2>2. r \in CacheRecs /\ r.slabs = {} /\ r.free_objects = << >> /\ r.obj_size = CacheBytes
    BY <2>1, HeapAssumption DEF EmptyCache, CacheRecs, NULL
  <2>3. Bootstrapped = << r >>
    BY <1>3, <2>1 DEF Bootstrapped
  <2>4. << r >> \in Seq(CacheRecs) /\ Len(<< r >>) = 1 /\ << r >>[1] = r
    BY <2>2
  <2>5. Refers(<< >>, live, objs)
    BY <1>1, <1>3
  <2>6. Refers(Bootstrapped, live, objs)
    <3>1. 1 .. Len(<< >>) = {}
      OBVIOUS
    <3> QED BY <2>5, <3>1 DEF Refers
  <2>7. PICK A, B : /\ A = Whole(<< >>, live, objs, others \cup CallFrames)
                    /\ B = Whole(<< r >>, live, objs, others \cup CallFrames)
    OBVIOUS
  <2>8. B \in SUBSET A
    BY <2>2, <2>5, <2>7, FirstCachePieces
  <2>9. Good(A, handed)
    BY <1>3, <2>7 DEF MemInv, OneOwner
  <2>10. Good(B, handed)
    BY <2>8, <2>9, GoodSubset
  <2> QED BY <1>3, <2>2, <2>3, <2>4, <2>6, <2>7, <2>10
<1> QED BY <1>2, <1>3

LEMMA CreateMem ==
  ASSUME IInv, MemInv, phase = "run", call = NoCall, NEW size \in Nat,
         slab_cache_create(size), UNCHANGED <<live, objs, others, call>>
  PROVE  OneOwner' /\ Created(Bootstrapped, size)
<1>1. PICK cs : cs = Bootstrapped
  OBVIOUS
<1>2. CallFrames = {} /\ CallFrames' = {}
  BY DEF CallFrames, NoCall
<1>3. /\ cs \in Seq(CacheRecs) /\ Len(cs) \in Nat \ {0} /\ cs[1].obj_size = CacheBytes
      /\ Refers(cs, live, objs) /\ Good(Whole(cs, live, objs, others), handed)
  BY <1>1, <1>2, BootstrapFacts
<1>4. PICK new, node, z : /\ new = [cs EXCEPT ![1] = Popped(cs[1])] /\ node = Node(cs[1])
                          /\ z = ALIGN_UP(Largest(size, NodeBytes), PtrAlign)
  OBVIOUS
<1>5. /\ slab_alloc(cs[1])
      /\ caches' = new \o (IF node = NULL THEN << >> ELSE << EmptyCache(z, node) >>)
  BY <1>1, <1>4 DEF slab_cache_create
<1>6. 1 \in 1 .. Len(cs)
  BY <1>3
<1>7. Taken(cs, 1, new, live, objs, others, node)
  BY <1>3, <1>4, <1>5, <1>6, TakeObject
<1>8. new \in Seq(CacheRecs) /\ SameSizes(cs, new) /\ Len(new) = Len(cs)
  BY <1>7 DEF Taken, SameSizes
<1>9. Refers(new, live, objs)
  BY <1>3, <1>8 DEF Refers
<1>10. CASE node = NULL
  <2>1. caches' = new
    <3>1. new \o << >> = new
      BY <1>8
    <3> QED BY <1>5, <1>10, <3>1
  <2>2. Good(Whole(new, live, objs, others), handed')
    BY <1>7, <1>10 DEF Taken
  <2>3. halted'
    BY <1>3, <1>7, <1>10, SlabAssumption DEF Taken
  <2>4. OneOwner'
    BY <1>2, <2>1, <2>2 DEF OneOwner
  <2>5. Created(cs, size)
    BY <1>8, <2>1, <2>3 DEF Created, SameSizes
  <2> QED BY <1>1, <2>4, <2>5
<1>11. CASE node # NULL
  <2>1. z \in Nat \ {0}
    <3>1. PICK m \in Nat : m = Largest(size, NodeBytes) /\ 1 <= m
      BY HeapAssumption DEF Largest
    <3>2. ALIGN_UP(m, PtrAlign) \in Nat /\ m <= ALIGN_UP(m, PtrAlign)
      BY <3>1, AlignUp
    <3> QED BY <1>4, <3>1, <3>2
  <2>2. node \in Nat
    BY <1>7, <1>11 DEF Taken
  <2>3. PICK r : r = EmptyCache(z, node)
    OBVIOUS
  <2>4. r.slabs = {} /\ r.free_objects = << >> /\ r.obj_size = z /\ r.at = node
    BY <2>3 DEF EmptyCache
  <2>5. r \in CacheRecs
    BY <2>1, <2>2, <2>3 DEF EmptyCache, CacheRecs
  <2>6. caches' = new \o << r >>
    BY <1>5, <1>11, <2>3
  <2>7. PICK n, nw, lv, ob, fr :
          n \in Nat /\ n = Len(cs) /\ nw = caches' /\ lv = live /\ ob = objs /\ fr = others
    BY <1>3
  <2>8. PICK q : q = Piece("cache", n + 1, 0, node, CacheBytes)
    OBVIOUS
  <2>9. /\ nw \in Seq(CacheRecs) /\ Len(nw) = n + 1 /\ nw[n + 1] = r
        /\ \A c \in 1 .. n : nw[c] = new[c]
    BY <1>8, <1>9, <2>4, <2>5, <2>6, <2>7, AddCachePieces
  <2>10. Whole(nw, lv, ob, fr) \subseteq Whole(new, lv, ob, fr) \cup {q}
    BY <1>8, <1>9, <2>4, <2>5, <2>6, <2>7, <2>8, AddCachePieces
  <2>11. q.start = node /\ q.len \in 1 .. cs[1].obj_size
    BY <1>3, <2>8, HeapAssumption DEF Piece
  <2>12. Good(Whole(new, lv, ob, fr) \cup {q}, handed')
    BY <1>7, <1>11, <2>7, <2>11 DEF Taken
  <2>13. Good(Whole(nw, lv, ob, fr), handed')
    <3>1. PICK A, B : A = Whole(new, lv, ob, fr) \cup {q} /\ B = Whole(nw, lv, ob, fr)
      OBVIOUS
    <3>2. B \in SUBSET A /\ Good(A, handed')
      BY <2>10, <2>12, <3>1
    <3>3. Good(B, handed')
      BY <3>2, GoodSubset
    <3> QED BY <3>1, <3>3
  <2>14. OneOwner'
    BY <1>2, <2>7, <2>13 DEF OneOwner
  <2>15. \A c \in 1 .. n : nw[c].obj_size = cs[c].obj_size
    BY <1>8, <2>7, <2>9 DEF SameSizes
  <2>16. nw[n + 1].obj_size = z
    BY <2>4, <2>9
  <2>17. Created(cs, size)
    BY <1>4, <2>7, <2>9, <2>15, <2>16 DEF Created
  <2> QED BY <1>1, <2>14, <2>17
<1> QED BY <1>10, <1>11

LEMMA KheapInitMem ==
  ASSUME IInv, MemInv, kheap_init
  PROVE  MemInv'
<1>1. /\ phase = "run" /\ ~halted /\ call = NoCall /\ ~kheap_initialized
      /\ UNCHANGED <<live, objs, others, call>>
  BY DEF kheap_init, Ready
<1>2. PICK cs, n : cs = Bootstrapped /\ n = Len(cs) /\ n \in Nat \ {0}
  BY BootstrapFacts
<1>3. PICK b \in Nat : b = n - 1
  BY <1>2
<1>4. /\ slab_cache_create(BucketSize(b) + AllocHeader)
      /\ kheap_initialized' = (b = NUM_SLAB_BUCKETS - 1)
  <2>1. b = IF caches = << >> THEN 0 ELSE Len(caches) - 1
    BY <1>2, <1>3, BootstrapFacts
  <2> QED BY <2>1 DEF kheap_init
<1>5. CachesOK /\ Len(caches) \in Nat
  BY RefersNow DEF MemInv
<1>6. n <= NUM_SLAB_BUCKETS /\ (caches # << >> => cs = caches) /\ (caches = << >> => n = 1)
  <2>1. (caches # << >> => cs = caches) /\ (caches = << >> => n = 1)
    BY <1>2, BootstrapFacts
  <2>2. Len(caches) <= NUM_SLAB_BUCKETS
    BY <1>1, <1>5, HeapAssumption DEF CachesOK
  <2> QED BY <1>2, <2>1, <2>2, HeapAssumption
<1>7. b \in Buckets
  BY <1>2, <1>3, <1>6, HeapAssumption DEF Buckets
<1>8. PICK size \in Nat : size = BucketSize(b) + AllocHeader
  BY <1>7, BucketAssumption, HeapAssumption
<1>9. OneOwner' /\ Created(cs, size)
  BY <1>1, <1>2, <1>4, <1>8, CreateMem
<1>10. PICK m \in Nat : m = Len(caches')
  BY <1>9 DEF Created
<1>11. \/ halted' /\ m = n
       \/ m = n + 1 /\ caches'[n + 1].obj_size = BucketObj(b)
  BY <1>2, <1>8, <1>9, <1>10 DEF Created, BucketObj
<1>12. caches' \in Seq(CacheRecs) /\ \A c \in 1 .. n : caches'[c].obj_size = cs[c].obj_size
  BY <1>2, <1>9 DEF Created
<1>13. caches'[1].obj_size = CacheBytes
  BY <1>2, <1>12, BootstrapFacts
<1>14. ASSUME NEW c \in 2 .. m, c <= NUM_SLAB_BUCKETS + 1
       PROVE  caches'[c].obj_size = BucketObj(c - 2)
  <2>1. CASE c = n + 1
    <3>1. c - 2 = b /\ m # n
      BY <1>2, <1>3, <2>1
    <3> QED BY <1>11, <2>1, <3>1
  <2>2. CASE c <= n
    <3>1. c \in 1 .. n /\ n # 1
      BY <2>2
    <3>2. cs = caches /\ c \in 2 .. Len(caches)
      BY <1>2, <1>6, <2>2, <3>1
    <3>3. caches[c].obj_size = BucketObj(c - 2)
      BY <1>5, <3>2, <1>14 DEF CachesOK
    <3> QED BY <1>12, <3>1, <3>2, <3>3
  <2> QED BY <1>2, <1>11, <2>1, <2>2
<1>15. ~halted' => (kheap_initialized' <=> m > NUM_SLAB_BUCKETS)
  <2>1. kheap_initialized' <=> n = NUM_SLAB_BUCKETS
    <3>1. b = NUM_SLAB_BUCKETS - 1 <=> n = NUM_SLAB_BUCKETS
      BY <1>2, <1>3, HeapAssumption
    <3> QED BY <1>4, <3>1, Zenon
  <2>2. ~halted' => (n = NUM_SLAB_BUCKETS <=> m > NUM_SLAB_BUCKETS)
    BY <1>2, <1>6, <1>11, HeapAssumption
  <2> QED BY <2>1, <2>2
<1>16. DOMAIN live' = {} /\ call' = NoCall
  BY <1>1, <1>5 DEF CachesOK
<1>17. objs' \subseteq TypeCaches' \X Nat
  <2>1. TypeCaches \subseteq TypeCaches'
    <3>1. Len(caches) <= m
      BY <1>2, <1>5, <1>6, <1>11
    <3> QED BY <1>5, <1>10, <3>1, HeapAssumption DEF TypeCaches
  <2> QED BY <1>1, <1>5, <2>1 DEF CachesOK
<1>18. CachesOK'
  BY <1>10, <1>12, <1>13, <1>14, <1>15, <1>16, <1>17 DEF CachesOK
<1> QED BY <1>9, <1>18 DEF MemInv

LEMMA TypeCreateMem ==
  ASSUME IInv, MemInv, NEW size \in Nat, type_cache_create(size)
  PROVE  MemInv'
<1>1. /\ phase = "run" /\ ~halted /\ call = NoCall /\ kheap_initialized
      /\ UNCHANGED <<kheap_initialized, live, objs, others, call>> /\ slab_cache_create(size)
  BY DEF type_cache_create, Ready
<1>2. CachesOK /\ Len(caches) \in Nat
  BY RefersNow DEF MemInv
<1>3. PICK n \in Nat : n = Len(caches) /\ n > NUM_SLAB_BUCKETS
  BY <1>1, <1>2 DEF CachesOK
<1>4. n # 0 /\ caches # << >>
  BY <1>3, HeapAssumption
<1>5. Bootstrapped = caches
  BY <1>4 DEF Bootstrapped
<1>6. OneOwner' /\ Created(caches, size)
  BY <1>1, <1>5, CreateMem
<1>7. PICK m \in Nat : m = Len(caches') /\ n <= m /\ m <= n + 1
  BY <1>3, <1>6 DEF Created
<1>8. caches' \in Seq(CacheRecs) /\ \A c \in 1 .. n : caches'[c].obj_size = caches[c].obj_size
  BY <1>3, <1>6 DEF Created
<1>9. caches'[1].obj_size = CacheBytes
  BY <1>2, <1>3, <1>4, <1>8 DEF CachesOK
<1>10. ASSUME NEW c \in 2 .. m, c <= NUM_SLAB_BUCKETS + 1
       PROVE  caches'[c].obj_size = BucketObj(c - 2)
  <2>1. c \in 1 .. n /\ c \in 2 .. Len(caches)
    BY <1>3, <1>10, HeapAssumption
  <2>2. caches[c].obj_size = BucketObj(c - 2)
    BY <1>2, <1>10, <2>1 DEF CachesOK
  <2> QED BY <1>8, <2>1, <2>2
<1>11. m > NUM_SLAB_BUCKETS /\ kheap_initialized'
  BY <1>1, <1>3, <1>7, HeapAssumption
<1>12. objs' \subseteq TypeCaches' \X Nat
  <2>1. TypeCaches \subseteq TypeCaches'
    BY <1>3, <1>7, HeapAssumption DEF TypeCaches
  <2> QED BY <1>1, <1>2, <2>1 DEF CachesOK
<1>13. \A a \in DOMAIN live' :
         IF live'[a].cache = NULL THEN a = (a \div PAGE_SIZE) * PAGE_SIZE
         ELSE /\ live'[a].cache = get_bucket_index(live'[a].size) + 2
              /\ live'[a].cache \in 1 .. m
  <2>1. 1 .. Len(caches) \subseteq 1 .. m
    BY <1>3, <1>7
  <2> QED BY <1>1, <1>2, <2>1 DEF CachesOK
<1>14. CachesOK'
  BY <1>7, <1>8, <1>9, <1>10, <1>11, <1>12, <1>13 DEF CachesOK
<1> QED BY <1>6, <1>14 DEF MemInv

\* The frames of the other users.
LEMMA OtherMem ==
  ASSUME HeapInv, IInv, MemInv, other_alloc \/ \E f \in others : other_free(f)
  PROVE  MemInv'
<1>1. CASE other_alloc
  <2>1. /\ phase = "run" /\ pmm_alloc_frame(NextFrame)
        /\ others' = others \cup ({NextFrame} \ {NoFrame})
        /\ UNCHANGED <<caches, kheap_initialized, live, objs, call, halted>>
    BY <1>1 DEF other_alloc, Ready
  <2>2. /\ NextFrame \in Frames \cup {NoFrame} /\ NextFrame \notin handed
        /\ handed' = handed \cup ({NextFrame} \ {NoFrame})
    BY <2>1, AllocFacts
  <2>3. CallFrames' = CallFrames
    BY <2>1 DEF CallFrames
  <2>4. CASE NextFrame = NoFrame
    BY <2>1, <2>2, <2>3, <2>4, FrameWaits
  <2>5. CASE NextFrame # NoFrame
    <3>1. PICK f \in Nat : f = NextFrame /\ f \notin handed /\ handed' = handed \cup {f}
      BY <2>2, <2>5, SizeAssumption DEF Frames
    <3>2. (others \cup CallFrames)' = others \cup CallFrames \cup {f}
      BY <2>1, <2>3, <2>5, <3>1
    <3> QED BY <2>1, <3>1, <3>2, FrameJoins
  <2> QED BY <2>4, <2>5
<1>2. CASE \E f \in others : other_free(f)
  <2>1. PICK f \in others : other_free(f)
    BY <1>2
  <2>2. /\ pmm_free_frame(f) /\ others' = others \ {f} /\ f \in handed /\ f \notin CallFrames
        /\ UNCHANGED <<caches, kheap_initialized, live, objs, call, halted>>
    BY <2>1 DEF other_free, HeapInv, Owned
  <2>3. handed' = handed \ {f} /\ f \in Nat
    BY <2>2, FreeFacts DEF IInv, TypeOK, Frames
  <2>4. CallFrames' = CallFrames
    BY <2>2 DEF CallFrames
  <2>5. (others \cup CallFrames)' = (others \cup CallFrames) \ {f}
    BY <2>2, <2>4
  <2>6. f \in others \cup CallFrames
    OBVIOUS
  <2> QED BY <2>2, <2>3, <2>5, <2>6, FrameLeaves
<1> QED BY <1>1, <1>2

\* The object of its bucket and the frames of its size fit into the block.
LEMMA BlockFits ==
  ASSUME HeapInv, CachesOK, NEW a \in DOMAIN live
  PROVE  /\ live[a].cache # NULL => live[a].cache \in 1 .. Len(caches)
         /\ live[a].cache # NULL =>
              /\ live[a].cache = get_bucket_index(live[a].size) + 2
              /\ get_bucket_index(live[a].size) \in Buckets
              /\ BlockLen(caches, live[a]) = BucketObj(get_bucket_index(live[a].size))
         /\ num_pages(live[a].size) \in Nat
<1>1. /\ Fits(live[a].size) /\ live[a].size \in Nat
      /\ live[a].cache = NULL <=> get_bucket_index(live[a].size) = -1
  BY DEF HeapInv, LiveOK, Fits
<1>2. num_pages(live[a].size) \in Nat
  BY <1>1, PagesFit
<1>3. CASE live[a].cache # NULL
  <2>1. PICK d : d = get_bucket_index(live[a].size) /\ d \in Buckets
    BY <1>1, <1>3, BucketFits
  <2>2. live[a].cache = d + 2 /\ live[a].cache \in 1 .. Len(caches) /\ Len(caches) \in Nat
    BY <1>3, <2>1 DEF CachesOK
  <2>3. d + 2 \in 2 .. Len(caches) /\ d + 2 <= NUM_SLAB_BUCKETS + 1 /\ (d + 2) - 2 = d
    BY <2>1, <2>2, HeapAssumption DEF Buckets
  <2>4. caches[d + 2].obj_size = BucketObj((d + 2) - 2)
    BY <2>3 DEF CachesOK
  <2>5. BlockLen(caches, live[a]) = BucketObj(d)
    BY <1>3, <2>2, <2>3, <2>4 DEF BlockLen
  <2> QED BY <1>2, <2>1, <2>2, <2>5
<1> QED BY <1>2, <1>3

LEMMA KfreeMem ==
  ASSUME HeapInv, MemInv, ~halted, NEW a \in DOMAIN live, CallFrames = {},
         Release(a, live[a].cache, num_pages(live[a].size))
  PROVE  MemInv'
<1>1. PICK c, n : c = live[a].cache /\ n = num_pages(live[a].size) /\ n \in Nat
  BY BlockFits DEF MemInv
<1>2. c # NULL => c \in 1 .. Len(caches)
  BY <1>1, BlockFits DEF MemInv
<1>3. c # NULL => caches[c].obj_size <= BlockLen(caches, live[a])
  <2>1. SUFFICES ASSUME c # NULL PROVE caches[c].obj_size <= BlockLen(caches, live[a])
    OBVIOUS
  <2>2. caches[c].obj_size = BlockLen(caches, live[a])
    BY <1>1, <2>1 DEF BlockLen
  <2>3. caches[c] \in CacheRecs
    BY <1>2, <2>1 DEF MemInv, CachesOK
  <2> QED BY <2>2, <2>3 DEF CacheRecs
<1> QED BY <1>1, <1>2, <1>3, ReleaseMem

LEMMA KfreeSizedMem ==
  ASSUME HeapInv, MemInv, NEW a \in DOMAIN live, kfree_sized(a)
  PROVE  MemInv'
<1>1. ~halted /\ call = NoCall /\ CallFrames = {}
  BY DEF kfree_sized, Ready, CallFrames, NoCall
<1>2. PICK s \in Nat \ {0}, t \in Nat : /\ s = live[a].asked /\ t = live[a].size /\ s <= t
                                        /\ Fits(t)
  BY DEF HeapInv, LiveOK, Fits
<1>3. PICK b, c : b = get_bucket_index(s) /\ c = (IF b = -1 THEN NULL ELSE b + 2)
  OBVIOUS
<1>4. PICK n : n = num_pages(s)
  OBVIOUS
<1>5. Release(a, c, n)
  BY <1>2, <1>3, <1>4 DEF kfree_sized
<1>6. n \in Nat /\ n <= num_pages(t)
  BY <1>2, <1>4, NumPagesMonotone
<1>7. live[a].cache = NULL <=> get_bucket_index(t) = -1
  BY <1>2 DEF HeapInv, LiveOK
<1>8. CASE b = -1
  <2>1. live[a].cache = NULL
    BY <1>2, <1>3, <1>7, <1>8, BucketMonotone
  <2>2. c = NULL
    BY <1>3, <1>8
  <2> QED BY <1>1, <1>2, <1>5, <1>6, <2>1, <2>2, ReleaseMem
<1>9. CASE b # -1
  <2>1. b \in Buckets /\ s <= BucketSize(b) /\ \A d \in Buckets : s <= BucketSize(d) => b <= d
    BY <1>2, <1>3, <1>9, BucketFits
  <2>2. CachesOK /\ Len(caches) \in Nat /\ Len(caches) > NUM_SLAB_BUCKETS
    <3>1. CachesOK /\ Len(caches) \in Nat
      BY RefersNow DEF MemInv
    <3>2. kheap_initialized
      BY <3>1 DEF CachesOK
    <3> QED BY <1>1, <3>1, <3>2 DEF CachesOK
  <2>3. /\ c = b + 2 /\ c # NULL /\ c \in 1 .. Len(caches)
        /\ c \in 2 .. Len(caches) /\ c <= NUM_SLAB_BUCKETS + 1 /\ c - 2 = b
    BY <1>3, <1>9, <2>1, <2>2, HeapAssumption DEF Buckets, NULL
  <2>4. caches[c].obj_size = BucketObj(b)
    BY <2>2, <2>3 DEF CachesOK
  <2>5. BucketObj(b) <= BlockLen(caches, live[a])
    <3>1. CASE live[a].cache # NULL
      <4>1. PICK d : d = get_bucket_index(t) /\ d \in Buckets /\ BlockLen(caches, live[a]) = BucketObj(d)
        BY <1>1, <1>2, <2>2, <3>1, BlockFits
      <4>2. t <= BucketSize(d) /\ BucketSize(d) \in Nat
        BY <1>2, <1>7, <3>1, <4>1, BucketFits, BucketAssumption
      <4>3. b <= d
        <5>1. s <= BucketSize(d)
          BY <1>2, <4>2
        <5> QED BY <2>1, <4>1, <5>1
      <4> QED BY <2>1, <4>1, <4>3, BucketObjMonotone
    <3>2. CASE live[a].cache = NULL
      <4>1. PICK k \in Nat : k = num_pages(t) /\ t + AllocHeader <= k * PAGE_SIZE
        BY <1>2, PagesFit
      <4>2. BlockLen(caches, live[a]) = k * PAGE_SIZE
        BY <1>2, <3>2, <4>1 DEF BlockLen
      <4>3. BucketSize(b) \in Nat
        BY <2>1, BucketAssumption
      <4>4. ~(t <= BucketSize(b))
        <5>1. get_bucket_index(t) = -1
          BY <1>7, <3>2
        <5>2. SUFFICES ASSUME t <= BucketSize(b) PROVE FALSE
          OBVIOUS
        <5>3. b \in {d \in Buckets : t <= BucketSize(d)}
          BY <2>1, <5>2
        <5>4. get_bucket_index(t) \in Nat
          <6> DEFINE fits == {d \in Buckets : t <= BucketSize(d)}
          <6>1. fits \in SUBSET Nat /\ fits # {}
            BY <5>3, HeapAssumption DEF Buckets
          <6>2. get_bucket_index(t) = Min(fits)
            BY <6>1 DEF get_bucket_index
          <6>3. Min(fits) \in fits
            <7> HIDE DEF fits
            <7> QED BY <6>1, MinIsLeast
          <6> QED BY <6>1, <6>2, <6>3
        <5> QED BY <5>1, <5>4
      <4>5. PICK m \in Int : m = k * PAGE_SIZE
        BY <4>1, SizeAssumption
      <4>6. BucketSize(b) + AllocHeader <= m
        BY <1>2, <4>1, <4>3, <4>4, <4>5, HeapAssumption
      <4>7. BucketObj(b) <= k * PAGE_SIZE
        BY <2>1, <4>1, <4>5, <4>6, BucketObjFits
      <4> QED BY <4>2, <4>7
    <3> QED BY <3>1, <3>2
  <2>6. c # NULL => /\ c \in 1 .. Len(caches)
                    /\ caches[c].obj_size <= BlockLen(caches, live[a])
    BY <2>3, <2>4, <2>5
  <2> QED BY <1>1, <1>5, <1>6, <2>3, <2>6, ReleaseMem
<1> QED BY <1>8, <1>9

LEMMA BlockMem ==
  ASSUME HeapInv, IInv, MemInv, NEW a \in DOMAIN live,
         \/ kfree(a)
         \/ kfree_sized(a)
         \/ \E size \in Sizes : krealloc_keep(a, size) \/ krealloc_move(a, size)
  PROVE  MemInv'
<1>1. CASE kfree(a)
  <2>1. Release(a, live[a].cache, num_pages(live[a].size)) /\ CallFrames = {} /\ ~halted
    BY <1>1 DEF kfree, Ready, CallFrames, NoCall
  <2> QED BY <2>1, KfreeMem
<1>2. CASE kfree_sized(a)
  BY <1>2, KfreeSizedMem
<1>3. CASE \E size \in Sizes : krealloc_keep(a, size)
  BY <1>3, KeepMem
<1>4. CASE \E size \in Sizes : krealloc_move(a, size)
  <2>1. PICK size \in Sizes : kmalloc(size, a)
    BY <1>4 DEF krealloc_move
  <2>2. size \in Nat
    BY HeapAssumption
  <2> QED BY <2>1, <2>2, KmallocMem
<1> QED BY <1>1, <1>2, <1>3, <1>4

LEMMA MemStep ==
  ASSUME HeapInv, IInv, NoWrap, MemInv, [KHNext]_heapVars
  PROVE  MemInv'
<1>1. CASE BootStep
  <2>1. UNCHANGED <<caches, kheap_initialized, live, objs, others, call, halted>>
    BY <1>1 DEF BootStep
  <2>2. handed' = handed
    BY <1>1 DEF BootStep, mm_boot_init, pmm_init, pmm_free_region, pmm_reserve_region, pmmVars
  <2>3. CallFrames' = CallFrames
    BY <2>1 DEF CallFrames
  <2> QED BY <2>1, <2>2, <2>3, FrameWaits
<1>2. CASE \E size \in Sizes : kmalloc(size, NULL)
  <2>1. PICK size \in Sizes : kmalloc(size, NULL)
    BY <1>2
  <2>2. size \in Nat
    BY HeapAssumption
  <2> QED BY <2>1, <2>2, KmallocMem
<1>3. CASE \E num \in Nums, size \in Sizes : kcalloc(num, size)
  <2>1. PICK num \in Nums, size \in Sizes : kcalloc(num, size)
    BY <1>3
  <2> DEFINE total == (num * size) % SizeMod
  <2>2. total \in Nat /\ kmalloc(total, NULL)
    BY <2>1 DEF kcalloc, NoWrap, Fits
  <2> HIDE DEF total
  <2> QED BY <2>2, KmallocMem
<1>4. CASE kmalloc_next
  BY <1>4, KmallocNextMem
<1>5. CASE krealloc_kfree
  <2>1. PICK a : a = call.ptr
    OBVIOUS
  <2>2. a \in DOMAIN live /\ CallFrames = {} /\ ~halted
    BY <1>5, <2>1 DEF krealloc_kfree, HeapInv, CallOK, NoCall, CallFrames
  <2>3. Release(a, live[a].cache, num_pages(live[a].size))
    BY <1>5, <2>1 DEF krealloc_kfree
  <2> QED BY <2>2, <2>3, KfreeMem
<1>6. CASE free_next
  BY <1>6, FreeNextMem
<1>7. CASE \E a \in DOMAIN live :
             \/ kfree(a)
             \/ kfree_sized(a)
             \/ \E size \in Sizes : krealloc_keep(a, size) \/ krealloc_move(a, size)
  BY <1>7, BlockMem
<1>8. CASE kheap_init
  BY <1>8, KheapInitMem
<1>9. CASE \E size \in TypeSizes : type_cache_create(size)
  <2>1. \A size \in TypeSizes : size \in Nat
    BY HeapAssumption
  <2> QED BY <1>9, <2>1, TypeCreateMem
<1>10. CASE \E c \in TypeCaches : type_alloc(c)
  BY <1>10, TypeAllocMem
<1>11. CASE \E o \in objs : type_free(o)
  BY <1>11, TypeFreeMem
<1>12. CASE other_alloc \/ \E f \in others : other_free(f)
  BY <1>12, OtherMem
<1>13. CASE UNCHANGED heapVars
  <2>1. UNCHANGED <<caches, kheap_initialized, live, objs, others, call, halted>>
        /\ UNCHANGED physVars
    BY <1>13 DEF heapVars
  <2>2. handed' = handed /\ CallFrames' = CallFrames
    BY <2>1 DEF physVars, CallFrames
  <2> QED BY <2>1, <2>2, FrameWaits
<1> QED BY <1>1, <1>2, <1>3, <1>4, <1>5, <1>6, <1>7, <1>8, <1>9, <1>10, <1>11, <1>12, <1>13
        DEF KHNext

LEMMA MemInitial == KHInit => MemInv
<1> SUFFICES ASSUME KHInit PROVE MemInv
  OBVIOUS
<1>1. /\ caches = << >> /\ ~kheap_initialized /\ DOMAIN live = {} /\ objs = {} /\ others = {}
      /\ call = NoCall
  BY DEF KHInit
<1>2. CallFrames = {} /\ Len(caches) = 0
  BY <1>1 DEF CallFrames, NoCall
<1>3. CachesOK
  BY <1>1, <1>2, HeapAssumption DEF CachesOK
<1>4. 1 .. 0 = {} /\ 2 .. 0 = {}
  OBVIOUS
<1>5. SlabP(caches) = {} /\ FreeP(caches) = {} /\ CacheP(caches) = {}
  BY <1>2, <1>4 DEF SlabP, FreeP, CacheP
<1>6. BlockP(caches, live) = {} /\ ObjP(caches, objs) = {} /\ FrameP(others \cup CallFrames) = {}
  BY <1>1, <1>2 DEF BlockP, ObjP, FrameP
<1>7. Whole(caches, live, objs, others \cup CallFrames) = {}
  BY <1>5, <1>6 DEF Whole
<1>8. OneOwner
  BY <1>7 DEF OneOwner, Good
<1> QED BY <1>3, <1>8 DEF MemInv

\* The first page of a piece holds its first byte, each later one starts in it.
LEMMA PageHasByte ==
  ASSUME NEW s \in Nat, NEW l \in Nat \ {0}, NEW g \in s \div PAGE_SIZE .. (s + l - 1) \div PAGE_SIZE
  PROVE  \E x \in Nat : s <= x /\ x < s + l /\ x \div PAGE_SIZE = g
<1>1. PICK P \in Nat \ {0} : P = PAGE_SIZE
  BY SizeAssumption
<1>2. PICK e \in Nat : e = s + l - 1
  OBVIOUS
<1>3. PICK a, z : a = s \div P /\ z = e \div P
  OBVIOUS
<1>4. a \in Int /\ a * P <= s /\ s < a * P + P
  BY <1>3, SMT
<1>5. z \in Int /\ z * P <= e /\ e < z * P + P
  BY <1>3, SMT
<1>6. g \in Int /\ a <= g /\ g <= z
  BY <1>1, <1>2, <1>3, <1>4, <1>5
<1>7. CASE g = a
  BY <1>1, <1>3, <1>7
<1>8. CASE g # a
  <2>1. PICK x \in Int : x = g * P
    BY <1>6
  <2>2. a + 1 <= g
    BY <1>4, <1>6, <1>8
  <2>3. (a + 1) * P <= g * P
    BY <1>4, <1>6, <2>2
  <2>4. (a + 1) * P = a * P + P
    BY <1>4
  <2>5. g * P <= z * P
    BY <1>5, <1>6
  <2>6. s <= x /\ x <= e
    BY <1>4, <1>5, <2>1, <2>3, <2>4, <2>5
  <2>7. x \div PAGE_SIZE = g
    BY <1>1, <1>6, <2>1, FrameOfAddress
  <2> QED BY <1>2, <2>6, <2>7
<1> QED BY <1>7, <1>8

LEMMA GoodIsOwned ==
  ASSUME OneOwner
  PROVE  MemoryOwned
<1>1. PICK A : A = Pieces /\ Good(A, handed)
  BY PiecesAreWhole DEF OneOwner
<1>2. ASSUME NEW p \in A, NEW g \in p.start \div PAGE_SIZE .. (p.start + p.len - 1) \div PAGE_SIZE
      PROVE  g \in handed
  <2>1. p.start \in Nat /\ p.len \in Nat \ {0}
    BY <1>1 DEF Good
  <2>2. PICK x \in Nat : p.start <= x /\ x < p.start + p.len /\ x \div PAGE_SIZE = g
    BY <1>2, <2>1, PageHasByte
  <2> QED BY <1>1, <2>2 DEF Good, Holds
<1>3. ASSUME NEW p \in A, NEW q \in A, p # q
      PROVE  p.start + p.len <= q.start \/ q.start + q.len <= p.start
  <2>1. PICK s \in Nat, l \in Nat \ {0}, t \in Nat, m \in Nat \ {0} :
          s = p.start /\ l = p.len /\ t = q.start /\ m = q.len
    BY <1>1 DEF Good
  <2>2. SUFFICES ASSUME ~(s + l <= t), ~(t + m <= s) PROVE FALSE
    BY <2>1
  <2>3. PICK x \in Nat : s <= x /\ x < s + l /\ t <= x /\ x < t + m
    <3>1. CASE s <= t
      BY <2>2, <3>1
    <3>2. CASE t <= s
      BY <2>2, <3>2
    <3> QED BY <3>1, <3>2
  <2>4. Holds(p, x) /\ Holds(q, x)
    BY <2>1, <2>3 DEF Holds
  <2> QED BY <1>1, <1>3, <2>4 DEF Good
<1> QED BY <1>1, <1>2, <1>3 DEF MemoryOwned

LEMMA BlocksAreUsable ==
  ASSUME HeapInv, CachesOK
  PROVE  UsableFits
<1> SUFFICES ASSUME NEW a \in DOMAIN live
             PROVE  AllocHeader + live[a].size <= Extent(a) /\ live[a].asked <= live[a].size
  BY DEF UsableFits
<1>1. PICK t \in Nat : t = live[a].size /\ Fits(t) /\ live[a].asked <= t
  BY DEF HeapInv, LiveOK, Fits
<1>2. Extent(a) = BlockLen(caches, live[a])
  BY DEF Extent, BlockLen
<1>3. CASE live[a].cache = NULL
  <2>1. Extent(a) = num_pages(t) * PAGE_SIZE
    BY <1>1, <1>3 DEF Extent
  <2>2. num_pages(t) \in Nat /\ t + AllocHeader <= num_pages(t) * PAGE_SIZE
    BY <1>1, PagesFit
  <2> QED BY <1>1, <2>1, <2>2, HeapAssumption
<1>4. CASE live[a].cache # NULL
  <2>1. PICK d : d = get_bucket_index(t) /\ d \in Buckets /\ Extent(a) = BucketObj(d)
    BY <1>1, <1>2, <1>4, BlockFits
  <2>2. d # -1
    BY <2>1, HeapAssumption DEF Buckets
  <2>3. t <= BucketSize(d)
    BY <1>1, <2>1, <2>2, BucketFits
  <2>4. BucketSize(d) \in Nat
    BY <2>1, BucketAssumption
  <2>5. BucketSize(d) + AllocHeader <= BucketObj(d) /\ BucketObj(d) \in Nat
    BY <2>1, BucketObjFits
  <2>6. AllocHeader + t <= BucketObj(d)
    BY <2>3, <2>4, <2>5, HeapAssumption
  <2> QED BY <1>1, <2>1, <2>6
<1> QED BY <1>3, <1>4

----------------------------------------------------------------------------

\* The two invariants together, for every behaviour of the heap.
THEOREM MemoryInvariance == NoWrap => (KHSpec => [](HeapInv /\ IInv /\ MemInv))
<1> SUFFICES ASSUME NoWrap PROVE KHSpec => [](HeapInv /\ IInv /\ MemInv)
  OBVIOUS
<1>1. KHInit => HeapInv /\ IInv /\ MemInv
  BY HeapInitial, MemInitial
<1>2. (HeapInv /\ IInv /\ MemInv) /\ [KHNext]_heapVars => (HeapInv /\ IInv /\ MemInv)'
  BY HeapStep, NextIInv, MemStep
<1> QED BY <1>1, <1>2, PTL DEF KHSpec

\* No byte is given out twice: the objects on the free lists of slab.c, the cache
\* descriptors, the blocks of kmalloc, the objects of the clients, the headers of
\* the slabs and the frames of the other users never overlap and lie in frames
\* that pmm_alloc_frame handed out, whatever sizes kfree_sized is given.
THEOREM NoByteHasTwoOwners == NoWrap => (KHSpec => []MemoryOwned)
<1> SUFFICES ASSUME NoWrap PROVE KHSpec => []MemoryOwned
  OBVIOUS
<1>1. KHSpec => [](HeapInv /\ IInv /\ MemInv)
  BY MemoryInvariance
<1>2. HeapInv /\ IInv /\ MemInv => MemoryOwned
  BY GoodIsOwned DEF MemInv
<1> QED BY <1>1, <1>2, PTL

\* The size in a block's header, and the size last granted, fit with the header
\* into the object or the frames that kmalloc cut the block out of.
THEOREM GrantedSizesFit == NoWrap => (KHSpec => []UsableFits)
<1> SUFFICES ASSUME NoWrap PROVE KHSpec => []UsableFits
  OBVIOUS
<1>1. KHSpec => [](HeapInv /\ IInv /\ MemInv)
  BY MemoryInvariance
<1>2. HeapInv /\ IInv /\ MemInv => UsableFits
  BY BlocksAreUsable DEF MemInv
<1> QED BY <1>1, <1>2, PTL

----------------------------------------------------------------------------
(* Frames are not lost.                                                    *)

SlabsOf(cs) == UNION {cs[c].slabs : c \in 1 .. Len(cs)}

LargeFrames == UNION {Run(a) : a \in Large}

\* The frames the heap knows of.
Held == SlabsOf(caches) \cup others \cup CallFrames \cup LargeFrames

\* A step keeps its new frames and those it does not give back.
Kept == handed' \ handed \subseteq Held' /\ Held \cap handed' \subseteq Held'

LEMMA KeptLosesNothing ==
  ASSUME Kept
  PROVE  Lost' \subseteq Lost
<1>1. Lost = handed \ Held
  BY DEF Lost, Held, SlabsOf, SlabFrames, LargeFrames, Large, Run
<1>2. Lost' = handed' \ Held'
  BY DEF Lost, Held, SlabsOf, SlabFrames, LargeFrames, Large, Run
<1> QED BY <1>1, <1>2 DEF Kept

LEMMA SameBlocks ==
  ASSUME UNCHANGED live
  PROVE  LargeFrames' = LargeFrames
BY DEF LargeFrames, Large, Run

LEMMA BlockJoins ==
  ASSUME NEW a, a \notin DOMAIN live, NEW b,
         live' = [x \in DOMAIN live \cup {a} |-> IF x = a THEN b ELSE live[x]]
  PROVE  /\ LargeFrames \subseteq LargeFrames'
         /\ b.cache = NULL => RunFrames(a \div PAGE_SIZE, num_pages(b.size)) \subseteq LargeFrames'
<1>1. \A x \in DOMAIN live : x \in DOMAIN live' /\ live'[x] = live[x]
  OBVIOUS
<1>2. \A x \in Large : x \in Large' /\ Run(x)' = Run(x)
  BY <1>1 DEF Large, Run
<1>3. a \in DOMAIN live' /\ live'[a] = b
  OBVIOUS
<1>4. b.cache = NULL => a \in Large' /\ Run(a)' = RunFrames(a \div PAGE_SIZE, num_pages(b.size))
  BY <1>3 DEF Large, Run
<1> QED BY <1>2, <1>4 DEF LargeFrames

LEMMA BlockLeaves ==
  ASSUME NEW a \in DOMAIN live, live' = [x \in DOMAIN live \ {a} |-> live[x]]
  PROVE  /\ live[a].cache # NULL => LargeFrames \subseteq LargeFrames'
         /\ LargeFrames \subseteq LargeFrames' \cup Run(a)
<1>1. \A x \in DOMAIN live : x # a => x \in DOMAIN live' /\ live'[x] = live[x]
  OBVIOUS
<1>2. \A x \in Large : x # a => x \in Large' /\ Run(x)' = Run(x)
  BY <1>1 DEF Large, Run
<1>3. live[a].cache # NULL => a \notin Large
  BY DEF Large
<1> QED BY <1>2, <1>3 DEF LargeFrames

\* slab_alloc puts the frame it takes into a slab.
Grows(cs, new) == SlabsOf(cs) \subseteq SlabsOf(new) /\ handed' \ handed \subseteq SlabsOf(new)

LEMMA GrowKeeps ==
  ASSUME NEW cs \in Seq(CacheRecs), NEW c \in 1 .. Len(cs), IInv, phase = "run",
         slab_alloc(cs[c]), NEW new, new = [cs EXCEPT ![c] = Popped(cs[c])]
  PROVE  Grows(cs, new)
<1>1. cs[c] \in CacheRecs /\ Len(cs) \in Nat /\ cs \in [1 .. Len(cs) -> CacheRecs]
  OBVIOUS
<1>2. Len(new) = Len(cs) /\ new[c] = Popped(cs[c]) /\ \A d \in 1 .. Len(cs) : d # c => new[d] = cs[d]
  BY <1>1
<1>3. ASSUME cs[c].slabs \subseteq new[c].slabs, handed' \ handed \subseteq new[c].slabs
      PROVE  Grows(cs, new)
  <2>1. \A d \in 1 .. Len(cs) : cs[d].slabs \subseteq new[d].slabs
    BY <1>2, <1>3
  <2> QED BY <1>2, <1>3, <2>1 DEF SlabsOf, Grows
<1>4. Popped(cs[c]).slabs = Filled(cs[c]).slabs
  BY DEF Popped
<1>5. CASE cs[c].free_objects # << >>
  <2>1. handed' = handed
    BY <1>5 DEF slab_alloc, physVars
  <2>2. Filled(cs[c]) = cs[c]
    BY <1>5 DEF Filled
  <2> QED BY <1>2, <1>3, <1>4, <2>1, <2>2
<1>6. CASE cs[c].free_objects = << >>
  <2>1. pmm_alloc_frame(NextFrame)
    BY <1>6 DEF slab_alloc
  <2>2. handed' = handed \cup ({NextFrame} \ {NoFrame})
    BY <2>1, AllocFacts
  <2>3. CASE NextFrame = NoFrame
    <3>1. Filled(cs[c]) = cs[c]
      BY <2>3 DEF Filled
    <3> QED BY <1>2, <1>3, <1>4, <2>2, <2>3, <3>1
  <2>4. CASE NextFrame # NoFrame
    <3>1. Filled(cs[c]) = slab_grow(cs[c], NextFrame)
      BY <1>6, <2>4 DEF Filled
    <3>2. slab_grow(cs[c], NextFrame).slabs = cs[c].slabs \cup {NextFrame}
      BY <1>1 DEF slab_grow, CacheRecs
    <3> QED BY <1>2, <1>3, <1>4, <2>2, <3>1, <3>2
  <2> QED BY <2>3, <2>4
<1> QED BY <1>5, <1>6

\* An address that starts another piece is no block.
LEMMA FreshAddress ==
  ASSUME NEW cs, NEW lv, NEW ob, NEW fr, NEW H, NEW q, NEW a \in Nat,
         Good(Whole(cs, lv, ob, fr) \cup {q}, H), q.start = a, q.who[1] # "block"
  PROVE  a \notin DOMAIN lv
<1> SUFFICES ASSUME a \in DOMAIN lv PROVE FALSE
  OBVIOUS
<1>1. PICK p : p = Piece("block", a, 0, a, BlockLen(cs, lv[a]))
  OBVIOUS
<1>2. p.start = a /\ p.who[1] = "block"
  BY <1>1 DEF Piece
<1>3. p \in Whole(cs, lv, ob, fr) \cup {q}
  BY <1>1 DEF Whole, BlockP
<1>4. PICK A : A = Whole(cs, lv, ob, fr) \cup {q}
  OBVIOUS
<1>5. p \in A /\ q \in A /\ Good(A, H)
  BY <1>3, <1>4
<1>6. p.len \in Nat \ {0} /\ q.len \in Nat \ {0}
  BY <1>5 DEF Good
<1>7. Holds(p, a) /\ Holds(q, a)
  BY <1>2, <1>6 DEF Holds
<1>8. p = q
  BY <1>5, <1>7 DEF Good
<1> QED BY <1>2, <1>8

LEMMA KmallocKept ==
  ASSUME HeapInv, IInv, MemInv, NEW size \in Nat, NEW src, kmalloc(size, src)
  PROVE  Kept
<1>1. /\ phase = "run" /\ ~halted /\ call = NoCall /\ kheap_initialized
      /\ UNCHANGED <<objs, others>> /\ CallFrames = {}
  BY DEF kmalloc, Ready, CallFrames, NoCall
<1>2. CASE kmalloc_slab(size, src)
  <2>1. PICK c : c = get_bucket_index(size) + 2 /\ c \in 1 .. Len(caches)
    <3>1. PICK b : b = get_bucket_index(size) /\ b \in Buckets
      BY <1>2, BucketFits DEF kmalloc_slab
    <3>2. Len(caches) \in Nat /\ Len(caches) > NUM_SLAB_BUCKETS
      BY <1>1, RefersNow DEF MemInv, CachesOK
    <3> QED BY <3>1, <3>2, HeapAssumption DEF Buckets
  <2>2. caches \in Seq(CacheRecs) /\ Refers(caches, live, objs)
    BY RefersNow DEF MemInv, CachesOK
  <2>3. /\ slab_alloc(caches[c]) /\ caches' = [caches EXCEPT ![c] = Popped(@)]
        /\ IF Node(caches[c]) = NULL THEN UNCHANGED <<live, call>>
           ELSE AddBlock(Node(caches[c]), size, c) /\ Then(src)
    BY <1>2, <2>1 DEF kmalloc_slab
  <2>4. PICK new, node : /\ new = [caches EXCEPT ![c] = Popped(caches[c])]
                         /\ node = Node(caches[c]) /\ caches' = new
    BY <2>1, <2>3
  <2>5. Grows(caches, new)
    BY <1>1, <2>1, <2>2, <2>3, <2>4, GrowKeeps
  <2>6. LargeFrames \subseteq LargeFrames'
    <3>1. CASE node = NULL
      BY <2>3, <2>4, <3>1, SameBlocks
    <3>2. CASE node # NULL
      <4>1. Good(Whole(caches, live, objs, others), handed)
        BY <1>1 DEF MemInv, OneOwner
      <4>2. Taken(caches, c, new, live, objs, others, node)
        BY <1>1, <2>1, <2>2, <2>3, <2>4, <4>1, TakeObject
      <4>3. PICK q : q = Piece("cache", 0, 0, node, caches[c].obj_size)
        OBVIOUS
      <4>4. q.start = node /\ q.who[1] # "block" /\ q.len = caches[c].obj_size
        BY <4>3 DEF Piece
      <4>5. caches[c].obj_size \in Nat \ {0}
        <5>1. caches[c] \in CacheRecs
          BY <2>1, <2>2
        <5> QED BY <5>1 DEF CacheRecs
      <4>6. node \in Nat /\ Good(Whole(new, live, objs, others) \cup {q}, handed')
        BY <3>2, <4>2, <4>4, <4>5 DEF Taken
      <4>7. node \notin DOMAIN live
        BY <4>4, <4>6, FreshAddress
      <4>8. PICK r : r = [size |-> size, cache |-> c, asked |-> size]
        OBVIOUS
      <4>9. live' = [x \in DOMAIN live \cup {node} |-> IF x = node THEN r ELSE live[x]]
        BY <2>3, <2>4, <3>2, <4>8 DEF AddBlock
      <4> QED BY <4>7, <4>9, BlockJoins
    <3> QED BY <3>1, <3>2
  <2> QED BY <1>1, <2>4, <2>5, <2>6 DEF Kept, Held, Grows
<1>3. CASE kmalloc_first(size, src)
  <2>1. /\ pmm_alloc_frame(NextFrame) /\ UNCHANGED <<caches, live>>
        /\ call' = IF NextFrame = NoFrame THEN NoCall
                   ELSE [op |-> "kmalloc", phys |-> NextFrame, i |-> 1,
                         n |-> num_pages(size), size |-> size, src |-> src]
    BY <1>3 DEF kmalloc_first
  <2>2. /\ NextFrame \in Frames \cup {NoFrame}
        /\ handed' = handed \cup ({NextFrame} \ {NoFrame})
    BY <1>1, <2>1, AllocFacts
  <2>3. NextFrame # NoFrame => NextFrame \in CallFrames'
    <3>1. SUFFICES ASSUME NextFrame # NoFrame PROVE NextFrame \in CallFrames'
      OBVIOUS
    <3>2. NextFrame \in Nat
      BY <2>2, <3>1, SizeAssumption DEF Frames
    <3>3. call'.op = "kmalloc" /\ call'.phys = NextFrame /\ call'.i = 1
      BY <2>1, <3>1
    <3>4. CallFrames' = NextFrame .. NextFrame + 1 - 1
      BY <3>3 DEF CallFrames, RunFrames
    <3> QED BY <3>2, <3>4
  <2>4. LargeFrames' = LargeFrames
    BY <2>1, SameBlocks
  <2> QED BY <1>1, <2>1, <2>2, <2>3, <2>4 DEF Kept, Held
<1> QED BY <1>2, <1>3 DEF kmalloc

LEMMA KmallocNextKept ==
  ASSUME HeapInv, IInv, MemInv, kmalloc_next, ~halted'
  PROVE  Kept
<1>1. /\ phase = "run" /\ call.op = "kmalloc" /\ UNCHANGED <<caches, objs, others>>
      /\ call \in [op : {"kmalloc"}, phys : Nat, i : Nat, n : Nat, size : Nat,
                   src : DOMAIN live \cup {NULL}]
      /\ 1 <= call.i /\ call.i <= call.n /\ call.n = num_pages(call.size)
  BY DEF kmalloc_next, HeapInv, CallOK, NoCall
<1>2. CallFrames = RunFrames(call.phys, call.i)
  BY <1>1 DEF CallFrames
<1>3. CASE call.i < call.n
  <2>1. pmm_alloc_frame(NextFrame) /\ UNCHANGED live
    BY <1>3 DEF kmalloc_next
  <2>2. handed' = handed \cup ({NextFrame} \ {NoFrame})
    BY <1>1, <2>1, AllocFacts
  <2>3. NextFrame = call.phys + call.i /\ call' = [call EXCEPT !.i = @ + 1]
    BY <1>3 DEF kmalloc_next
  <2>4. CallFrames' = CallFrames \cup {NextFrame}
    BY <1>1, <2>3 DEF CallFrames, RunFrames
  <2>5. LargeFrames' = LargeFrames
    BY <2>1, SameBlocks
  <2> QED BY <1>1, <2>2, <2>4, <2>5 DEF Kept, Held
<1>4. CASE ~(call.i < call.n)
  <2>1. AddBlock(call.phys * PAGE_SIZE, call.size, NULL) /\ UNCHANGED <<physVars, halted>>
    BY <1>4 DEF kmalloc_next
  <2>2. PICK f \in Nat, n \in Nat \ {0}, size \in Nat :
          f = call.phys /\ n = call.i /\ size = call.size /\ n = num_pages(size)
    BY <1>1, <1>4
  <2>3. PICK a \in Nat : a = f * PAGE_SIZE
    BY SizeAssumption
  <2>4. PICK r : r = [size |-> size, cache |-> NULL, asked |-> size]
    OBVIOUS
  <2>5. live' = [x \in DOMAIN live \cup {a} |-> IF x = a THEN r ELSE live[x]]
    BY <2>1, <2>2, <2>3, <2>4 DEF AddBlock
  <2>6. a \div PAGE_SIZE = f
    BY <2>3, FrameOfAddress
  <2>7. a \notin DOMAIN live
    <3>1. PICK q : q = Piece("frame", f, 0, f * PAGE_SIZE, PAGE_SIZE)
      OBVIOUS
    <3>2. q.start = a /\ q.who[1] # "block"
      BY <2>3, <3>1 DEF Piece
    <3>3. f \in CallFrames
      BY <1>2, <2>2 DEF RunFrames
    <3>4. PICK fr : fr = others \cup CallFrames
      OBVIOUS
    <3>5. q \in Whole(caches, live, objs, fr)
      BY <3>1, <3>3, <3>4 DEF Whole, FrameP
    <3>6. Whole(caches, live, objs, fr) \cup {q} = Whole(caches, live, objs, fr)
      BY <3>5
    <3>7. Good(Whole(caches, live, objs, fr) \cup {q}, handed)
      BY <3>4, <3>6 DEF MemInv, OneOwner
    <3> QED BY <3>2, <3>7, FreshAddress
  <2>8. LargeFrames \subseteq LargeFrames'
    BY <2>5, <2>7, BlockJoins
  <2>9. RunFrames(a \div PAGE_SIZE, num_pages(r.size)) \subseteq LargeFrames'
    <3>1. r.cache = NULL
      BY <2>4
    <3> QED BY <2>5, <2>7, <3>1, BlockJoins
  <2>10. CallFrames \subseteq LargeFrames'
    BY <1>2, <2>2, <2>4, <2>6, <2>9
  <2>11. handed' = handed
    BY <2>1 DEF physVars
  <2> QED BY <1>1, <2>8, <2>10, <2>11 DEF Kept, Held
<1> QED BY <1>3, <1>4

\* kfree with the cache and the pages of the block's own size.
LEMMA ReleaseKept ==
  ASSUME HeapInv, MemInv, NEW a \in DOMAIN live, CallFrames = {},
         Release(a, live[a].cache, num_pages(live[a].size))
  PROVE  Kept
<1>0. a \in Nat
  <2>1. Piece("block", a, 0, a, BlockLen(caches, live[a]))
          \in Whole(caches, live, objs, others \cup CallFrames)
    BY DEF Whole, BlockP
  <2>2. Piece("block", a, 0, a, BlockLen(caches, live[a])).start \in Nat
    BY <2>1 DEF MemInv, OneOwner, Good
  <2> QED BY <2>2 DEF Piece
<1>1. /\ live' = [x \in DOMAIN live \ {a} |-> live[x]] /\ handed' = handed /\ others' = others
  BY DEF Release, RemoveBlock, physVars
<1>2. CASE live[a].cache # NULL
  <2>1. LargeFrames \subseteq LargeFrames'
    BY <1>1, <1>2, BlockLeaves
  <2>2. SlabsOf(caches') = SlabsOf(caches)
    <3>1. PICK c : c = live[a].cache /\ c \in 1 .. Len(caches)
      BY <1>2 DEF MemInv, CachesOK
    <3>2. caches' = PushOf(caches, c, a)
      BY <1>2, <3>1 DEF Release, slab_free, PushOf
    <3>3. caches \in Seq(CacheRecs)
      BY DEF MemInv, CachesOK
    <3>4. SameShape(caches, caches')
      BY <1>0, <3>1, <3>2, <3>3, PushShape
    <3> QED BY <3>4 DEF SameShape, SameSizes, SlabsOf
  <2> QED BY <1>1, <2>1, <2>2 DEF Kept, Held
<1>3. CASE live[a].cache = NULL
  <2>1. /\ call' = [op |-> "free", phys |-> a \div PAGE_SIZE, i |-> 0, n |-> num_pages(live[a].size)]
        /\ UNCHANGED caches
    BY <1>3 DEF Release
  <2>2. LargeFrames \subseteq LargeFrames' \cup Run(a)
    BY <1>1, BlockLeaves
  <2>3. Run(a) \subseteq CallFrames'
    <3>1. PICK f \in Int, n \in Nat : f = a \div PAGE_SIZE /\ n = num_pages(live[a].size)
      BY <1>0, BlockFits, SizeAssumption DEF MemInv
    <3> QED BY <2>1, <3>1 DEF CallFrames, Run, RunFrames
  <2> QED BY <1>1, <2>1, <2>2, <2>3 DEF Kept, Held
<1> QED BY <1>2, <1>3

LEMMA FreeNextKept ==
  ASSUME HeapInv, IInv, free_next
  PROVE  Kept
<1>1. /\ call.op = "free" /\ UNCHANGED <<caches, live, others>>
      /\ call \in [op : {"free"}, phys : Int, i : Nat, n : Nat]
  BY DEF free_next, HeapInv, CallOK, NoCall
<1>2. LargeFrames' = LargeFrames
  BY <1>1, SameBlocks
<1>3. CASE call.i < call.n
  <2>1. PICK f : f = call.phys + call.i
    OBVIOUS
  <2>2. pmm_free_frame(f) /\ call' = [call EXCEPT !.i = @ + 1]
    BY <1>3, <2>1 DEF free_next, FrameToFree
  <2>3. f \in CallFrames /\ CallFrames' = CallFrames \ {f}
    BY <1>1, <1>3, <2>1, <2>2 DEF CallFrames
  <2>4. f \in handed
    BY <2>3 DEF HeapInv, Owned
  <2>5. handed' = handed \ {f}
    BY <2>2, <2>4, FreeFacts
  <2> QED BY <1>1, <1>2, <2>3, <2>5 DEF Kept, Held
<1>4. CASE ~(call.i < call.n)
  <2>1. UNCHANGED physVars
    BY <1>4 DEF free_next
  <2>2. CallFrames = {}
    BY <1>1, <1>4 DEF CallFrames
  <2>3. handed' = handed
    BY <2>1 DEF physVars
  <2> QED BY <1>1, <1>2, <2>2, <2>3 DEF Kept, Held
<1> QED BY <1>3, <1>4

LEMMA CreateKept ==
  ASSUME IInv, MemInv, phase = "run", NEW size \in Nat, slab_cache_create(size),
         UNCHANGED <<live, others, call>>
  PROVE  Kept
<1>1. PICK cs : /\ cs = Bootstrapped /\ cs \in Seq(CacheRecs) /\ 1 \in 1 .. Len(cs)
                /\ Len(cs) \in Nat
  BY BootstrapFacts
<1>2. PICK new, e, s : /\ new = [cs EXCEPT ![1] = Popped(cs[1])]
                       /\ e = EmptyCache(ALIGN_UP(Largest(size, NodeBytes), PtrAlign), Node(cs[1]))
                       /\ s = (IF Node(cs[1]) = NULL THEN << >> ELSE << e >>)
  OBVIOUS
<1>3. slab_alloc(cs[1]) /\ caches' = new \o s
  BY <1>1, <1>2 DEF slab_cache_create
<1>4. Grows(cs, new)
  <2>1. new = [cs EXCEPT ![1] = Popped(cs[1])]
    BY <1>2
  <2> QED BY <1>1, <1>3, <2>1, GrowKeeps
<1>5. PICK n, R :
        n \in Nat /\ n = Len(cs) /\ n = Len(new) /\ new \in Seq(R) /\ s \in Seq(R) /\ Len(s) \in Nat
  <2>1. PICK n : n = Len(cs) /\ n \in Nat /\ cs \in [1 .. n -> CacheRecs]
    BY <1>1
  <2>2. PICK p : p = Popped(cs[1])
    OBVIOUS
  <2>3. PICK R : R = CacheRecs \cup {p, e}
    OBVIOUS
  <2>4. new \in [1 .. n -> R]
    BY <1>2, <2>1, <2>2, <2>3
  <2>5. new \in Seq(R) /\ Len(new) = n
    BY <2>1, <2>4
  <2>6. << >> \in Seq(R) /\ << e >> \in Seq(R)
    BY <2>3
  <2>7. s \in Seq(R)
    BY <1>2, <2>6
  <2>8. Len(s) \in Nat
    BY <2>7
  <2> QED BY <2>1, <2>5, <2>7, <2>8
<1>6. /\ Len(caches') = n + Len(s)
      /\ \A c \in 1 .. n : caches'[c] = new[c]
  BY <1>3, <1>5
<1>7. SlabsOf(new) \subseteq SlabsOf(caches')
  <2>1. 1 .. n \subseteq 1 .. Len(caches')
    BY <1>5, <1>6
  <2> QED BY <1>5, <1>6, <2>1 DEF SlabsOf
<1>8. SlabsOf(caches) \subseteq SlabsOf(cs)
  <2>1. CASE caches = << >>
    <3>1. 1 .. Len(caches) = {}
      BY <2>1
    <3>2. SlabsOf(caches) = {}
      BY <3>1 DEF SlabsOf
    <3> QED BY <3>2
  <2>2. CASE caches # << >>
    BY <1>1, <2>2 DEF Bootstrapped
  <2> QED BY <2>1, <2>2
<1>9. LargeFrames' = LargeFrames /\ CallFrames' = CallFrames
  BY SameBlocks DEF CallFrames
<1>10. SlabsOf(caches) \subseteq SlabsOf(caches') /\ handed' \ handed \subseteq SlabsOf(caches')
  BY <1>4, <1>7, <1>8 DEF Grows
<1> QED BY <1>9, <1>10 DEF Kept, Held

LEMMA ClientKept ==
  ASSUME HeapInv, IInv, MemInv,
         \/ kheap_init
         \/ \E size \in TypeSizes : type_cache_create(size)
         \/ \E c \in TypeCaches : type_alloc(c)
         \/ \E o \in objs : type_free(o)
  PROVE  Kept
<1>1. UNCHANGED <<live, others, call>>
  BY DEF kheap_init, type_cache_create, type_alloc, type_free
<1>2. LargeFrames' = LargeFrames /\ CallFrames' = CallFrames
  BY <1>1, SameBlocks DEF CallFrames
<1>3. /\ caches \in Seq(CacheRecs) /\ Len(caches) \in Nat
      /\ \A o \in objs : o[1] \in TypeCaches /\ o[2] \in Nat
  BY RefersNow DEF MemInv, CachesOK
<1>4. \A c \in TypeCaches : c \in 1 .. Len(caches)
  BY <1>3, HeapAssumption DEF TypeCaches
<1>5. CASE kheap_init
  <2>1. phase = "run" /\ ~halted /\ ~kheap_initialized
    BY <1>5 DEF kheap_init, Ready
  <2>2. PICK b : /\ b = (IF caches = << >> THEN 0 ELSE Len(caches) - 1)
                 /\ slab_cache_create(BucketSize(b) + AllocHeader)
    BY <1>5 DEF kheap_init
  <2>3. b \in Buckets
    <3>1. Len(caches) <= NUM_SLAB_BUCKETS
      BY <1>3, <2>1, HeapAssumption DEF MemInv, CachesOK
    <3>2. caches # << >> => Len(caches) # 0
      BY <1>3
    <3> QED BY <1>3, <2>2, <3>1, <3>2, HeapAssumption DEF Buckets
  <2>4. BucketSize(b) + AllocHeader \in Nat
    BY <2>3, BucketAssumption, HeapAssumption
  <2> QED BY <1>1, <2>1, <2>2, <2>4, CreateKept
<1>6. CASE \E size \in TypeSizes : type_cache_create(size)
  <2>1. PICK size \in TypeSizes : type_cache_create(size)
    BY <1>6
  <2>2. size \in Nat /\ phase = "run" /\ slab_cache_create(size)
    BY <2>1, HeapAssumption DEF type_cache_create, Ready
  <2> QED BY <1>1, <2>2, CreateKept
<1>7. CASE \E c \in TypeCaches : type_alloc(c)
  <2>1. PICK c \in TypeCaches : type_alloc(c)
    BY <1>7
  <2>2. PICK new : /\ new = [caches EXCEPT ![c] = Popped(caches[c])] /\ caches' = new
                   /\ slab_alloc(caches[c]) /\ phase = "run"
    BY <1>4, <2>1 DEF type_alloc, Ready
  <2>3. Grows(caches, new)
    BY <1>3, <1>4, <2>2, GrowKeeps
  <2> QED BY <1>1, <1>2, <2>2, <2>3 DEF Kept, Held, Grows
<1>8. CASE \E o \in objs : type_free(o)
  <2>1. PICK o \in objs : type_free(o)
    BY <1>8
  <2>2. PICK c \in 1 .. Len(caches), a \in Nat : c = o[1] /\ a = o[2]
    BY <1>3, <1>4
  <2>3. caches' = PushOf(caches, c, a) /\ handed' = handed
    BY <2>1, <2>2 DEF type_free, slab_free, PushOf, physVars
  <2>4. SameShape(caches, caches')
    BY <1>3, <2>3, PushShape
  <2>5. SlabsOf(caches') = SlabsOf(caches)
    BY <2>4 DEF SameShape, SameSizes, SlabsOf
  <2> QED BY <1>1, <1>2, <2>3, <2>5 DEF Kept, Held
<1> QED BY <1>5, <1>6, <1>7, <1>8

LEMMA OtherKept ==
  ASSUME HeapInv, IInv,
         \/ other_alloc
         \/ \E f \in others : other_free(f)
         \/ BootStep
         \/ UNCHANGED heapVars
  PROVE  Kept
<1>1. UNCHANGED <<caches, live, call>>
  BY DEF other_alloc, other_free, BootStep, heapVars
<1>2. LargeFrames' = LargeFrames /\ CallFrames' = CallFrames
  BY <1>1, SameBlocks DEF CallFrames
<1>3. CASE other_alloc
  <2>1. /\ phase = "run" /\ pmm_alloc_frame(NextFrame)
        /\ others' = others \cup ({NextFrame} \ {NoFrame})
    BY <1>3 DEF other_alloc, Ready
  <2>2. handed' = handed \cup ({NextFrame} \ {NoFrame})
    BY <2>1, AllocFacts
  <2> QED BY <1>1, <1>2, <2>1, <2>2 DEF Kept, Held
<1>4. CASE \E f \in others : other_free(f)
  <2>1. PICK f \in others : other_free(f)
    BY <1>4
  <2>2. pmm_free_frame(f) /\ others' = others \ {f} /\ f \in handed
    BY <2>1 DEF other_free, HeapInv, Owned
  <2>3. handed' = handed \ {f}
    BY <2>2, FreeFacts
  <2> QED BY <1>1, <1>2, <2>2, <2>3 DEF Kept, Held
<1>5. CASE BootStep
  <2>1. handed' = handed /\ others' = others
    BY <1>5 DEF BootStep, mm_boot_init, pmm_init, pmm_free_region, pmm_reserve_region, pmmVars
  <2> QED BY <1>1, <1>2, <2>1 DEF Kept, Held
<1>6. CASE UNCHANGED heapVars
  <2>1. handed' = handed /\ others' = others
    BY <1>6 DEF heapVars, physVars
  <2> QED BY <1>1, <1>2, <2>1 DEF Kept, Held
<1> QED BY <1>3, <1>4, <1>5, <1>6

LEMMA KeepKept ==
  ASSUME HeapInv, NEW a \in DOMAIN live, NEW new_size, krealloc_keep(a, new_size)
  PROVE  Kept
<1>1. /\ live' = [live EXCEPT ![a].asked = new_size]
      /\ UNCHANGED <<caches, others, call>> /\ handed' = handed
  BY DEF krealloc_keep, physVars
<1>2. live \in [DOMAIN live -> [size : Nat, cache : Int, asked : Nat]]
  BY DEF HeapInv, LiveOK
<1>3. /\ DOMAIN live' = DOMAIN live
      /\ \A x \in DOMAIN live : live'[x].size = live[x].size /\ live'[x].cache = live[x].cache
  BY <1>1, <1>2
<1>4. Large' = Large /\ \A x \in Large : Run(x)' = Run(x)
  BY <1>3 DEF Large, Run
<1>5. LargeFrames' = LargeFrames /\ CallFrames' = CallFrames
  BY <1>1, <1>4 DEF LargeFrames, CallFrames
<1> QED BY <1>1, <1>5 DEF Kept, Held

\* kfree_sized with a size other than the header's is the one step excused.
LEMMA BlockKept ==
  ASSUME HeapInv, IInv, MemInv, NEW a \in DOMAIN live,
         \/ kfree(a)
         \/ kfree_sized(a)
         \/ \E size \in Sizes : krealloc_keep(a, size) \/ krealloc_move(a, size)
  PROVE  Kept \/ (a \notin DOMAIN live' /\ live[a].asked # live[a].size)
<1>1. call = NoCall => CallFrames = {}
  BY DEF CallFrames, NoCall
<1>2. CASE kfree(a)
  <2>1. Release(a, live[a].cache, num_pages(live[a].size)) /\ CallFrames = {}
    BY <1>1, <1>2 DEF kfree, Ready
  <2> QED BY <2>1, ReleaseKept
<1>3. CASE kfree_sized(a)
  <2>1. PICK s, b : s = live[a].asked /\ b = get_bucket_index(s)
    OBVIOUS
  <2>2. /\ Release(a, IF b = -1 THEN NULL ELSE b + 2, num_pages(s)) /\ CallFrames = {}
    BY <1>1, <1>3, <2>1 DEF kfree_sized, Ready
  <2>3. CASE s # live[a].size
    BY <2>1, <2>2, <2>3 DEF Release, RemoveBlock
  <2>4. CASE s = live[a].size
    <3>1. live[a].cache = NULL <=> b = -1
      BY <2>1, <2>4 DEF HeapInv, LiveOK
    <3>2. live[a].cache # NULL => live[a].cache = b + 2
      BY <2>1, <2>4 DEF MemInv, CachesOK
    <3>3. Release(a, live[a].cache, num_pages(live[a].size))
      <4>1. live[a].cache = IF b = -1 THEN NULL ELSE b + 2
        BY <3>1, <3>2
      <4> QED BY <2>2, <2>4, <4>1
    <3> QED BY <2>2, <3>3, ReleaseKept
  <2> QED BY <2>3, <2>4
<1>4. CASE \E size \in Sizes : krealloc_keep(a, size)
  BY <1>4, KeepKept
<1>5. CASE \E size \in Sizes : krealloc_move(a, size)
  <2>1. PICK size \in Sizes : kmalloc(size, a)
    BY <1>5 DEF krealloc_move
  <2>2. size \in Nat
    BY HeapAssumption
  <2> QED BY <2>1, <2>2, KmallocKept
<1> QED BY <1>2, <1>3, <1>4, <1>5

LEMMA AccountStep ==
  ASSUME HeapInv, IInv, NoWrap, MemInv, [KHNext]_heapVars, ~halted'
  PROVE  Kept \/ \E a \in DOMAIN live \ DOMAIN live' : live[a].asked # live[a].size
<1>1. CASE \E size \in Sizes : kmalloc(size, NULL)
  <2>1. PICK size \in Sizes : kmalloc(size, NULL)
    BY <1>1
  <2>2. size \in Nat
    BY HeapAssumption
  <2> QED BY <2>1, <2>2, KmallocKept
<1>2. CASE \E num \in Nums, size \in Sizes : kcalloc(num, size)
  <2>1. PICK num \in Nums, size \in Sizes : kcalloc(num, size)
    BY <1>2
  <2> DEFINE total == (num * size) % SizeMod
  <2>2. total \in Nat /\ kmalloc(total, NULL)
    BY <2>1 DEF kcalloc, NoWrap, Fits
  <2> HIDE DEF total
  <2> QED BY <2>2, KmallocKept
<1>3. CASE kmalloc_next
  BY <1>3, KmallocNextKept
<1>4. CASE krealloc_kfree
  <2>1. PICK a : a = call.ptr
    OBVIOUS
  <2>2. a \in DOMAIN live /\ CallFrames = {}
    BY <1>4, <2>1 DEF krealloc_kfree, HeapInv, CallOK, NoCall, CallFrames
  <2>3. Release(a, live[a].cache, num_pages(live[a].size))
    BY <1>4, <2>1 DEF krealloc_kfree
  <2> QED BY <2>2, <2>3, ReleaseKept
<1>5. CASE free_next
  BY <1>5, FreeNextKept
<1>6. CASE \E a \in DOMAIN live :
             \/ kfree(a)
             \/ kfree_sized(a)
             \/ \E size \in Sizes : krealloc_keep(a, size) \/ krealloc_move(a, size)
  <2>1. PICK a \in DOMAIN live : Kept \/ (a \notin DOMAIN live' /\ live[a].asked # live[a].size)
    BY <1>6, BlockKept
  <2> QED BY <2>1
<1>7. CASE \/ kheap_init
           \/ \E size \in TypeSizes : type_cache_create(size)
           \/ \E c \in TypeCaches : type_alloc(c)
           \/ \E o \in objs : type_free(o)
  BY <1>7, ClientKept
<1>8. CASE \/ other_alloc
           \/ \E f \in others : other_free(f)
           \/ BootStep
           \/ UNCHANGED heapVars
  BY <1>8, OtherKept
<1> QED BY <1>1, <1>2, <1>3, <1>4, <1>5, <1>6, <1>7, <1>8 DEF KHNext

\* No call loses a frame, kfree_sized with a size that is not the header's and a
\* panic aside: each frame handed out stays in a slab, a large block, the call in
\* progress or with another user until it is freed.
THEOREM FramesStayAccounted == NoWrap => (KHSpec => FramesAccounted)
<1> SUFFICES ASSUME NoWrap PROVE KHSpec => FramesAccounted
  OBVIOUS
<1>1. KHSpec => [](HeapInv /\ IInv /\ MemInv)
  BY MemoryInvariance
<1>2. (HeapInv /\ IInv /\ MemInv) /\ [KHNext]_heapVars
        => [~halted' /\ ~(Lost' \subseteq Lost) =>
              \E a \in DOMAIN live \ DOMAIN live' : live[a].asked # live[a].size]_heapVars
  BY AccountStep, KeptLosesNothing
<1> QED BY <1>1, <1>2, PTL DEF KHSpec, FramesAccounted
=============================================================================
