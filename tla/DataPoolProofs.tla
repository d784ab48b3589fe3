---------------------------- MODULE DataPoolProofs ----------------------------
(***************************************************************************)
(* Proofs about DataPool for every number of blocks, every SIZE_MAX, every *)
(* struct size and every set of initial sizes.                             *)
(***************************************************************************)
EXTENDS DataPool, TLAPS

\* can_multiply(max, m, n) accepts exactly the non-zero m whose product with n
\* does not exceed max, although it never computes the product.
LEMMA CanMultiplyCorrect ==
  ASSUME NEW max \in Nat, NEW m \in Nat, NEW n \in Nat
  PROVE  can_multiply(max, m, n) <=> (m # 0 /\ m * n <= max)
<1>1. CASE m = 0
  BY <1>1 DEF can_multiply
<1>2. CASE m # 0
  <2> DEFINE q == max \div m
  <2>1. q \in Nat /\ m * q <= max /\ max < m * q + m
    BY <1>2
  <2> HIDE DEF q
  <2>2. ASSUME n <= q PROVE m * n <= max
    <3>1. m * n <= m * q
      BY <2>1, <2>2
    <3> QED BY <3>1, <2>1
  <2>3. ASSUME ~(n <= q) PROVE ~(m * n <= max)
    <3>1. q + 1 <= n
      BY <2>1, <2>3
    <3>2. m * (q + 1) <= m * n
      BY <2>1, <3>1
    <3>3. m * (q + 1) = m * q + m
      BY <2>1
    <3> QED BY <2>1, <3>2, <3>3
  <2>4. can_multiply(max, m, n) <=> n <= q
    BY <1>2 DEF can_multiply, q
  <2> QED BY <1>2, <2>2, <2>3, <2>4
<1> QED BY <1>1, <1>2

-------------------------------------------------------------------------------
(***************************************************************************)
(* The inductive invariant.  PoolShape ties the fields of the struct to    *)
(* the heap; TakenInOrder says that the elements handed out are the slots  *)
(* of the blocks in order, without a gap: that is what makes the lists of  *)
(* data_pool_to_list, which only knows blocks and sizes, come out in the   *)
(* order in which data_pool_alloc handed the elements out.                 *)
(***************************************************************************)
PoolShape ==
  /\ live => /\ size = sizes[index]
             /\ used <= size
             /\ block = blocks[index]
             /\ index > 0 => used > 0
  /\ ~live => index = 0 /\ used = 0
  /\ DOMAIN heap = IF live THEN {blocks[i] : i \in 0 .. index} ELSE {}
  /\ live => \A i \in 0 .. index : /\ blocks[i] \in Block
                                   /\ heap[blocks[i]] = sizes[i]
                                   /\ sizes[i] > 0
                                   /\ sizes[i] * ElemSize <= SizeMax
  /\ live => \A i, j \in 0 .. index : blocks[i] = blocks[j] => i = j

\* Element e is a slot of block i and has been handed out.
Slot(e, i) == e[1] = blocks[i] /\ e[2] \in 0 .. (InBlock(i) - 1)

\* Element f is handed out right after element e, which is in block i.
Follows(e, f, i) ==
  /\ Slot(e, i)
  /\ \/ e[2] + 1 < InBlock(i) /\ f = <<blocks[i], e[2] + 1>>
     \/ i < index /\ e[2] + 1 = InBlock(i) /\ f = <<blocks[i + 1], 0>>

TakenInOrder ==
  /\ taken = << >> <=> (index = 0 /\ used = 0)
  /\ taken # << >> => /\ taken[1] = <<blocks[0], 0>>
                      /\ taken[Len(taken)] = <<block, used - 1>>
  /\ \A k \in 1 .. Len(taken) :
       \E i \in 0 .. index : Slot(taken[k], i)
  /\ \A i \in 0 .. index : \A j \in 0 .. (InBlock(i) - 1) :
       \E k \in 1 .. Len(taken) : taken[k] = <<blocks[i], j>>
  /\ \A k \in 1 .. (Len(taken) - 1) :
       \E i \in 0 .. index : Follows(taken[k], taken[k + 1], i)
  /\ \A k, m \in 1 .. Len(taken) : taken[k] = taken[m] => k = m
  /\ linked <= Len(taken)

IndInv == TypeOK /\ PoolShape /\ TakenInOrder /\ ListInAllocationOrder

\* What appending to the history of data_pool_alloc leaves and adds.
LEMMA AppendFacts ==
  ASSUME NEW S, NEW s \in Seq(S), NEW e \in S
  PROVE  /\ Append(s, e) \in Seq(S)
         /\ Len(Append(s, e)) = Len(s) + 1
         /\ Len(s) \in Nat
         /\ \A k \in 1 .. Len(s) : Append(s, e)[k] = s[k]
         /\ Append(s, e)[Len(s) + 1] = e
         /\ Append(s, e) # << >>
         /\ s = << >> <=> Len(s) = 0
OBVIOUS

\* Before the first data_pool_new the invariant holds.
LEMMA InitHolds == Init => IndInv
<1> SUFFICES ASSUME Init PROVE IndInv
  OBVIOUS
<1> USE PoolAssumption
<1>1. TypeOK
  BY DEF Init, TypeOK, BlockIndex, Element
<1>2. PoolShape
  BY DEF Init, PoolShape
<1>3. TakenInOrder
  BY DEF Init, TakenInOrder, InBlock
<1>4. ListInAllocationOrder
  BY DEF Init, ListInAllocationOrder
<1> QED BY <1>1, <1>2, <1>3, <1>4 DEF IndInv

\* data_pool_new: the first block is the whole heap.
LEMMA NewSucceedsHolds ==
  ASSUME IndInv, NEW n \in InitSizes, NewSucceeds(n)
  PROVE  IndInv'
<1> USE PoolAssumption DEF IndInv
<1>1. n \in Nat \ {0} /\ n * ElemSize <= SizeMax
  BY CanMultiplyCorrect DEF NewSucceeds
<1>2. taken = << >> /\ next = {} /\ linked = 0 /\ DOMAIN heap = {}
  BY DEF NewSucceeds, PoolShape, TakenInOrder, ListInAllocationOrder, TypeOK
<1>3. PICK b \in Block : /\ calloc(b, n)
                         /\ blocks' = [i \in BlockIndex |-> IF i = 0 THEN b ELSE NULL]
                         /\ block' = b
  BY DEF NewSucceeds
<1>4. heap' = [x \in {b} |-> n]
  BY <1>2, <1>3 DEF calloc
<1>5. 0 \in BlockIndex /\ sizes'[0] = n /\ blocks'[0] = b /\ index' = 0 /\ used' = 0
  BY <1>3 DEF NewSucceeds, BlockIndex
<1>6. TypeOK'
  BY <1>1, <1>2, <1>3, <1>4, <1>5 DEF TypeOK, NewSucceeds, history
<1>7. PoolShape'
  BY <1>1, <1>3, <1>4, <1>5 DEF PoolShape, NewSucceeds
<1>8. TakenInOrder'
  BY <1>2, <1>5 DEF TakenInOrder, NewSucceeds, history, InBlock
<1>9. ListInAllocationOrder'
  BY <1>2 DEF ListInAllocationOrder, NewSucceeds, history
<1> QED BY <1>6, <1>7, <1>8, <1>9

\* data_pool_alloc from the current block: the new element is the slot right
\* after the last one handed out.
LEMMA AllocFromBlockHolds ==
  ASSUME IndInv, AllocFromBlock
  PROVE  IndInv'
<1> USE DEF IndInv
<1> DEFINE e == <<block, used>>
           n == Len(taken)
<1>1. /\ live /\ used < size /\ used' = used + 1 /\ taken' = Append(taken, e)
      /\ ret' = e
      /\ UNCHANGED <<live, index, size, block, sizes, blocks, heap, next, linked>>
  BY DEF AllocFromBlock, memory
<1>2. /\ block = blocks[index] /\ block \in Block /\ index \in Nat /\ used \in Nat
      /\ index \in 0 .. index /\ e \in Element /\ size = sizes[index]
  BY <1>1 DEF PoolShape, TypeOK, BlockIndex, Element
<1>3. /\ n \in Nat /\ Len(taken') = n + 1 /\ taken' \in Seq(Element)
      /\ \A k \in 1 .. n : taken'[k] = taken[k]
      /\ taken'[n + 1] = e
      /\ taken' # << >>
      /\ taken = << >> <=> n = 0
  <2>1. taken \in Seq(Element)
    BY DEF TypeOK
  <2> HIDE DEF e
  <2> QED BY <2>1, <1>1, <1>2, AppendFacts
<1>4. \A i \in 0 .. index :
        /\ InBlock(i)' = IF i = index THEN used + 1 ELSE InBlock(i)
        /\ InBlock(i) = IF i = index THEN used ELSE sizes[i]
  BY <1>1, <1>2 DEF InBlock
<1>5. TypeOK'
  BY <1>1, <1>2, <1>3 DEF TypeOK
<1>6. PoolShape'
  BY <1>1, <1>2 DEF PoolShape, TypeOK
<1>7. TakenInOrder'
  <2>1. taken' = << >> <=> (index' = 0 /\ used' = 0)
    BY <1>1, <1>2, <1>3
  <2>2. taken'[1] = <<blocks[0], 0>>'
    <3>1. CASE n = 0
      BY <3>1, <1>1, <1>2, <1>3 DEF TakenInOrder
    <3>2. CASE n # 0
      BY <3>2, <1>1, <1>3 DEF TakenInOrder
    <3> QED BY <3>1, <3>2
  <2>3. taken'[Len(taken')] = <<block', used' - 1>>
    BY <1>1, <1>2, <1>3
  <2>4. \A k \in 1 .. Len(taken') : \E i \in 0 .. index : Slot(taken[k], i)'
    <3>1. TAKE k \in 1 .. Len(taken')
    <3>2. CASE k = n + 1
      BY <3>2, <1>1, <1>2, <1>3, <1>4 DEF Slot
    <3>3. CASE k \in 1 .. n
      <4>1. PICK i \in 0 .. index : Slot(taken[k], i)
        BY <3>3 DEF TakenInOrder
      <4>2. Slot(taken[k], i)'
        BY <3>3, <4>1, <1>1, <1>2, <1>3, <1>4 DEF Slot
      <4> QED BY <4>2
    <3> QED BY <3>1, <3>2, <3>3, <1>3
  <2>5. \A i \in 0 .. index : \A j \in 0 .. (InBlock(i)' - 1) :
          \E k \in 1 .. Len(taken') : taken'[k] = <<blocks[i], j>>'
    <3>1. TAKE i \in 0 .. index
    <3>2. TAKE j \in 0 .. (InBlock(i)' - 1)
    <3>3. CASE i = index /\ j = used
      BY <3>3, <1>1, <1>2, <1>3
    <3>4. CASE ~(i = index /\ j = used)
      <4>1. j \in 0 .. (InBlock(i) - 1)
        BY <3>4, <1>2, <1>4
      <4>2. PICK k \in 1 .. n : taken[k] = <<blocks[i], j>>
        BY <4>1 DEF TakenInOrder
      <4>3. k \in 1 .. Len(taken') /\ taken'[k] = <<blocks[i], j>>
        BY <4>2, <1>3
      <4>4. blocks' = blocks
        BY <1>1
      <4> QED BY <4>3, <4>4
    <3> QED BY <3>3, <3>4
  <2>6. \A k \in 1 .. (Len(taken') - 1) :
          \E i \in 0 .. index : Follows(taken[k], taken[k + 1], i)'
    <3>1. TAKE k \in 1 .. (Len(taken') - 1)
    <3>2. CASE k = n
      <4>1. taken[n] = <<block, used - 1>>
        BY <3>1, <3>2, <1>3 DEF TakenInOrder
      <4>2. used > 0
        BY <3>1, <3>2, <1>2, <1>3 DEF TakenInOrder, PoolShape
      <4>3. ASSUME NEW i \in 0 .. index, i = index
            PROVE  Follows(taken[k], taken[k + 1], i)'
        BY <3>2, <4>1, <4>2, <4>3, <1>1, <1>2, <1>3, <1>4 DEF Follows, Slot
      <4> QED BY <4>3, <1>2
    <3>3. CASE k \in 1 .. (n - 1)
      <4>1. PICK i \in 0 .. index : Follows(taken[k], taken[k + 1], i)
        BY <3>3 DEF TakenInOrder
      <4>2. taken'[k] = taken[k] /\ taken'[k + 1] = taken[k + 1]
        BY <3>3, <1>3
      <4>3. blocks' = blocks /\ index' = index
        BY <1>1
      <4>4. CASE i # index
        <5>1. InBlock(i)' = InBlock(i)
          BY <1>4, <4>4
        <5> QED BY <4>1, <4>2, <4>3, <5>1 DEF Follows, Slot
      <4>5. CASE i = index
        <5>1. InBlock(i)' = used + 1 /\ InBlock(i) = used /\ used \in Nat /\ ~(i < index)
          BY <1>2, <1>4, <4>5
        <5> DEFINE x == taken[k][2]
        <5>2. /\ taken[k][1] = blocks[i] /\ x \in 0 .. (used - 1) /\ x + 1 < used
              /\ taken[k + 1] = <<blocks[i], x + 1>>
          BY <4>1, <5>1 DEF Follows, Slot
        <5>3. x \in 0 .. ((used + 1) - 1) /\ x + 1 < used + 1
          BY <5>1, <5>2
        <5>4. /\ taken'[k] = taken[k] /\ taken'[k][1] = blocks'[i]
              /\ taken'[k + 1] = <<blocks'[i], x + 1>>
          BY <4>2, <4>3, <5>2
        <5> QED BY <5>1, <5>3, <5>4 DEF Follows, Slot
      <4> QED BY <4>4, <4>5
    <3> QED BY <3>1, <3>2, <3>3, <1>3
  <2>7. \A k, m \in 1 .. Len(taken') : taken'[k] = taken'[m] => k = m
    <3>1. \A k \in 1 .. n : taken[k] # e
      <4>1. TAKE k \in 1 .. n
      <4>2. PICK i \in 0 .. index : Slot(taken[k], i)
        BY DEF TakenInOrder
      <4>3. CASE i = index
        BY <4>2, <4>3, <1>2, <1>4 DEF Slot
      <4>4. CASE i # index
        BY <4>2, <4>4, <1>1, <1>2 DEF Slot, PoolShape
      <4> QED BY <4>3, <4>4
    <3>2. \A k, m \in 1 .. n : taken[k] = taken[m] => k = m
      BY DEF TakenInOrder
    <3> HIDE DEF e
    <3> QED BY <3>1, <3>2, <1>3
  <2>8. linked' <= Len(taken')
    BY <1>1, <1>3 DEF TakenInOrder, TypeOK
  <2> QED BY <1>1, <2>1, <2>2, <2>3, <2>4, <2>5, <2>6, <2>7, <2>8
          DEF TakenInOrder
<1>8. ListInAllocationOrder'
  <2>1. linked \in Nat /\ linked <= n
    BY DEF TypeOK, TakenInOrder
  <2>2. \A k \in 1 .. (linked - 1) : taken'[k] = taken[k] /\ taken'[k + 1] = taken[k + 1]
    BY <2>1, <1>3
  <2>3. {<<taken'[k], taken'[k + 1]>> : k \in 1 .. (linked - 1)}
          = {<<taken[k], taken[k + 1]>> : k \in 1 .. (linked - 1)}
    BY <2>2
  <2>4. next' = next /\ linked' = linked
    BY <1>1
  <2> QED BY <2>3, <2>4 DEF ListInAllocationOrder
<1> QED BY <1>5, <1>6, <1>7, <1>8

\* data_pool_alloc from a new block: the new element is the first slot after a
\* block that has just been used up.
LEMMA AllocFromNewBlockHolds ==
  ASSUME IndInv, AllocFromNewBlock
  PROVE  IndInv'
<1> USE PoolAssumption DEF IndInv
<1> DEFINE n == Len(taken)
<1>1. PICK b \in Block : /\ calloc(b, size * 2)
                         /\ blocks' = [blocks EXCEPT ![index + 1] = b]
                         /\ block' = b
                         /\ ret' = <<b, 0>>
  BY DEF AllocFromNewBlock
<1>2. /\ live /\ live' /\ used >= size /\ index' = index + 1 /\ size' = size * 2
      /\ sizes' = [sizes EXCEPT ![index + 1] = size * 2]
      /\ used' = 1 /\ taken' = Append(taken, <<b, 0>>)
      /\ next' = next /\ linked' = linked
  BY <1>1 DEF AllocFromNewBlock
<1>3. /\ index \in BlockIndex /\ index \in Nat /\ index + 1 \in BlockIndex
      /\ size \in Nat \ {0} /\ used = size
  <2>1. index \in BlockIndex /\ size \in Nat /\ used \in Nat /\ used <= size
        /\ size = sizes[index] /\ index \in 0 .. index
    BY <1>2 DEF TypeOK, PoolShape, BlockIndex
  <2>2. size > 0
    BY <1>2, <2>1 DEF PoolShape
  <2> QED BY <1>2, <2>1, <2>2 DEF AllocFromNewBlock, MayGrow, BlockIndex
<1>3a. (size * 2) * ElemSize <= SizeMax
  <2>1. can_multiply(SizeMax, size * 2, ElemSize)
    BY DEF AllocFromNewBlock, MayGrow
  <2>2. size * 2 \in Nat
    BY <1>3
  <2> QED BY <2>1, <2>2, CanMultiplyCorrect
<1>3b. /\ 0 .. index' = (0 .. index) \cup {index + 1}
       /\ index + 1 \notin 0 .. index /\ index \in 0 .. index
       /\ 0 .. index \subseteq BlockIndex
  BY <1>2, <1>3 DEF BlockIndex
<1>4. /\ heap' = [x \in DOMAIN heap \cup {b} |->
                    IF x = b THEN size * 2 ELSE heap[x]]
      /\ b \notin DOMAIN heap
  BY <1>1 DEF calloc
<1>5. /\ \A i \in 0 .. index : blocks'[i] = blocks[i] /\ sizes'[i] = sizes[i]
      /\ blocks'[index + 1] = b /\ sizes'[index + 1] = size * 2
      /\ \A i \in 0 .. index : blocks[i] \in DOMAIN heap
  <2>1. blocks \in [BlockIndex -> Block \cup {NULL}] /\ sizes \in [BlockIndex -> Nat]
    BY DEF TypeOK
  <2>2. \A i \in 0 .. index : i # index + 1 /\ i \in BlockIndex
    BY <1>3b
  <2>3. \A i \in 0 .. index : blocks[i] \in DOMAIN heap
    BY <1>2 DEF PoolShape
  <2> QED BY <1>1, <1>2, <1>3, <2>1, <2>2, <2>3
<1>6. \A i \in 0 .. index : /\ InBlock(i)' = InBlock(i)
                            /\ InBlock(i) = sizes[i]
  BY <1>2, <1>3, <1>5 DEF InBlock, PoolShape
<1>7. \A i : i = index + 1 => InBlock(i)' = 1
  BY <1>2 DEF InBlock
<1>8. /\ n \in Nat /\ Len(taken') = n + 1 /\ taken' \in Seq(Element)
      /\ \A k \in 1 .. n : taken'[k] = taken[k]
      /\ taken'[n + 1] = <<b, 0>>
      /\ taken' # << >>
      /\ n > 0
  <2>1. taken \in Seq(Element) /\ <<b, 0>> \in Element
    BY DEF TypeOK, Element
  <2>2. taken # << >>
    BY <1>3 DEF TakenInOrder
  <2> QED BY <2>1, <2>2, <1>2, AppendFacts
<1>9. TypeOK'
  <2>1. blocks' \in [BlockIndex -> Block \cup {NULL}] /\ sizes' \in [BlockIndex -> Nat]
    <3>1. blocks \in [BlockIndex -> Block \cup {NULL}] /\ sizes \in [BlockIndex -> Nat]
      BY DEF TypeOK
    <3>2. size * 2 \in Nat
      BY <1>3
    <3> QED BY <3>1, <3>2, <1>1, <1>2
  <2>2. DOMAIN heap' \subseteq Block /\ \A x \in DOMAIN heap' : heap'[x] \in Nat
    BY <1>3, <1>4 DEF TypeOK
  <2> QED BY <2>1, <2>2, <1>1, <1>2, <1>3, <1>8 DEF TypeOK, Element
<1>10. PoolShape'
  <2>1. /\ size' = sizes'[index'] /\ used' <= size' /\ block' = blocks'[index']
        /\ used' > 0
    BY <1>1, <1>2, <1>3, <1>5
  <2>2. DOMAIN heap' = {blocks'[i] : i \in 0 .. index'}
    <3>1. DOMAIN heap = {blocks[i] : i \in 0 .. index}
      BY <1>2 DEF PoolShape
    <3>2. DOMAIN heap' = DOMAIN heap \cup {b}
      BY <1>4
    <3>3. ASSUME NEW x \in DOMAIN heap' PROVE x \in {blocks'[i] : i \in 0 .. index'}
      BY <3>1, <3>2, <1>3b, <1>5
    <3>4. ASSUME NEW i \in 0 .. index' PROVE blocks'[i] \in DOMAIN heap'
      BY <3>1, <3>2, <1>3b, <1>5
    <3> QED BY <3>3, <3>4
  <2>3. ASSUME NEW i \in 0 .. index'
        PROVE  /\ blocks'[i] \in Block /\ heap'[blocks'[i]] = sizes'[i]
               /\ sizes'[i] > 0 /\ sizes'[i] * ElemSize <= SizeMax
    <3>1. CASE i = index + 1
      BY <3>1, <1>3, <1>3a, <1>4, <1>5
    <3>2. CASE i \in 0 .. index
      <4>1. blocks[i] # b
        BY <3>2, <1>4, <1>5
      <4> QED BY <3>2, <4>1, <1>2, <1>4, <1>5 DEF PoolShape
    <3> QED BY <3>1, <3>2, <1>3b
  <2>4. ASSUME NEW i \in 0 .. index', NEW j \in 0 .. index', blocks'[i] = blocks'[j]
        PROVE  i = j
    BY <2>4, <1>2, <1>3b, <1>4, <1>5 DEF PoolShape
  <2> QED BY <2>1, <2>2, <2>3, <2>4, <1>2 DEF PoolShape
<1>11. TakenInOrder'
  <2>1. taken' # << >> /\ ~(index' = 0 /\ used' = 0)
    BY <1>2, <1>8
  <2>2. taken'[1] = <<blocks'[0], 0>> /\ taken'[Len(taken')] = <<block', used' - 1>>
    <3>1. taken[1] = <<blocks[0], 0>>
      BY <1>8 DEF TakenInOrder
    <3> QED BY <3>1, <1>1, <1>2, <1>3, <1>5, <1>8
  <2>3. \A k \in 1 .. Len(taken') : \E i \in 0 .. index' : Slot(taken[k], i)'
    <3>1. TAKE k \in 1 .. Len(taken')
    <3>2. CASE k = n + 1
      <4>1. ASSUME NEW i, i = index + 1 PROVE Slot(taken[k], i)'
        BY <3>2, <4>1, <1>5, <1>7, <1>8 DEF Slot
      <4> QED BY <4>1, <1>3b
    <3>3. CASE k \in 1 .. n
      <4>1. PICK i \in 0 .. index : Slot(taken[k], i)
        BY <3>3 DEF TakenInOrder
      <4>2. Slot(taken[k], i)'
        BY <3>3, <4>1, <1>5, <1>6, <1>8 DEF Slot
      <4> QED BY <4>2, <1>3b
    <3> QED BY <3>1, <3>2, <3>3, <1>8
  <2>4. \A i \in 0 .. index' : \A j \in 0 .. (InBlock(i)' - 1) :
          \E k \in 1 .. Len(taken') : taken'[k] = <<blocks'[i], j>>
    <3>1. TAKE i \in 0 .. index'
    <3>2. TAKE j \in 0 .. (InBlock(i)' - 1)
    <3>3. CASE i = index + 1
      BY <3>3, <1>5, <1>7, <1>8
    <3>4. CASE i \in 0 .. index
      <4>1. PICK k \in 1 .. n : taken[k] = <<blocks[i], j>>
        BY <3>4, <1>6 DEF TakenInOrder
      <4> QED BY <3>4, <4>1, <1>5, <1>8
    <3> QED BY <3>3, <3>4, <1>3b
  <2>5. \A k \in 1 .. (Len(taken') - 1) :
          \E i \in 0 .. index' : Follows(taken[k], taken[k + 1], i)'
    <3>1. TAKE k \in 1 .. (Len(taken') - 1)
    <3>2. CASE k = n
      <4>1. taken[n] = <<blocks[index], used - 1>>
        BY <1>2, <1>8 DEF TakenInOrder, PoolShape
      <4>2. ASSUME NEW i \in 0 .. index', i = index
            PROVE  Follows(taken[k], taken[k + 1], i)'
        <5>1. InBlock(i)' = size /\ blocks'[i] = blocks[i] /\ blocks'[i + 1] = b
          BY <4>2, <1>2, <1>3, <1>5, <1>6 DEF PoolShape
        <5>2. taken'[k] = <<blocks[i], size - 1>> /\ taken'[k + 1] = <<b, 0>>
          BY <3>2, <4>1, <4>2, <1>3, <1>8
        <5>3. /\ size - 1 \in 0 .. (InBlock(i)' - 1)
              /\ size - 1 + 1 = InBlock(i)' /\ i < index'
          BY <4>2, <5>1, <1>2, <1>3
        <5> QED BY <5>1, <5>2, <5>3 DEF Follows, Slot
      <4> QED BY <4>2, <1>3b
    <3>3. CASE k \in 1 .. (n - 1)
      <4>1. PICK i \in 0 .. index : Follows(taken[k], taken[k + 1], i)
        BY <3>3 DEF TakenInOrder
      <4>2. taken'[k] = taken[k] /\ taken'[k + 1] = taken[k + 1]
        BY <3>3, <1>8
      <4>3. i < index => blocks'[i + 1] = blocks[i + 1]
        BY <1>3, <1>5
      <4>4. Follows(taken[k], taken[k + 1], i)'
        BY <4>1, <4>2, <4>3, <1>2, <1>3, <1>5, <1>6 DEF Follows, Slot
      <4> QED BY <4>4, <1>3b
    <3> QED BY <3>1, <3>2, <3>3, <1>8
  <2>6. \A k, m \in 1 .. Len(taken') : taken'[k] = taken'[m] => k = m
    <3>1. \A k \in 1 .. n : taken[k] # <<b, 0>>
      <4>1. TAKE k \in 1 .. n
      <4>2. PICK i \in 0 .. index : Slot(taken[k], i)
        BY DEF TakenInOrder
      <4> QED BY <4>2, <1>4, <1>5 DEF Slot
    <3>2. \A k, m \in 1 .. n : taken[k] = taken[m] => k = m
      BY DEF TakenInOrder
    <3> QED BY <3>1, <3>2, <1>8
  <2>7. linked' <= Len(taken')
    BY <1>2, <1>8 DEF TakenInOrder, TypeOK
  <2> QED BY <2>1, <2>2, <2>3, <2>4, <2>5, <2>6, <2>7 DEF TakenInOrder
<1>12. ListInAllocationOrder'
  <2>1. linked \in Nat /\ linked <= n
    BY DEF TypeOK, TakenInOrder
  <2>2. \A k \in 1 .. (linked - 1) : taken'[k] = taken[k] /\ taken'[k + 1] = taken[k + 1]
    BY <2>1, <1>8
  <2>3. {<<taken'[k], taken'[k + 1]>> : k \in 1 .. (linked - 1)}
          = {<<taken[k], taken[k + 1]>> : k \in 1 .. (linked - 1)}
    BY <2>2
  <2> QED BY <2>3, <1>2 DEF ListInAllocationOrder
<1> QED BY <1>9, <1>10, <1>11, <1>12

\* The assignments of data_pool_to_list's loops are exactly the links between
\* consecutive handed-out elements.  No size_t subtraction in it wraps: every
\* block it visits holds at least one element.
LEMMA AssignedIsTheList ==
  ASSUME IndInv, live, taken # << >>
  PROVE  Assigned = {<<taken[k], taken[k + 1]>> : k \in 1 .. (Len(taken) - 1)}
<1> USE PoolAssumption DEF IndInv
<1> DEFINE n == Len(taken)
<1>1. /\ n \in Nat \ {0} /\ index \in Nat /\ used \in Nat /\ used > 0
      /\ \A i \in 0 .. index : sizes[i] \in Nat \ {0}
  <2>1. index \in BlockIndex /\ index \in Nat /\ used \in Nat
        /\ sizes \in [BlockIndex -> Nat] /\ taken \in Seq(Element)
    BY DEF TypeOK, BlockIndex
  <2>2. \A i \in 0 .. index : i \in BlockIndex
    BY <2>1 DEF BlockIndex
  <2>3. used > 0
    BY <2>1 DEF TakenInOrder, PoolShape
  <2>4. n \in Nat \ {0}
    BY <2>1
  <2> QED BY <2>1, <2>2, <2>3, <2>4 DEF PoolShape
<1>2. \A i \in 0 .. index : /\ InBlock(i) \in Nat \ {0}
                            /\ MinusOne(InBlock(i)) = InBlock(i) - 1
  BY <1>1 DEF InBlock, MinusOne
<1>2a. ASSUME NEW p
       PROVE  p \in Assigned <=> \/ \E i \in 0 .. index : p \in Within(i)
                                 \/ \E i \in 0 .. (index - 1) : p \in Across(i)
  <2> DEFINE J == 0 .. (index - 1)
             W == UNION {Within(i) : i \in 0 .. index}
             A == UNION {Across(i) : i \in J}
  <2>1. p \in W <=> \E i \in 0 .. index : p \in Within(i)
    BY Zenon
  <2>2. Assigned = W \cup A
    BY DEF Assigned
  <2> HIDE DEF J
  <2>3. p \in A <=> \E i \in J : p \in Across(i)
    BY Zenon
  <2> HIDE DEF W, A
  <2> USE DEF J
  <2> QED BY <2>1, <2>2, <2>3
<1>3. ASSUME NEW k \in 1 .. (n - 1)
      PROVE  <<taken[k], taken[k + 1]>> \in Assigned
  <2>1. PICK i \in 0 .. index : Follows(taken[k], taken[k + 1], i)
    BY DEF TakenInOrder
  <2>2. taken[k] = <<blocks[i], taken[k][2]>> /\ taken[k][2] \in 0 .. (InBlock(i) - 1)
    <3>1. taken[k] \in Element
      BY <1>1 DEF TypeOK
    <3> QED BY <3>1, <2>1 DEF Follows, Slot, Element
  <2>3. CASE /\ taken[k][2] + 1 < InBlock(i)
             /\ taken[k + 1] = <<blocks[i], taken[k][2] + 1>>
    <3> DEFINE J == 0 .. (MinusOne(InBlock(i)) - 1)
               w(j) == << <<blocks[i], j>>, <<blocks[i], j + 1>> >>
    <3>1. taken[k][2] \in J
      BY <1>2, <2>2, <2>3
    <3>2. <<taken[k], taken[k + 1]>> = w(taken[k][2])
      BY <2>2, <2>3, Zenon
    <3>3. Within(i) = {w(j) : j \in J}
      BY Zenon DEF Within
    <3> HIDE DEF J, w
    <3>4. <<taken[k], taken[k + 1]>> \in Within(i)
      BY <3>1, <3>2, <3>3, Zenon
    <3> QED BY <3>4, <1>2a
  <2>4. CASE /\ i < index /\ taken[k][2] + 1 = InBlock(i)
             /\ taken[k + 1] = <<blocks[i + 1], 0>>
    <3>1. taken[k][2] = MinusOne(InBlock(i))
      BY <1>2, <2>2, <2>4
    <3>2. <<taken[k], taken[k + 1]>> \in Across(i)
      BY <2>2, <2>4, <3>1 DEF Across
    <3>3. i \in 0 .. (index - 1)
      BY <2>4, <1>1
    <3> QED BY <3>2, <3>3, <1>2a
  <2> QED BY <2>1, <2>3, <2>4 DEF Follows
<1>4. ASSUME NEW p \in Assigned
      PROVE  \E k \in 1 .. (n - 1) : p = <<taken[k], taken[k + 1]>>
  <2>1. \E i \in 0 .. index : /\ Follows(p[1], p[2], i)
                              /\ p = <<p[1], p[2]>>
                              /\ p[1] = <<blocks[i], p[1][2]>>
    <3>1. ASSUME NEW i \in 0 .. index, p \in Within(i)
          PROVE  /\ Follows(p[1], p[2], i) /\ p = <<p[1], p[2]>>
                 /\ p[1] = <<blocks[i], p[1][2]>>
      <4>1. PICK j \in 0 .. (InBlock(i) - 1 - 1) :
              p = << <<blocks[i], j>>, <<blocks[i], j + 1>> >>
        BY <3>1, <1>2 DEF Within
      <4>2. j \in 0 .. (InBlock(i) - 1) /\ j + 1 < InBlock(i)
        BY <4>1, <1>2
      <4> QED BY <4>1, <4>2 DEF Follows, Slot
    <3>2. ASSUME NEW i \in 0 .. (index - 1), p \in Across(i)
          PROVE  /\ Follows(p[1], p[2], i) /\ p = <<p[1], p[2]>>
                 /\ p[1] = <<blocks[i], p[1][2]>> /\ i \in 0 .. index
      <4>1. i \in 0 .. index /\ i < index
        BY <1>1
      <4>2. p = << <<blocks[i], InBlock(i) - 1>>, <<blocks[i + 1], 0>> >>
        BY <3>2, <4>1, <1>2 DEF Across
      <4>3. /\ InBlock(i) - 1 \in 0 .. (InBlock(i) - 1)
            /\ InBlock(i) - 1 + 1 = InBlock(i)
        BY <4>1, <1>2
      <4> QED BY <4>1, <4>2, <4>3 DEF Follows, Slot
    <3>3. \/ \E i \in 0 .. index : p \in Within(i)
          \/ \E i \in 0 .. (index - 1) : p \in Across(i)
      BY <1>2a
    <3> QED BY <3>1, <3>2, <3>3
  <2>1a. PICK i \in 0 .. index : /\ Follows(p[1], p[2], i)
                                 /\ p = <<p[1], p[2]>>
                                 /\ p[1] = <<blocks[i], p[1][2]>>
    BY <2>1
  <2>2. PICK k \in 1 .. n : taken[k] = p[1]
    <3>1. p[1][2] \in 0 .. (InBlock(i) - 1)
      BY <2>1a DEF Follows, Slot
    <3>2. \E k \in 1 .. n : taken[k] = <<blocks[i], p[1][2]>>
      BY <3>1 DEF TakenInOrder
    <3> QED BY <3>2, <2>1a
  <2>3. k # n
    <3>1. SUFFICES ASSUME k = n PROVE FALSE
      OBVIOUS
    <3>2. p[1] = <<blocks[index], used - 1>>
      BY <2>2, <3>1 DEF TakenInOrder, PoolShape
    <3>3. index \in 0 .. index
      BY <1>1
    <3>4. i = index
      BY <2>1a, <3>2, <3>3 DEF PoolShape
    <3> QED BY <2>1a, <3>2, <3>4, <1>1 DEF Follows, InBlock
  <2>4. k \in 1 .. (n - 1)
    BY <2>3, <1>1
  <2>5. PICK h \in 0 .. index : Follows(taken[k], taken[k + 1], h)
    BY <2>4 DEF TakenInOrder
  <2>6. h = i
    <3>1. p[1][1] = blocks[i] /\ p[1][1] = blocks[h]
      BY <2>1a, <2>2, <2>5 DEF Follows, Slot
    <3> QED BY <3>1 DEF PoolShape
  <2>7. taken[k + 1] = p[2]
    <3>1. Follows(p[1], taken[k + 1], i) /\ Follows(p[1], p[2], i)
      BY <2>1a, <2>2, <2>5, <2>6
    <3>2. p[1][2] \in Nat /\ InBlock(i) \in Nat
      BY <3>1, <1>2 DEF Follows, Slot
    <3> DEFINE x == p[1][2]
    <3>3. /\ \/ x + 1 < InBlock(i) /\ taken[k + 1] = <<blocks[i], x + 1>>
             \/ x + 1 = InBlock(i) /\ taken[k + 1] = <<blocks[i + 1], 0>>
          /\ \/ x + 1 < InBlock(i) /\ p[2] = <<blocks[i], x + 1>>
             \/ x + 1 = InBlock(i) /\ p[2] = <<blocks[i + 1], 0>>
      BY <3>1 DEF Follows
    <3>4. ~(x + 1 < InBlock(i) /\ x + 1 = InBlock(i))
      BY <3>2
    <3> QED BY <3>3, <3>4
  <2> QED BY <2>1a, <2>2, <2>4, <2>7
<1> QED BY <1>3, <1>4

\* The pool's shape depends on its fields, its heap and the history only.
LEMMA TakenUnchanged ==
  ASSUME TakenInOrder, linked' <= Len(taken'),
         UNCHANGED <<index, used, block, sizes, blocks, taken>>
  PROVE  TakenInOrder'
<1>1. \A i : InBlock(i)' = InBlock(i)
  BY DEF InBlock
<1>2. \A k : taken'[k] = taken[k]
  OBVIOUS
<1>3. \A k \in 1 .. Len(taken') : \E i \in 0 .. index' : Slot(taken[k], i)'
  BY <1>1 DEF TakenInOrder, Slot
<1>4. \A k \in 1 .. (Len(taken') - 1) :
        \E i \in 0 .. index' : Follows(taken[k], taken[k + 1], i)'
  BY <1>1 DEF TakenInOrder, Follows, Slot
<1>5. \A i \in 0 .. index' : \A j \in 0 .. (InBlock(i)' - 1) :
        \E k \in 1 .. Len(taken') : taken'[k] = <<blocks'[i], j>>
  BY <1>1 DEF TakenInOrder
<1>6. /\ taken' = << >> <=> (index' = 0 /\ used' = 0)
      /\ taken' # << >> => /\ taken'[1] = <<blocks'[0], 0>>
                           /\ taken'[Len(taken')] = <<block', used' - 1>>
      /\ \A k, m \in 1 .. Len(taken') : taken'[k] = taken'[m] => k = m
  BY DEF TakenInOrder
<1> QED BY <1>3, <1>4, <1>5, <1>6 DEF TakenInOrder

\* data_pool_to_list: whatever was linked before, the next fields are now those
\* of the list of all elements.
LEMMA ToListLinksHolds ==
  ASSUME IndInv, ToListLinks
  PROVE  /\ IndInv'
         /\ next' = {<<taken[k], taken[k + 1]>> : k \in 1 .. (Len(taken) - 1)}
         /\ taken # << >> /\ ret' = taken[1]
<1> USE PoolAssumption DEF IndInv
<1> DEFINE n == Len(taken)
           List == {<<taken[k], taken[k + 1]>> : k \in 1 .. (n - 1)}
<1>1. /\ live /\ taken # << >> /\ linked' = n /\ ret' = <<blocks[0], 0>>
      /\ UNCHANGED <<live, index, size, used, block, sizes, blocks, heap, taken>>
  BY DEF ToListLinks, fields, TakenInOrder
<1>2. Assigned = List
  BY <1>1, AssignedIsTheList
<1>3. next' = List
  <2>1. linked \in Nat /\ n \in Nat /\ linked <= n
    BY DEF TypeOK, TakenInOrder
  <2>2. \A p \in next : \E q \in List : q[1] = p[1]
    BY <2>1 DEF ListInAllocationOrder
  <2> QED BY <1>2, <2>2 DEF ToListLinks
<1>4. TypeOK'
  <2>1. List \subseteq Element \X Element
    BY DEF TypeOK
  <2>2. blocks[0] \in Block
    BY <1>1 DEF PoolShape, TypeOK, BlockIndex
  <2>3. n \in Nat
    BY DEF TypeOK
  <2> QED BY <1>1, <1>3, <2>1, <2>2, <2>3 DEF TypeOK, Element
<1>5. PoolShape'
  BY <1>1 DEF PoolShape
<1>6. TakenInOrder'
  <2>1. linked' <= Len(taken')
    BY <1>1 DEF TypeOK
  <2> QED BY <1>1, <2>1, TakenUnchanged
<1>7. ListInAllocationOrder'
  BY <1>1, <1>3 DEF ListInAllocationOrder
<1>8. ret' = taken[1]
  BY <1>1 DEF TakenInOrder
<1> QED BY <1>1, <1>3, <1>4, <1>5, <1>6, <1>7, <1>8

\* data_pool_destroy returns every block: the state is as before data_pool_new.
LEMMA DestroyHolds ==
  ASSUME IndInv, data_pool_destroy
  PROVE  IndInv' /\ next' = {}
<1> USE PoolAssumption DEF IndInv
<1>1. /\ live' = FALSE /\ ret' = NULL /\ taken' = << >> /\ linked' = 0
      /\ index' = 0 /\ size' = 0 /\ used' = 0 /\ block' = NULL
      /\ sizes' = [i \in BlockIndex |-> 0] /\ blocks' = [i \in BlockIndex |-> NULL]
  BY DEF data_pool_destroy, ZeroFields
<1>2. DOMAIN heap' = {}
  BY DEF data_pool_destroy, PoolShape, Freed
<1>3. next' = {}
  <2>1. ASSUME NEW p \in next PROVE p[1][1] \in Freed
    <3>1. PICK k \in 1 .. (linked - 1) : p = <<taken[k], taken[k + 1]>>
      BY DEF ListInAllocationOrder
    <3>2. k \in 1 .. Len(taken)
      BY DEF TypeOK, TakenInOrder
    <3>3. PICK i \in 0 .. index : Slot(taken[k], i)
      BY <3>2 DEF TakenInOrder
    <3> QED BY <3>1, <3>3 DEF Slot, Freed
  <2> QED BY <2>1 DEF data_pool_destroy
<1>4. TypeOK'
  <2>1. 0 \in BlockIndex
    BY DEF BlockIndex
  <2>2. << >> \in Seq(Element)
    OBVIOUS
  <2>3. sizes' \in [BlockIndex -> Nat] /\ blocks' \in [BlockIndex -> Block \cup {NULL}]
    BY <1>1
  <2> QED BY <1>1, <1>2, <1>3, <2>1, <2>2, <2>3 DEF TypeOK
<1>5. PoolShape'
  BY <1>1, <1>2 DEF PoolShape
<1>6. TakenInOrder'
  BY <1>1 DEF TakenInOrder, InBlock
<1>7. ListInAllocationOrder'
  BY <1>1, <1>3 DEF ListInAllocationOrder
<1> QED BY <1>3, <1>4, <1>5, <1>6, <1>7

\* A call that returns NULL and changes nothing else keeps the invariant.
LEMMA StutterHolds ==
  ASSUME IndInv, UNCHANGED <<live, fields, memory, history>>, ret' \in Element \cup {NULL}
  PROVE  IndInv'
<1> USE DEF IndInv
<1>1. UNCHANGED <<live, index, size, used, block, sizes, blocks, heap, next, taken, linked>>
  BY DEF fields, memory, history
<1>2. TypeOK'
  BY <1>1 DEF TypeOK
<1>3. PoolShape'
  BY <1>1 DEF PoolShape
<1>4. TakenInOrder'
  BY <1>1, TakenUnchanged DEF TakenInOrder
<1>5. ListInAllocationOrder'
  BY <1>1 DEF ListInAllocationOrder
<1> QED BY <1>2, <1>3, <1>4, <1>5

\* Every call of the data_pool functions keeps the invariant.
LEMMA NextHolds == IndInv /\ [Next]_vars => IndInv'
<1> SUFFICES ASSUME IndInv, [Next]_vars PROVE IndInv'
  OBVIOUS
<1>1. ASSUME NEW n \in InitSizes, data_pool_new(n) PROVE IndInv'
  <2>1. CASE NewFails(n)
    BY <2>1, StutterHolds DEF NewFails
  <2>2. CASE NewSucceeds(n)
    BY <2>2, NewSucceedsHolds
  <2> QED BY <1>1, <2>1, <2>2 DEF data_pool_new
<1>2. CASE data_pool_alloc
  <2>1. CASE AllocFails
    BY <2>1, StutterHolds DEF AllocFails
  <2> QED BY <1>2, <2>1, AllocFromBlockHolds, AllocFromNewBlockHolds DEF data_pool_alloc
<1>3. CASE data_pool_to_list
  <2>1. CASE ToListEmpty
    BY <2>1, StutterHolds DEF ToListEmpty
  <2> QED BY <1>3, <2>1, ToListLinksHolds DEF data_pool_to_list
<1>4. CASE data_pool_destroy
  BY <1>4, DestroyHolds
<1>5. CASE UNCHANGED vars
  BY <1>5, StutterHolds DEF vars, fields, memory, history, IndInv, TypeOK
<1> QED BY <1>1, <1>2, <1>3, <1>4, <1>5 DEF Next

\* The inductive invariant: the blocks in use are full but for the current one,
\* and the elements handed out are their slots, in order, block by block.
THEOREM PoolInvariant == Spec => []IndInv
BY InitHolds, NextHolds, PTL DEF Spec

\* The fields of the pool have their types in every reachable state; above all,
\* index stays inside the arrays sizes and blocks however often it grows.
THEOREM PoolTypeCorrect == Spec => []TypeOK
BY PoolInvariant, PTL DEF IndInv

\* Elements that are consecutive slots of distinct blocks are distinct and
\* inside their blocks.
LEMMA OwnedFromInv == IndInv => HandedOutIsOwned
<1> SUFFICES ASSUME IndInv PROVE HandedOutIsOwned
  OBVIOUS
<1> USE DEF IndInv
<1>1. ASSUME NEW k \in 1 .. Len(taken)
      PROVE  taken[k][1] \in DOMAIN heap /\ taken[k][2] < heap[taken[k][1]]
  <2>1. PICK i \in 0 .. index : Slot(taken[k], i)
    BY DEF TakenInOrder
  <2>2. live
    <3>1. SUFFICES ASSUME ~live PROVE FALSE
      OBVIOUS
    <3>2. taken = << >>
      BY <3>1 DEF PoolShape, TakenInOrder
    <3> QED BY <3>2
  <2>3. blocks[i] \in DOMAIN heap /\ heap[blocks[i]] = sizes[i]
    BY <2>2 DEF PoolShape
  <2>4. InBlock(i) <= sizes[i] /\ InBlock(i) \in Nat /\ sizes[i] \in Nat
    <3>1. i \in BlockIndex /\ sizes \in [BlockIndex -> Nat] /\ used \in Nat
      <4>1. index \in BlockIndex /\ sizes \in [BlockIndex -> Nat] /\ used \in Nat
        BY DEF TypeOK
      <4>2. i \in BlockIndex
        BY <4>1, PoolAssumption DEF BlockIndex
      <4> QED BY <4>1, <4>2
    <3>2. used <= size /\ size = sizes[index]
      BY <2>2 DEF PoolShape
    <3>3. sizes[i] \in Nat
      BY <3>1
    <3> QED BY <3>1, <3>2, <3>3 DEF InBlock
  <2>5. taken[k][1] = blocks[i] /\ taken[k][2] \in 0 .. (InBlock(i) - 1)
    BY <2>1 DEF Slot
  <2> QED BY <2>3, <2>4, <2>5
<1> QED BY <1>1 DEF HandedOutIsOwned, TakenInOrder

\* No struct is handed out twice, and all of them stay inside live blocks.
THEOREM PoolHandsOutOwnedElements == Spec => []HandedOutIsOwned
BY PoolInvariant, OwnedFromInv, PTL

\* The list is the elements in the order of the data_pool_alloc calls.
THEOREM PoolListsInAllocationOrder == Spec => []ListInAllocationOrder
BY PoolInvariant, PTL DEF IndInv

\* What data_pool_destroy frees is what was allocated: no leak, no double free.
THEOREM PoolOwnsItsBlocks == Spec => []OwnsItsBlocks
<1>1. IndInv => OwnsItsBlocks
  BY DEF IndInv, PoolShape, OwnsItsBlocks
<1> QED BY <1>1, PoolInvariant, PTL

\* The product calloc computes never exceeds SIZE_MAX.
THEOREM PoolByteCountsFit == Spec => []NoByteCountWraps
<1>1. ASSUME IndInv, NEW b \in DOMAIN heap
      PROVE  heap[b] * ElemSize <= SizeMax /\ heap[b] > 0
  <2>1. live /\ \E i \in 0 .. index : b = blocks[i]
    BY <1>1 DEF IndInv, PoolShape
  <2>2. PICK i \in 0 .. index : b = blocks[i]
    BY <2>1
  <2>3. /\ heap[blocks[i]] = sizes[i] /\ sizes[i] > 0
        /\ sizes[i] * ElemSize <= SizeMax
    BY <1>1, <2>1 DEF IndInv, PoolShape
  <2> QED BY <2>2, <2>3
<1>2. IndInv => NoByteCountWraps
  BY <1>1 DEF NoByteCountWraps
<1> QED BY <1>2, PoolInvariant, PTL

-------------------------------------------------------------------------------
\* data_pool_alloc's new element is not one of those handed out before.
LEMMA AllocIsFresh ==
  ASSUME IndInv, IndInv', taken' = Append(taken, ret'), ret' \in Element
  PROVE  \A k \in 1 .. Len(taken) : taken[k] # ret'
<1>1. /\ Len(taken') = Len(taken) + 1 /\ Len(taken) \in Nat
      /\ taken'[Len(taken) + 1] = ret'
      /\ \A k \in 1 .. Len(taken) : taken'[k] = taken[k]
  BY AppendFacts DEF IndInv, TypeOK
<1>2. \A k, m \in 1 .. Len(taken') : taken'[k] = taken'[m] => k = m
  BY DEF IndInv, TakenInOrder
<1> QED BY <1>1, <1>2

\* Every step of the pool is a step of the arena, or changes nothing there.
LEMMA StepRefines ==
  ASSUME IndInv, IndInv', [Next]_vars
  PROVE  [Arena!ArenaNext]_(Arena!arenaVars)
<1> USE DEF Arena!ArenaNext
<1>1. ASSUME NEW n \in InitSizes, data_pool_new(n) PROVE Arena!ArenaNext
  <2>1. Arena!Create
    BY <1>1 DEF data_pool_new, NewFails, NewSucceeds, Arena!Create, memory,
                history, IndInv, TypeOK
  <2> QED BY <2>1
<1>2. CASE data_pool_alloc
  <2>1. CASE AllocFails
    BY <2>1 DEF AllocFails, Arena!Refuse, memory, history
  <2>2. CASE AllocFromBlock \/ AllocFromNewBlock
    <3>1. /\ live /\ live' = live /\ next' = next /\ taken' = Append(taken, ret')
      BY <2>2 DEF AllocFromBlock, AllocFromNewBlock, memory
    <3>2. ret' \in Element
      <4>1. CASE AllocFromBlock
        BY <4>1 DEF AllocFromBlock, IndInv, PoolShape, TypeOK, Element, BlockIndex
      <4>2. CASE AllocFromNewBlock
        BY <4>2 DEF AllocFromNewBlock, Element
      <4> QED BY <2>2, <4>1, <4>2
    <3> QED BY <3>1, <3>2, AllocIsFresh DEF Arena!HandOut
  <2> QED BY <1>2, <2>1, <2>2 DEF data_pool_alloc
<1>3. CASE data_pool_to_list
  <2>1. CASE ToListEmpty
    BY <2>1 DEF ToListEmpty, Arena!Refuse, memory, history
  <2>2. CASE ToListLinks
    <3>1. live /\ UNCHANGED <<live, taken>>
      BY <2>2 DEF ToListLinks
    <3> QED BY <2>2, <3>1, ToListLinksHolds DEF Arena!Link, Arena!ListOf
  <2> QED BY <1>3, <2>1, <2>2 DEF data_pool_to_list
<1>4. CASE data_pool_destroy
  <2>1. next' = {}
    BY <1>4, DestroyHolds
  <2> QED BY <1>4, <2>1 DEF data_pool_destroy, Arena!Discard
<1>5. CASE UNCHANGED vars
  BY <1>5 DEF vars, Arena!arenaVars
<1> QED BY <1>1, <1>2, <1>3, <1>4, <1>5 DEF Next

\* The pool implements the abstract arena: whatever its blocks look like, its
\* client sees fresh elements, harmless failures and lists in call order.
THEOREM PoolImplementsArena == Spec => ImplementsArena
<1>1. Init => Arena!ArenaInit
  BY DEF Init, Arena!ArenaInit
<1>2. IndInv /\ IndInv' /\ [Next]_vars => [Arena!ArenaNext]_(Arena!arenaVars)
  BY StepRefines
<1> QED BY <1>1, <1>2, PoolInvariant, PTL DEF Spec, ImplementsArena, Arena!ArenaSpec

===============================================================================
