------------------------------- MODULE DataPool -------------------------------
(***************************************************************************)
(* The pool of MMDB_entry_data_list_s structs (src/data-pool.c): blocks    *)
(* that double in size, elements handed out one after the other, and the   *)
(* whole pool turned into one linked list.                                 *)
(*                                                                         *)
(* A block is an identity; an element is the pair <<block, slot>>.  The    *)
(* memory the pool owns is `heap', block |-> number of structs, and the    *)
(* next fields that are not NULL are the pairs of `next': calloc zeroes a  *)
(* block, so a new block contributes none.  calloc may fail at any call.   *)
(***************************************************************************)
EXTENDS Integers, Sequences, FiniteSets

CONSTANTS DATA_POOL_NUM_BLOCKS,   \* length of the arrays sizes and blocks
          SizeMax,                \* SIZE_MAX
          ElemSize,               \* sizeof(MMDB_entry_data_list_s)
          InitSizes,              \* the sizes data_pool_new may be called with
          Block,                  \* identities of calloc'd blocks
          NULL                    \* the null pointer

ASSUME PoolAssumption ==
  /\ DATA_POOL_NUM_BLOCKS \in Nat \ {0}
  /\ SizeMax \in Nat
  /\ ElemSize \in Nat \ {0}
  /\ InitSizes \subseteq 0 .. SizeMax
  /\ NULL \notin Block
  /\ NULL \notin Block \X Nat

VARIABLES live,     \* the struct MMDB_data_pool_s is allocated
          index, size, used, block, sizes, blocks,    \* its fields
          heap, next,                                 \* memory (see above)
          ret,      \* what the last call returned, NULL or an element
          taken,    \* history: the elements handed out, in order
          linked    \* history: how many there were at the last to_list

fields == <<index, size, used, block, sizes, blocks>>
memory == <<heap, next>>
history == <<taken, linked>>
vars == <<live, index, size, used, block, sizes, blocks,
          heap, next, ret, taken, linked>>

BlockIndex == 0 .. (DATA_POOL_NUM_BLOCKS - 1)
Element == Block \X Nat

\* The elements of block i that are handed out: data_pool_to_list's `size'.
InBlock(i) == IF i = index THEN used ELSE sizes[i]
-------------------------------------------------------------------------------
can_multiply(max, m, n) == m # 0 /\ n <= max \div m

\* calloc(n, sizeof(MMDB_entry_data_list_s)) returns the new block b.
calloc(b, n) ==
  /\ b \notin DOMAIN heap
  /\ heap' = [x \in DOMAIN heap \cup {b} |-> IF x = b THEN n ELSE heap[x]]

\* size_t arithmetic: zero minus one wraps.
MinusOne(n) == IF n = 0 THEN SizeMax ELSE n - 1

\* The struct as calloc leaves it.
ZeroFields ==
  /\ index' = 0 /\ size' = 0 /\ used' = 0 /\ block' = NULL
  /\ sizes' = [i \in BlockIndex |-> 0]
  /\ blocks' = [i \in BlockIndex |-> NULL]

Init ==
  /\ live = FALSE
  /\ index = 0 /\ size = 0 /\ used = 0 /\ block = NULL
  /\ sizes = [i \in BlockIndex |-> 0]
  /\ blocks = [i \in BlockIndex |-> NULL]
  /\ heap = << >> /\ next = {}
  /\ ret = NULL /\ taken = << >> /\ linked = 0
-------------------------------------------------------------------------------
\* data_pool_new(n) returns NULL: no memory for the struct, a size that is
\* zero or too large, or no memory for the first block.  What was allocated
\* is destroyed again.
NewFails(n) ==
  /\ ~live
  /\ ret' = NULL
  /\ UNCHANGED <<live, fields, memory, history>>

NewSucceeds(n) ==
  /\ ~live
  /\ n # 0 /\ can_multiply(SizeMax, n, ElemSize)
  /\ \E b \in Block :
       /\ calloc(b, n)
       /\ blocks' = [i \in BlockIndex |-> IF i = 0 THEN b ELSE NULL]
       /\ block' = b
  /\ live' = TRUE
  /\ size' = n
  /\ sizes' = [i \in BlockIndex |-> IF i = 0 THEN n ELSE 0]
  /\ index' = 0 /\ used' = 0
  /\ ret' = NULL
  /\ UNCHANGED <<next, history>>

data_pool_new(n) == NewFails(n) \/ NewSucceeds(n)
-------------------------------------------------------------------------------
\* The next slot of the current block.
AllocFromBlock ==
  /\ live
  /\ used < size
  /\ used' = used + 1
  /\ ret' = <<block, used>>
  /\ taken' = Append(taken, ret')
  /\ UNCHANGED <<live, index, size, block, sizes, blocks, memory, linked>>

\* Mutants of MayGrow: the array bound forgotten, the byte count unchecked.
MayGrowPastArray ==
  /\ can_multiply(SizeMax, size, 2)
  /\ can_multiply(SizeMax, size * 2, ElemSize)

MayGrowUncheckedBytes ==
  /\ index + 1 # DATA_POOL_NUM_BLOCKS
  /\ can_multiply(SizeMax, size, 2)

\* The block is full and the pool may grow: the array of blocks has room, and
\* neither the doubled size nor its bytes wrap around.
MayGrow ==
  /\ index + 1 # DATA_POOL_NUM_BLOCKS
  /\ can_multiply(SizeMax, size, 2)
  /\ can_multiply(SizeMax, size * 2, ElemSize)

\* Mutant: the new block's first slot is returned but not counted as used.
AllocNewBlockUncounted ==
  /\ live
  /\ used >= size
  /\ MayGrow
  /\ \E b \in Block :
       /\ calloc(b, size * 2)
       /\ blocks' = [blocks EXCEPT ![index + 1] = b]
       /\ block' = b
       /\ ret' = <<b, 0>>
  /\ index' = index + 1
  /\ size' = size * 2
  /\ sizes' = [sizes EXCEPT ![index + 1] = size * 2]
  /\ used' = 0
  /\ taken' = Append(taken, ret')
  /\ UNCHANGED <<live, next, linked>>

\* The first slot of a new block twice the size of the last one.
AllocFromNewBlock ==
  /\ live
  /\ used >= size
  /\ MayGrow
  /\ \E b \in Block :
       /\ calloc(b, size * 2)
       /\ blocks' = [blocks EXCEPT ![index + 1] = b]
       /\ block' = b
       /\ ret' = <<b, 0>>
  /\ index' = index + 1
  /\ size' = size * 2
  /\ sizes' = [sizes EXCEPT ![index + 1] = size * 2]
  /\ used' = 1
  /\ taken' = Append(taken, ret')
  /\ UNCHANGED <<live, next, linked>>

\* NULL: there is no pool, it may not grow, or calloc failed (which leaves
\* blocks[new_index] NULL, as it was).
AllocFails ==
  /\ ~live \/ used >= size
  /\ ret' = NULL
  /\ UNCHANGED <<live, fields, memory, history>>

data_pool_alloc == AllocFromBlock \/ AllocFromNewBlock \/ AllocFails
-------------------------------------------------------------------------------
\* The assignments of data_pool_to_list's two loops, as <<cur, next>> pairs:
\* inside a block, and from the last element of a block to the next block.
Within(i) ==
  {<< <<blocks[i], j>>, <<blocks[i], j + 1>> >> :
       j \in 0 .. (MinusOne(InBlock(i)) - 1)}

\* Mutant: the block's capacity is taken for its last slot.
AcrossOffByOne(i) ==
  {<< <<blocks[i], InBlock(i)>>, <<blocks[i + 1], 0>> >>}

Across(i) ==
  {<< <<blocks[i], MinusOne(InBlock(i))>>, <<blocks[i + 1], 0>> >>}

Assigned == (UNION {Within(i) : i \in 0 .. index})
              \cup (UNION {Across(i) : i \in 0 .. (index - 1)})

ToListEmpty ==
  /\ ~live \/ (index = 0 /\ used = 0)
  /\ ret' = NULL
  /\ UNCHANGED <<live, fields, memory, history>>

\* Mutant: the list is returned from the current block on.
ToListFromCurrentBlock ==
  /\ live
  /\ ~(index = 0 /\ used = 0)
  /\ next' = {p \in next : \A q \in Assigned : q[1] # p[1]} \cup Assigned
  /\ ret' = <<block, 0>>
  /\ linked' = Len(taken)
  /\ UNCHANGED <<live, fields, heap, taken>>

ToListLinks ==
  /\ live
  /\ ~(index = 0 /\ used = 0)
  /\ next' = {p \in next : \A q \in Assigned : q[1] # p[1]} \cup Assigned
  /\ ret' = <<blocks[0], 0>>
  /\ linked' = Len(taken)
  /\ UNCHANGED <<live, fields, heap, taken>>

data_pool_to_list == ToListEmpty \/ ToListLinks
-------------------------------------------------------------------------------
\* Mutant: the loop stops before the current block.
FreedButLast == {blocks[i] : i \in 0 .. (index - 1)}

\* The blocks data_pool_destroy's loop frees; after it, the struct goes too.
\* (On a NULL pool it does nothing.)
Freed == {blocks[i] : i \in 0 .. index}

data_pool_destroy ==
  /\ live
  /\ heap' = [b \in DOMAIN heap \ Freed |-> heap[b]]
  /\ next' = {p \in next : p[1][1] \notin Freed}
  /\ live' = FALSE
  /\ ZeroFields
  /\ ret' = NULL /\ taken' = << >> /\ linked' = 0
-------------------------------------------------------------------------------
Next == \/ \E n \in InitSizes : data_pool_new(n)
        \/ data_pool_alloc
        \/ data_pool_to_list
        \/ data_pool_destroy

Spec == Init /\ [][Next]_vars
-------------------------------------------------------------------------------
\* Type correctness: the fields of the struct, the heap it uses, and an index
\* that never leaves the arrays sizes and blocks.
TypeOK ==
  /\ live \in BOOLEAN
  /\ index \in BlockIndex
  /\ size \in Nat /\ used \in Nat
  /\ block \in Block \cup {NULL}
  /\ sizes \in [BlockIndex -> Nat]
  /\ blocks \in [BlockIndex -> Block \cup {NULL}]
  /\ DOMAIN heap \subseteq Block
  /\ \A b \in DOMAIN heap : heap[b] \in Nat
  /\ next \subseteq Element \X Element
  /\ ret \in Element \cup {NULL}
  /\ taken \in Seq(Element)
  /\ linked \in Nat

\* data_pool_alloc never hands out one struct twice, and every struct it has
\* handed out lies inside a block that is still allocated, however often the
\* pool has grown or failed to grow since.
HandedOutIsOwned ==
  /\ \A k \in 1 .. Len(taken) :
       /\ taken[k][1] \in DOMAIN heap
       /\ taken[k][2] < heap[taken[k][1]]
  /\ \A k, m \in 1 .. Len(taken) : taken[k] = taken[m] => k = m

\* "The order you add elements to it ends up as the order of the list": the
\* next fields are exactly those of the list of the elements that had been
\* handed out at the last data_pool_to_list, in order; the last one's is NULL,
\* and nothing outside the list is linked.
ListInAllocationOrder ==
  next = {<<taken[k], taken[k + 1]>> : k \in 1 .. (linked - 1)}

\* The pool neither leaks nor loses a block: the blocks allocated are those
\* data_pool_destroy will free, none twice, and without a pool there is none.
OwnsItsBlocks ==
  /\ DOMAIN heap = IF live THEN {blocks[i] : i \in 0 .. index} ELSE {}
  /\ live => \A i, j \in 0 .. index : blocks[i] = blocks[j] => i = j

\* The byte count of every calloc fits in a size_t: doubling is refused before
\* it wraps, so a block is as large as the pool believes it to be.
NoByteCountWraps ==
  \A b \in DOMAIN heap : heap[b] * ElemSize <= SizeMax /\ heap[b] > 0

\* The pool implements the arena its client, get_entry_data_list, relies on.
Arena == INSTANCE EntryArena
           WITH open <- live, items <- taken, links <- next, answer <- ret
ImplementsArena == Arena!ArenaSpec

===============================================================================
