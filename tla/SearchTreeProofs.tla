--------------------------- MODULE SearchTreeProofs ---------------------------
(***************************************************************************)
(* Proofs about SearchTree for every tree, however large or damaged, any   *)
(* number of threads and every address length.                             *)
(***************************************************************************)
EXTENDS SearchTree, TLAPS, WellFoundedInduction

\* Every non-empty set of natural numbers has a least element: the form of
\* induction the proofs below use.
LEMMA LeastNumber ==
  ASSUME NEW T \in SUBSET Nat, T # {}
  PROVE  \E n \in T : \A m \in T : n <= m
<1>1. PICK x \in T : \A y \in T : ~(<<y, x>> \in OpToRel(<, Nat))
  <2>1. IsWellFoundedOn(OpToRel(<, Nat), Nat)
    BY NatLessThanWellFounded
  <2> QED BY <2>1, WFMin
<1>2. \A y \in T : ~(y < x)
  BY <1>1 DEF OpToRel
<1> QED BY <1>2

\* One step of the reference walk.
StepOf(a, v, k) == IF v < node_count THEN tree[v][a[k]] ELSE v

\* Function p is the reference walk of address a over its first n bits.
Walks(a, n, p) ==
  p = [k \in 0 .. n |-> IF k = 0 THEN 0 ELSE StepOf(a, p[k - 1], k - 1)]

\* A reference walk exists for every number of bits, by induction on it.
LEMMA WalkExists ==
  ASSUME NEW a, NEW n \in Nat
  PROVE  \E p : Walks(a, n, p)
<1> DEFINE T == {m \in Nat : ~ \E p : Walks(a, m, p)}
<1>1. SUFFICES ASSUME T # {} PROVE FALSE
  OBVIOUS
<1>2. PICK m \in T : \A j \in T : m <= j
  <2>1. T \in SUBSET Nat
    OBVIOUS
  <2> HIDE DEF T
  <2> QED BY <1>1, <2>1, LeastNumber
<1>3. m \in Nat /\ \A p : ~Walks(a, m, p)
  BY <1>2
<1>4. CASE m = 0
  <2>1. Walks(a, 0, [k \in 0 .. 0 |-> 0])
    BY DEF Walks
  <2> QED BY <1>3, <1>4, <2>1
<1>5. CASE m # 0
  <2>1. m - 1 \in Nat /\ m - 1 \notin T
    BY <1>2, <1>3, <1>5
  <2>2. PICK p : Walks(a, m - 1, p)
    BY <2>1
  <2> DEFINE q == [k \in 0 .. m |-> IF k = m THEN StepOf(a, p[m - 1], m - 1) ELSE p[k]]
  <2>3. \A k \in 0 .. (m - 1) : p[k] = IF k = 0 THEN 0 ELSE StepOf(a, p[k - 1], k - 1)
    BY <2>1, <2>2 DEF Walks
  <2>4. \A k \in 0 .. m : q[k] = IF k = 0 THEN 0 ELSE StepOf(a, q[k - 1], k - 1)
    <3>1. TAKE k \in 0 .. m
    <3>2. CASE k = m
      <4>1. q[k - 1] = p[m - 1]
        BY <3>2, <1>3, <1>5
      <4> QED BY <3>2, <4>1, <1>3, <1>5
    <3>3. CASE k # m /\ k # 0
      <4>1. q[k - 1] = p[k - 1] /\ q[k] = p[k] /\ k \in 0 .. (m - 1)
        BY <3>3, <1>3
      <4> QED BY <3>3, <4>1, <2>3
    <3>4. CASE k = 0
      BY <3>4, <2>3, <1>3, <1>5
    <3> QED BY <3>2, <3>3, <3>4
  <2>5. Walks(a, m, q)
    BY <2>4 DEF Walks
  <2> QED BY <1>3, <2>5
<1> QED BY <1>3, <1>4, <1>5

\* The recursive definition of RootPath means what it says.
LEMMA RootPathUnfolds ==
  ASSUME NEW a, depth \in Nat
  PROVE  /\ RootPath(a)[0] = 0
         /\ \A k \in 0 .. (depth - 1) :
              RootPath(a)[k + 1] = StepOf(a, RootPath(a)[k], k)
<1>1. PICK p : Walks(a, depth, p)
  BY WalkExists
<1>2. Walks(a, depth, RootPath(a))
  BY <1>1 DEF Walks, RootPath, StepOf
<1> QED BY <1>2 DEF Walks

-------------------------------------------------------------------------------
\* A node of the tree is read from before the data section: the bounds check in
\* the two loops and in MMDB_read_node never fails once MMDB_open has accepted
\* the file.
LEMMA NodeIsBeforeData ==
  ASSUME node_count \in Nat, NEW n \in Nat, n < node_count
  PROVE  ~PastTree(n)
<1>1. RecordLength \in Nat /\ MMDB_DATA_SECTION_SEPARATOR \in Nat
  BY TreeAssumption
<1>2. (n + 1) * RecordLength <= node_count * RecordLength
  BY <1>1
<1>3. (n + 1) * RecordLength \in Nat /\ node_count * RecordLength \in Nat
  BY <1>1
<1> QED BY <1>1, <1>2, <1>3 DEF PastTree

\* What a lookup walks is an address of the database's own length.
LEMMA AddressType ==
  ASSUME TypeOK, NEW s \in Sockaddr, FamilyError(s) = "MMDB_SUCCESS"
  PROVE  AddressOf(s) \in [0 .. (depth - 1) -> Bit]
<1> USE TreeAssumption
<1>1. CASE s.family = "AF_INET"
  <2>1. s.bits \in [0 .. (V4Bits - 1) -> Bit]
    BY <1>1 DEF Sockaddr
  <2>2. CASE ip_version = 6
    <3>1. \A i \in 0 .. (V4Prefix + V4Bits - 1) :
            ~(i < V4Prefix) => i - V4Prefix \in 0 .. (V4Bits - 1)
      OBVIOUS
    <3>2. mapped_address(s.bits) \in [0 .. (V4Prefix + V4Bits - 1) -> Bit]
      BY <2>1, <3>1 DEF mapped_address, Bit
    <3> QED BY <1>1, <2>2, <3>2 DEF AddressOf, depth
  <2>3. CASE ip_version = 4
    BY <2>1, <2>3 DEF AddressOf, depth
  <2> QED BY <2>2, <2>3 DEF TypeOK
<1>2. CASE s.family = "AF_INET6"
  <2>1. s.bits \in [0 .. (V4Prefix + V4Bits - 1) -> Bit]
    BY <1>2 DEF Sockaddr
  <2>2. ip_version = 6
    BY <1>2 DEF FamilyError, TypeOK
  <2> QED BY <1>2, <2>1, <2>2 DEF AddressOf, depth
<1>3. CASE s.family = "AF_UNSPEC"
  BY <1>3 DEF FamilyError
<1> QED BY <1>1, <1>2, <1>3 DEF Sockaddr

(***************************************************************************)
(* The inductive invariant: the cached start node lies on the reference    *)
(* walk of every ::a.b.c.d, a walk in progress is on the reference walk of *)
(* its address and has not left the tree before, and a finished lookup has *)
(* the outcome of the record where that walk leaves the tree.              *)
(***************************************************************************)
OnPath(a, v, k) ==
  /\ RootPath(a)[k] = v
  /\ \A j \in 0 .. (k - 1) : RootPath(a)[j] < node_count

StartOnPath ==
  ip_version = 6 =>
    \A a \in [0 .. (depth - 1) -> Bit] :
      (\A i \in 0 .. (V4Prefix - 1) : a[i] = 0) => OnPath(a, start_value, start_netmask)

WalkOK(t) ==
  pc[t] = "walk" => /\ FamilyError(sockaddr[t]) = "MMDB_SUCCESS"
                    /\ address[t] = AddressOf(sockaddr[t])
                    /\ current_bit[t] \in 0 .. depth
                    /\ OnPath(address[t], value[t], current_bit[t])

Finished(t) == pc[t] = "done" /\ FamilyError(sockaddr[t]) = "MMDB_SUCCESS"

DoneOK(t) ==
  LET p == RootPath(AddressOf(sockaddr[t]))
      k == result[t].netmask
  IN Finished(t) => LeavesTreeAt(p, k) /\ result[t] = Outcome(p[k], k)

WalkOnPath == \A t \in Threads : WalkOK(t)
DoneOnPath == \A t \in Threads : DoneOK(t)

IndInv == TypeOK /\ StartOnPath /\ WalkOnPath /\ DoneOnPath

\* An address has a natural number of bits.
LEMMA DepthIsNat == TypeOK => depth \in Nat /\ 0 \in 0 .. depth
BY TreeAssumption DEF TypeOK, depth

\* Nothing the reference is made of changes once the file is open.
LEMMA ReferenceUnchanged ==
  ASSUME UNCHANGED db
  PROVE  /\ depth' = depth
         /\ \A a : RootPath(a)' = RootPath(a)
         /\ \A s : AddressOf(s)' = AddressOf(s) /\ FamilyError(s)' = FamilyError(s)
         /\ \A p, k : LeavesTreeAt(p, k)' <=> LeavesTreeAt(p, k)
         /\ \A v, k : Outcome(v, k)' = Outcome(v, k)
         /\ \A a, v, k : OnPath(a, v, k)' <=> OnPath(a, v, k)
<1>1. node_count' = node_count /\ ip_version' = ip_version /\ tree' = tree
  BY DEF db
<1>2. depth' = depth
  BY <1>1 DEF depth
<1>3. \A a : RootPath(a)' = RootPath(a)
  BY <1>1, <1>2 DEF RootPath
<1>4. \A s : AddressOf(s)' = AddressOf(s) /\ FamilyError(s)' = FamilyError(s)
  BY <1>1 DEF AddressOf, FamilyError
<1>5. \A p, k : LeavesTreeAt(p, k)' <=> LeavesTreeAt(p, k)
  BY <1>1, <1>2 DEF LeavesTreeAt
<1>6. \A v, k : Outcome(v, k)' = Outcome(v, k)
  BY <1>1 DEF Outcome, record_type, data_section_offset_for_record
<1>7. \A a, v, k : OnPath(a, v, k)' <=> OnPath(a, v, k)
  BY <1>1, <1>3 DEF OnPath
<1> QED BY <1>2, <1>3, <1>4, <1>5, <1>6, <1>7

\* Before find_ipv4_start_node runs the invariant holds.
LEMMA InitHolds == Init => IndInv
<1> SUFFICES ASSUME Init PROVE IndInv
  OBVIOUS
<1> USE TreeAssumption
<1>1. TypeOK
  <2>1. tree \in [0 .. (node_count - 1) -> [Bit -> 0 .. (U32 - 1)]]
    BY DEF Init
  <2>2. [family |-> "AF_UNSPEC", bits |-> << >>] \in Sockaddr
    BY DEF Sockaddr
  <2>3. phase \in Phase
    BY DEF Init, Phase
  <2>4. NoResult \in ResultType
    BY DEF NoResult, Result, ResultType
  <2> QED BY <2>1, <2>2, <2>3, <2>4 DEF Init, TypeOK
<1>2. StartOnPath
  <2>1. \A a : RootPath(a)[0] = 0
    BY <1>1, DepthIsNat, RootPathUnfolds
  <2> QED BY <2>1 DEF Init, StartOnPath, OnPath
<1>3. WalkOnPath /\ DoneOnPath
  BY DEF Init, WalkOnPath, DoneOnPath, WalkOK, DoneOK, Finished
<1> QED BY <1>1, <1>2, <1>3 DEF IndInv

\* One more record of the reference walk, while it is inside the tree.
LEMMA OnPathStep ==
  ASSUME TypeOK, NEW a, NEW k \in 0 .. (depth - 1), NEW v \in Nat,
         OnPath(a, v, k), v < node_count
  PROVE  OnPath(a, tree[v][a[k]], k + 1)
<1>1. depth \in Nat
  BY DepthIsNat
<1>2. RootPath(a)[k + 1] = tree[v][a[k]]
  BY <1>1, RootPathUnfolds DEF OnPath, StepOf
<1>3. \A j \in 0 .. (k + 1 - 1) : j \in 0 .. (k - 1) \/ j = k
  BY <1>1
<1>4. \A j \in 0 .. (k + 1 - 1) : RootPath(a)[j] < node_count
  BY <1>3 DEF OnPath
<1> QED BY <1>2, <1>4 DEF OnPath

\* The records of the tree are 32-bit values.
LEMMA RecordType ==
  ASSUME TypeOK, NEW v \in Nat, v < node_count, NEW b \in Bit
  PROVE  tree[v][b] \in 0 .. (U32 - 1)
BY TreeAssumption DEF TypeOK

\* A step of find_ipv4_start_node follows the zero bits of ::/96.
LEMMA FindStartStepHolds ==
  ASSUME IndInv, FindStartStep
  PROVE  IndInv'
<1> USE TreeAssumption DEF IndInv
<1>1. /\ ip_version = 6 /\ StartInTree /\ UNCHANGED db
      /\ UNCHANGED <<pc, sockaddr, address, value, current_bit, result, node>>
  BY DEF FindStartStep
<1>2. start_value \in Nat /\ start_netmask \in Nat /\ start_netmask < V4Prefix
      /\ node_count \in Nat /\ start_value < node_count
  BY <1>1 DEF TypeOK, StartInTree
<1>3. /\ start_value' = tree[start_value][0] /\ start_netmask' = start_netmask + 1
      /\ phase' = phase
  BY <1>2, NodeIsBeforeData DEF FindStartStep
<1>4. start_value' \in 0 .. (U32 - 1)
  BY <1>2, <1>3, RecordType DEF Bit
<1>5. depth' = depth
  BY <1>1, ReferenceUnchanged
<1>6. TypeOK'
  BY <1>1, <1>2, <1>3, <1>4, <1>5 DEF TypeOK, db
<1>7. StartOnPath'
  <2>1. ASSUME NEW a \in [0 .. (depth - 1) -> Bit], \A i \in 0 .. (V4Prefix - 1) : a[i] = 0
        PROVE  OnPath(a, start_value', start_netmask')
    <3>1. start_netmask \in 0 .. (depth - 1) /\ a[start_netmask] = 0
      BY <1>1, <1>2, <2>1 DEF depth
    <3>2. OnPath(a, start_value, start_netmask)
      BY <1>1, <2>1 DEF StartOnPath
    <3> QED BY <1>2, <1>3, <3>1, <3>2, OnPathStep
  <2>2. \A a, v, k : OnPath(a, v, k)' <=> OnPath(a, v, k)
    BY <1>1, ReferenceUnchanged
  <2>3. ASSUME NEW a \in [0 .. (depth - 1) -> Bit], \A i \in 0 .. (V4Prefix - 1) : a[i] = 0
        PROVE  OnPath(a, start_value, start_netmask)'
    <3>1. OnPath(a, start_value', start_netmask')
      BY <2>1, <2>3
    <3> QED BY <3>1, <1>1, ReferenceUnchanged DEF OnPath, db
  <2> QED BY <2>3, <1>5 DEF StartOnPath
<1>8. WalkOnPath' /\ DoneOnPath'
  BY <1>1, ReferenceUnchanged DEF WalkOnPath, DoneOnPath, WalkOK, DoneOK, Finished, OnPath, db
<1> QED BY <1>6, <1>7, <1>8

\* The start node is untouched by everything threads do.
LEMMA StartUnchanged ==
  ASSUME StartOnPath, UNCHANGED <<db, start>>
  PROVE  StartOnPath'
<1>1. start_value' = start_value /\ start_netmask' = start_netmask /\ ip_version' = ip_version
  BY DEF start, db
<1>2. depth' = depth /\ \A a, v, k : OnPath(a, v, k)' <=> OnPath(a, v, k)
  BY ReferenceUnchanged
<1>3. ASSUME NEW a PROVE OnPath(a, start_value, start_netmask)' <=> OnPath(a, start_value, start_netmask)
  BY <1>1, ReferenceUnchanged DEF OnPath, db
<1> QED BY <1>1, <1>2, <1>3 DEF StartOnPath

\* What the other threads see when thread t takes a step of its own.
LEMMA OthersUnchanged ==
  ASSUME IndInv, UNCHANGED db, NEW t \in Threads,
         \A u \in Threads \ {t} :
           /\ pc'[u] = pc[u] /\ sockaddr'[u] = sockaddr[u] /\ address'[u] = address[u]
           /\ value'[u] = value[u] /\ current_bit'[u] = current_bit[u]
           /\ result'[u] = result[u],
         NEW u \in Threads \ {t}
  PROVE  WalkOK(u)' /\ DoneOK(u)'
<1> DEFINE k == result[u].netmask
           a == AddressOf(sockaddr[u])
<1>1. /\ pc'[u] = pc[u] /\ sockaddr'[u] = sockaddr[u] /\ address'[u] = address[u]
      /\ value'[u] = value[u] /\ current_bit'[u] = current_bit[u]
      /\ result'[u] = result[u] /\ node_count' = node_count
  BY DEF db
<1>2. /\ depth' = depth
      /\ AddressOf(sockaddr[u])' = a
      /\ FamilyError(sockaddr[u])' = FamilyError(sockaddr[u])
      /\ RootPath(address[u])' = RootPath(address[u])
      /\ RootPath(AddressOf(sockaddr[u]))' = RootPath(a)
  <2>1. db' = db
    OBVIOUS
  <2>2. ip_version' = ip_version /\ tree' = tree
    BY DEF db
  <2>3. depth' = depth
    BY ReferenceUnchanged
  <2>4. AddressOf(sockaddr[u])' = a /\ FamilyError(sockaddr[u])' = FamilyError(sockaddr[u])
    BY <1>1, <2>2 DEF AddressOf, FamilyError
  <2>5. RootPath(address[u])' = RootPath(address[u])
    BY <1>1, <2>2, <2>3 DEF RootPath
  <2>6. RootPath(AddressOf(sockaddr[u]))' = RootPath(a)
    BY <1>1, <2>2, <2>3, <2>4 DEF RootPath
  <2> QED BY <2>3, <2>4, <2>5, <2>6
<1>3. ASSUME pc'[u] = "walk"
      PROVE  /\ FamilyError(sockaddr[u])' = "MMDB_SUCCESS"
             /\ address'[u] = AddressOf(sockaddr[u])'
             /\ current_bit'[u] \in 0 .. depth'
             /\ OnPath(address[u], value[u], current_bit[u])'
  BY <1>1, <1>2, <1>3 DEF IndInv, WalkOnPath, WalkOK, OnPath
<1>4. ASSUME Finished(u)'
      PROVE  /\ LeavesTreeAt(RootPath(AddressOf(sockaddr[u])), result[u].netmask)'
             /\ result'[u] = Outcome(RootPath(AddressOf(sockaddr[u]))[result[u].netmask],
                                     result[u].netmask)'
  <2>1. Finished(u)
    BY <1>1, <1>2, <1>4 DEF Finished
  <2>2. LeavesTreeAt(RootPath(a), k) /\ result[u] = Outcome(RootPath(a)[k], k)
    BY <2>1 DEF IndInv, DoneOnPath, DoneOK
  <2>3. LeavesTreeAt(RootPath(AddressOf(sockaddr[u])), result[u].netmask)'
    BY <1>1, <1>2, <2>2 DEF LeavesTreeAt
  <2>4. Outcome(RootPath(AddressOf(sockaddr[u]))[result[u].netmask], result[u].netmask)'
          = Outcome(RootPath(a)[k], k)
    BY <1>1, <1>2 DEF Outcome, record_type, data_section_offset_for_record
  <2> QED BY <1>1, <2>2, <2>3, <2>4
<1> QED BY <1>3, <1>4 DEF WalkOK, DoneOK

\* A step of thread t keeps the invariant if it leaves the handle and the other
\* threads alone and thread t on its path.
LEMMA ThreadStep ==
  ASSUME IndInv, TypeOK', UNCHANGED <<db, start>>, NEW t \in Threads,
         \A u \in Threads \ {t} :
           /\ pc'[u] = pc[u] /\ sockaddr'[u] = sockaddr[u] /\ address'[u] = address[u]
           /\ value'[u] = value[u] /\ current_bit'[u] = current_bit[u]
           /\ result'[u] = result[u],
         WalkOK(t)', DoneOK(t)'
  PROVE  IndInv'
<1>1. StartOnPath'
  BY StartUnchanged DEF IndInv
<1>2. \A u \in Threads \ {t} : WalkOK(u)' /\ DoneOK(u)'
  BY OthersUnchanged
<1>3. \A u \in Threads : WalkOK(u)' /\ DoneOK(u)'
  BY <1>2
<1>4. WalkOnPath' /\ DoneOnPath'
  BY <1>3 DEF WalkOnPath, DoneOnPath
<1> QED BY <1>1, <1>4 DEF IndInv

\* A call that returns without a walk.
LEMMA ReturnsAtOnce ==
  ASSUME IndInv, NEW t \in Threads, NEW s \in Sockaddr, NEW r \in ResultType,
         FamilyError(s) # "MMDB_SUCCESS", Return(t, r),
         sockaddr' = [sockaddr EXCEPT ![t] = s],
         address' = [address EXCEPT ![t] = << >>],
         UNCHANGED <<db, start, phase, node>>
  PROVE  IndInv'
<1>1. TypeOK
  BY DEF IndInv
<1>2. depth' = depth
  BY ReferenceUnchanged
<1>3. /\ pc'[t] = "done" /\ sockaddr'[t] = s
      /\ \A u \in Threads \ {t} :
           /\ pc'[u] = pc[u] /\ sockaddr'[u] = sockaddr[u] /\ address'[u] = address[u]
           /\ value'[u] = value[u] /\ current_bit'[u] = current_bit[u]
  BY <1>1 DEF TypeOK, Return
<1>4. TypeOK'
  <2>1. /\ pc' \in [Threads -> {"idle", "walk", "done"}] /\ sockaddr' \in [Threads -> Sockaddr]
        /\ value' \in [Threads -> 0 .. (U32 - 1)]
        /\ current_bit' \in [Threads -> 0 .. (V4Prefix + V4Bits)]
        /\ address' \in [Threads -> {<< >>} \cup [0 .. (depth - 1) -> Bit]]
        /\ result' \in [Threads -> ResultType]
    BY <1>1, TreeAssumption DEF TypeOK, Return
  <2>2. \A u \in Threads : pc'[u] = "walk" => address'[u] \in [0 .. (depth' - 1) -> Bit]
    BY <1>1, <1>2, <1>3 DEF TypeOK
  <2> QED BY <1>1, <1>2, <2>1, <2>2 DEF TypeOK, db, start
<1>5. WalkOK(t)'
  BY <1>3 DEF WalkOK
<1>6. FamilyError(sockaddr[t])' # "MMDB_SUCCESS"
  BY <1>3 DEF FamilyError, db
<1>7. DoneOK(t)'
  BY <1>6 DEF DoneOK, Finished
<1>8. \A u \in Threads \ {t} : result'[u] = result[u]
  BY <1>1 DEF Return, TypeOK
<1> QED BY <1>3, <1>4, <1>5, <1>7, <1>8, ThreadStep

\* The start of a lookup: at the root, or at the cached start node, which is on
\* the path of every address that begins with the ::/96 bits.
LEMMA LookupStartsHolds ==
  ASSUME IndInv, NEW t \in Threads, NEW s \in Sockaddr, LookupStarts(t, s)
  PROVE  IndInv'
<1> DEFINE a == AddressOf(s)
           v4in6 == ip_version = 6 /\ s.family = "AF_INET"
           v == IF v4in6 THEN start_value ELSE 0
           k == IF v4in6 THEN start_netmask ELSE 0
<1>1. TypeOK /\ StartOnPath
  BY DEF IndInv
<1>2. /\ pc' = [pc EXCEPT ![t] = "walk"] /\ sockaddr' = [sockaddr EXCEPT ![t] = s]
      /\ address' = [address EXCEPT ![t] = a]
      /\ value' = [value EXCEPT ![t] = v] /\ current_bit' = [current_bit EXCEPT ![t] = k]
      /\ result' = [result EXCEPT ![t] = NoResult]
      /\ FamilyError(s) = "MMDB_SUCCESS" /\ UNCHANGED <<db, start, phase, node>>
  BY DEF LookupStarts
<1>3. a \in [0 .. (depth - 1) -> Bit] /\ depth \in Nat /\ depth' = depth
  BY <1>1, <1>2, AddressType, DepthIsNat, ReferenceUnchanged
<1>4. v \in 0 .. (U32 - 1) /\ k \in 0 .. depth /\ k \in 0 .. (V4Prefix + V4Bits)
  BY <1>1, TreeAssumption DEF TypeOK, depth
<1>5. OnPath(a, v, k)
  <2>1. CASE v4in6
    <3>1. \A i \in 0 .. (V4Prefix - 1) : a[i] = 0
      BY <2>1, TreeAssumption DEF AddressOf, mapped_address
    <3> QED BY <2>1, <3>1, <1>1, <1>3 DEF StartOnPath
  <2>2. CASE ~v4in6
    <3>1. RootPath(a)[0] = 0
      BY <1>3, RootPathUnfolds
    <3> QED BY <2>2, <3>1 DEF OnPath
  <2> QED BY <2>1, <2>2
<1> HIDE DEF a, v, k, v4in6
<1>6. /\ pc'[t] = "walk" /\ sockaddr'[t] = s /\ address'[t] = a
      /\ value'[t] = v /\ current_bit'[t] = k
      /\ \A u \in Threads \ {t} :
           /\ pc'[u] = pc[u] /\ sockaddr'[u] = sockaddr[u] /\ address'[u] = address[u]
           /\ value'[u] = value[u] /\ current_bit'[u] = current_bit[u]
           /\ result'[u] = result[u]
  BY <1>1, <1>2 DEF TypeOK
<1>7. TypeOK'
  <2>1. NoResult \in ResultType
    BY TreeAssumption DEF NoResult, Result, ResultType
  <2>2. /\ pc' \in [Threads -> {"idle", "walk", "done"}] /\ sockaddr' \in [Threads -> Sockaddr]
        /\ value' \in [Threads -> 0 .. (U32 - 1)]
        /\ current_bit' \in [Threads -> 0 .. (V4Prefix + V4Bits)]
        /\ address' \in [Threads -> {<< >>} \cup [0 .. (depth - 1) -> Bit]]
        /\ result' \in [Threads -> ResultType]
    BY <1>1, <1>2, <1>3, <1>4, <2>1 DEF TypeOK
  <2>3. \A u \in Threads : pc'[u] = "walk" => address'[u] \in [0 .. (depth' - 1) -> Bit]
    BY <1>1, <1>3, <1>6 DEF TypeOK
  <2> QED BY <1>1, <1>2, <1>3, <2>2, <2>3 DEF TypeOK, db, start
<1>8. WalkOK(t)'
  <2>1. UNCHANGED <<node_count, ip_version, tree>>
    BY <1>2 DEF db
  <2>2. AddressOf(sockaddr[t])' = a /\ FamilyError(sockaddr[t])' = "MMDB_SUCCESS"
    BY <1>2, <1>6, <2>1 DEF AddressOf, FamilyError, a
  <2>3. OnPath(address[t], value[t], current_bit[t])'
    <3>1. RootPath(address[t])' = RootPath(a)
      BY <1>3, <1>6, <2>1 DEF RootPath
    <3> QED BY <1>5, <1>6, <2>1, <3>1 DEF OnPath
  <2> QED BY <1>3, <1>4, <1>6, <2>2, <2>3 DEF WalkOK
<1>9. DoneOK(t)'
  BY <1>6 DEF DoneOK, Finished
<1> QED BY <1>2, <1>6, <1>7, <1>8, <1>9, ThreadStep

\* An iteration of find_address_in_search_tree's loop.
LEMMA WalkStepHolds ==
  ASSUME IndInv, NEW t \in Threads, WalkStep(t)
  PROVE  IndInv'
<1> DEFINE a == address[t]
           k == current_bit[t]
           v == value[t]
           w == tree[v][a[k]]
<1>1. TypeOK /\ WalkOK(t)
  BY DEF IndInv, WalkOnPath
<1>2. /\ pc[t] = "walk" /\ v \in Nat /\ k \in Nat /\ k < depth /\ v < node_count
      /\ a \in [0 .. (depth - 1) -> Bit] /\ depth \in Nat /\ node_count \in Nat
  BY <1>1, DepthIsNat DEF WalkStep, InTree, TypeOK
<1>3. /\ value' = [value EXCEPT ![t] = w]
      /\ current_bit' = [current_bit EXCEPT ![t] = k + 1]
      /\ UNCHANGED <<pc, result, sockaddr, address, node, phase>> /\ UNCHANGED <<db, start>>
  BY <1>2, NodeIsBeforeData DEF WalkStep
<1>4. k \in 0 .. (depth - 1) /\ a[k] \in Bit
  BY <1>2
<1>5. w \in 0 .. (U32 - 1)
  BY <1>1, <1>2, <1>4, RecordType
<1>6. OnPath(a, w, k + 1)
  BY <1>1, <1>2, <1>4, OnPathStep DEF WalkOK
<1>7. k + 1 \in 0 .. (V4Prefix + V4Bits) /\ k + 1 \in 0 .. depth
  BY <1>2, TreeAssumption DEF depth
<1> HIDE DEF w, a, k
<1>8. /\ value'[t] = w /\ current_bit'[t] = k + 1
      /\ \A u \in Threads \ {t} : value'[u] = value[u] /\ current_bit'[u] = current_bit[u]
  BY <1>1, <1>3 DEF TypeOK
<1>9. depth' = depth
  BY <1>3, ReferenceUnchanged
<1>10. TypeOK'
  <2>1. value' \in [Threads -> 0 .. (U32 - 1)]
        /\ current_bit' \in [Threads -> 0 .. (V4Prefix + V4Bits)]
    BY <1>1, <1>3, <1>5, <1>7 DEF TypeOK
  <2> QED BY <1>1, <1>3, <1>9, <2>1 DEF TypeOK, db, start
<1>11. WalkOK(t)'
  <2>1. UNCHANGED <<node_count, ip_version, tree>>
    BY <1>3 DEF db
  <2>2. /\ AddressOf(sockaddr[t])' = AddressOf(sockaddr[t])
        /\ FamilyError(sockaddr[t])' = FamilyError(sockaddr[t])
    BY <1>3, <2>1 DEF AddressOf, FamilyError
  <2>3. OnPath(address[t], value[t], current_bit[t])'
    <3>1. RootPath(address[t])' = RootPath(a)
      BY <1>3, <1>9, <2>1 DEF RootPath, a
    <3> QED BY <1>6, <1>8, <2>1, <3>1 DEF OnPath
  <2> QED BY <1>1, <1>2, <1>3, <1>7, <1>8, <1>9, <2>2, <2>3 DEF WalkOK
<1>12. DoneOK(t)'
  BY <1>2, <1>3 DEF DoneOK, Finished
<1> QED BY <1>3, <1>8, <1>10, <1>11, <1>12, ThreadStep

\* What a walk returns has the type of MMDB_lookup_result_s.
LEMMA OutcomeType ==
  ASSUME TypeOK, NEW v \in 0 .. (U32 - 1), NEW k \in 0 .. (V4Prefix + V4Bits)
  PROVE  Outcome(v, k) \in ResultType /\ Outcome(v, k).netmask = k
<1>1. node_count \in Nat /\ MMDB_DATA_SECTION_SEPARATOR \in Nat /\ U32 \in Nat \ {0}
  BY TreeAssumption DEF TypeOK
<1>2. data_section_offset_for_record(v) \in 0 .. (U32 - 1)
  BY <1>1 DEF data_section_offset_for_record
<1> QED BY <1>1, <1>2 DEF Outcome, Result, ResultType

\* The end of the loop: the walk left the tree, or the address is used up.
LEMMA WalkEndHolds ==
  ASSUME IndInv, NEW t \in Threads, WalkEnd(t)
  PROVE  IndInv'
<1> DEFINE a == address[t]
           k == current_bit[t]
           v == value[t]
           r == Outcome(v, k)
<1>1. TypeOK /\ WalkOK(t)
  BY DEF IndInv, WalkOnPath
<1>2. /\ pc[t] = "walk" /\ ~InTree(t) /\ v \in 0 .. (U32 - 1)
      /\ k \in 0 .. (V4Prefix + V4Bits) /\ depth \in Nat /\ node_count \in Nat
  BY <1>1, DepthIsNat DEF WalkEnd, TypeOK
<1>3. /\ pc' = [pc EXCEPT ![t] = "done"] /\ result' = [result EXCEPT ![t] = r]
      /\ value' = [value EXCEPT ![t] = 0] /\ current_bit' = [current_bit EXCEPT ![t] = 0]
      /\ UNCHANGED <<sockaddr, address, node, phase>> /\ UNCHANGED <<db, start>>
  BY DEF WalkEnd, Return
<1>4. /\ FamilyError(sockaddr[t]) = "MMDB_SUCCESS" /\ a = AddressOf(sockaddr[t])
      /\ k \in 0 .. depth /\ OnPath(a, v, k)
  BY <1>1, <1>2 DEF WalkOK
<1>5. LeavesTreeAt(RootPath(a), k) /\ r = Outcome(RootPath(a)[k], k)
  <2>1. RootPath(a)[k] = v /\ \A j \in 0 .. (k - 1) : RootPath(a)[j] < node_count
    BY <1>4 DEF OnPath
  <2>2. k = depth \/ v >= node_count
    BY <1>2, <1>4 DEF InTree
  <2> QED BY <1>4, <2>1, <2>2 DEF LeavesTreeAt
<1>6. r \in ResultType /\ r.netmask = k
  BY <1>1, <1>2, OutcomeType
<1>7. depth' = depth
  BY <1>3, ReferenceUnchanged
<1> HIDE DEF a, k, v, r
<1>8. /\ pc'[t] = "done" /\ result'[t] = r
      /\ \A u \in Threads \ {t} :
           /\ pc'[u] = pc[u] /\ value'[u] = value[u] /\ current_bit'[u] = current_bit[u]
           /\ result'[u] = result[u]
  BY <1>1, <1>3 DEF TypeOK
<1>9. TypeOK'
  <2>1. /\ pc' \in [Threads -> {"idle", "walk", "done"}]
        /\ value' \in [Threads -> 0 .. (U32 - 1)]
        /\ current_bit' \in [Threads -> 0 .. (V4Prefix + V4Bits)]
        /\ result' \in [Threads -> ResultType]
    BY <1>1, <1>3, <1>6, TreeAssumption DEF TypeOK
  <2>2. \A u \in Threads : pc'[u] = "walk" => address'[u] \in [0 .. (depth' - 1) -> Bit]
    BY <1>1, <1>3, <1>7, <1>8 DEF TypeOK
  <2> QED BY <1>1, <1>3, <1>7, <2>1, <2>2 DEF TypeOK, db, start
<1>10. WalkOK(t)'
  BY <1>8 DEF WalkOK
<1>11. DoneOK(t)'
  <2>1. UNCHANGED <<node_count, ip_version, tree>>
    BY <1>3 DEF db
  <2>2. AddressOf(sockaddr[t])' = a
    BY <1>3, <1>4, <2>1 DEF AddressOf
  <2>3. RootPath(AddressOf(sockaddr[t]))' = RootPath(a)
    BY <1>7, <2>1, <2>2 DEF RootPath
  <2>4. result'[t].netmask = k
    BY <1>6, <1>8
  <2>5. LeavesTreeAt(RootPath(AddressOf(sockaddr[t])), result[t].netmask)'
    BY <1>5, <1>7, <2>1, <2>3, <2>4 DEF LeavesTreeAt
  <2>6. Outcome(RootPath(AddressOf(sockaddr[t]))[result[t].netmask], result[t].netmask)'
          = Outcome(RootPath(a)[k], k)
    BY <2>1, <2>3, <2>4 DEF Outcome, record_type, data_section_offset_for_record
  <2> QED BY <1>5, <1>8, <2>5, <2>6 DEF DoneOK
<1> QED BY <1>3, <1>8, <1>9, <1>10, <1>11, ThreadStep

\* Steps that only share the handle, read a node or do nothing.
LEMMA LookupsUnchanged ==
  ASSUME IndInv, phase' \in Phase, UNCHANGED <<db, start>>,
         UNCHANGED <<pc, sockaddr, address, value, current_bit, result>>
  PROVE  IndInv'
<1>1. depth' = depth
  BY ReferenceUnchanged
<1>2. TypeOK'
  BY <1>1 DEF IndInv, TypeOK, db, start
<1>3. StartOnPath'
  BY StartUnchanged DEF IndInv
<1>4. ASSUME NEW t \in Threads PROVE WalkOK(t)' /\ DoneOK(t)'
  <2>1. WalkOK(t) /\ DoneOK(t)
    BY DEF IndInv, WalkOnPath, DoneOnPath
  <2>2. UNCHANGED <<node_count, ip_version, tree>>
    BY DEF db
  <2>3. /\ AddressOf(sockaddr[t])' = AddressOf(sockaddr[t])
        /\ FamilyError(sockaddr[t])' = FamilyError(sockaddr[t])
    BY <2>2 DEF AddressOf, FamilyError
  <2>4. /\ RootPath(address[t])' = RootPath(address[t])
        /\ RootPath(AddressOf(sockaddr[t]))' = RootPath(AddressOf(sockaddr[t]))
    BY <1>1, <2>2, <2>3 DEF RootPath
  <2>5. OnPath(address[t], value[t], current_bit[t])' <=> OnPath(address[t], value[t], current_bit[t])
    BY <2>2, <2>4 DEF OnPath
  <2>6. WalkOK(t)'
    BY <1>1, <2>1, <2>3, <2>5 DEF WalkOK
  <2>7. LeavesTreeAt(RootPath(AddressOf(sockaddr[t])), result[t].netmask)'
          <=> LeavesTreeAt(RootPath(AddressOf(sockaddr[t])), result[t].netmask)
    BY <1>1, <2>2, <2>4 DEF LeavesTreeAt
  <2>8. Outcome(RootPath(AddressOf(sockaddr[t]))[result[t].netmask], result[t].netmask)'
          = Outcome(RootPath(AddressOf(sockaddr[t]))[result[t].netmask], result[t].netmask)
    BY <2>2, <2>4 DEF Outcome, record_type, data_section_offset_for_record
  <2>9. DoneOK(t)'
    BY <2>1, <2>3, <2>7, <2>8 DEF DoneOK, Finished
  <2> QED BY <2>6, <2>9
<1>5. WalkOnPath' /\ DoneOnPath'
  BY <1>4 DEF WalkOnPath, DoneOnPath
<1> QED BY <1>2, <1>3, <1>5 DEF IndInv

\* Every step, of MMDB_open and of any thread, keeps the invariant.
LEMMA NextHolds == IndInv /\ [Next]_vars => IndInv'
<1> SUFFICES ASSUME IndInv, [Next]_vars PROVE IndInv'
  OBVIOUS
<1>1. TypeOK /\ phase \in Phase
  BY DEF IndInv, TypeOK
<1>2. CASE FindStartStep
  BY <1>2, FindStartStepHolds
<1>3. CASE MMDB_open_returns
  BY <1>3, LookupsUnchanged DEF MMDB_open_returns, Phase
<1>4. ASSUME NEW t \in Threads, LookupStringGaiError(t) PROVE IndInv'
  <2> DEFINE s == [family |-> "AF_UNSPEC", bits |-> << >>]
  <2>1. s \in Sockaddr /\ FamilyError(s) # "MMDB_SUCCESS"
    BY DEF Sockaddr, FamilyError
  <2>2. NoResult \in ResultType
    BY TreeAssumption DEF NoResult, Result, ResultType
  <2>3. /\ sockaddr' = [sockaddr EXCEPT ![t] = s] /\ address' = [address EXCEPT ![t] = << >>]
        /\ Return(t, NoResult) /\ UNCHANGED <<db, start, phase, node>>
    BY <1>4 DEF LookupStringGaiError
  <2> HIDE DEF s
  <2> QED BY <2>1, <2>2, <2>3, ReturnsAtOnce
<1>5. ASSUME NEW t \in Threads, NEW s \in Sockaddr, MMDB_lookup_sockaddr(t, s) PROVE IndInv'
  <2>1. CASE LookupRejected(t, s)
    <3>1. Result(FamilyError(s), FALSE, 0, 0) \in ResultType
      BY TreeAssumption DEF FamilyError, Result, ResultType
    <3> QED BY <2>1, <3>1, ReturnsAtOnce DEF LookupRejected
  <2>2. CASE LookupStarts(t, s)
    BY <2>2, LookupStartsHolds
  <2> QED BY <1>5, <2>1, <2>2 DEF MMDB_lookup_sockaddr
<1>6. ASSUME NEW t \in Threads, WalkStep(t) PROVE IndInv'
  BY <1>6, WalkStepHolds
<1>7. ASSUME NEW t \in Threads, WalkEnd(t) PROVE IndInv'
  BY <1>7, WalkEndHolds
<1>8. ASSUME NEW t \in Threads, NEW n \in NodeNumbers, MMDB_read_node(t, n) PROVE IndInv'
  BY <1>1, <1>8, LookupsUnchanged DEF MMDB_read_node
<1>9. CASE UNCHANGED vars
  BY <1>1, <1>9, LookupsUnchanged DEF vars, db, start
<1> QED BY <1>2, <1>3, <1>4, <1>5, <1>6, <1>7, <1>8, <1>9 DEF Next

\* The inductive invariant: the start node, and every walk under way or done,
\* is on the path from the root that its address prescribes.
THEOREM LookupInvariant == SafetySpec => []IndInv
BY InitHolds, NextHolds, PTL DEF SafetySpec

\* Types: a walk never uses a bit the address does not have, and every record
\* value and offset fits in 32 bits.
THEOREM LookupTypeCorrect == SafetySpec => []TypeOK
BY LookupInvariant, PTL DEF IndInv

\* All records of a reference walk are numbers, by induction on the bits.
LEMMA PathIsNat ==
  ASSUME TypeOK, NEW a \in [0 .. (depth - 1) -> Bit]
  PROVE  \A k \in 0 .. depth : RootPath(a)[k] \in Nat
<1> DEFINE T == {m \in 0 .. depth : RootPath(a)[m] \notin Nat}
<1>1. depth \in Nat /\ node_count \in Nat
  BY DepthIsNat DEF TypeOK
<1>2. SUFFICES ASSUME T # {} PROVE FALSE
  OBVIOUS
<1>3. PICK m \in T : \A j \in T : m <= j
  <2>1. T \in SUBSET Nat
    OBVIOUS
  <2> HIDE DEF T
  <2> QED BY <1>2, <2>1, LeastNumber
<1>4. m \in 0 .. depth /\ RootPath(a)[m] \notin Nat /\ m # 0
  BY <1>1, <1>3, RootPathUnfolds
<1>5. m - 1 \in 0 .. depth /\ m - 1 \in 0 .. (depth - 1) /\ m - 1 \notin T
  BY <1>1, <1>3, <1>4
<1>6. RootPath(a)[m - 1] \in Nat
  BY <1>5
<1>7. RootPath(a)[m] = StepOf(a, RootPath(a)[m - 1], m - 1)
  <2>1. m - 1 + 1 = m
    BY <1>4
  <2> QED BY <1>1, <1>5, <2>1, RootPathUnfolds
<1>8. a[m - 1] \in Bit
  BY <1>5
<1>9. RootPath(a)[m] \in Nat
  BY <1>1, <1>6, <1>7, <1>8, RecordType, TreeAssumption DEF StepOf
<1> QED BY <1>4, <1>9

\* A finished walk on the path of its address has the right result.
LEMMA CorrectFromInv == IndInv => LookupIsCorrect
<1> SUFFICES ASSUME IndInv, NEW t \in Threads, pc[t] = "done",
                    FamilyError(sockaddr[t]) = "MMDB_SUCCESS"
             PROVE  LET r == result[t]
                        p == RootPath(AddressOf(sockaddr[t]))
                        data == p[r.netmask] - node_count - MMDB_DATA_SECTION_SEPARATOR
                    IN /\ LeavesTreeAt(p, r.netmask)
                       /\ r.mmdb_error = "MMDB_SUCCESS" /\ ~r.found_entry
                            <=> p[r.netmask] = node_count
                       /\ data \in 0 .. (DataSize - 1) =>
                            r.mmdb_error = "MMDB_SUCCESS" /\ r.found_entry /\ r.offset = data
                       /\ p[r.netmask] >= node_count /\ r.mmdb_error = "MMDB_SUCCESS"
                            /\ r.found_entry => data \in 0 .. (DataSize - 1)
  BY DEF LookupIsCorrect
<1> DEFINE r == result[t]
           p == RootPath(AddressOf(sockaddr[t]))
           k == r.netmask
           v == p[k]
           data == v - node_count - MMDB_DATA_SECTION_SEPARATOR
<1>1. LeavesTreeAt(p, k) /\ r = Outcome(v, k)
  BY DEF IndInv, DoneOnPath, DoneOK, Finished
<1>2. /\ node_count \in Nat \ {0} /\ MMDB_DATA_SECTION_SEPARATOR \in Nat \ {0}
      /\ DataSize \in Nat \ {0} /\ U32 \in Nat \ {0}
      /\ node_count + MMDB_DATA_SECTION_SEPARATOR + DataSize <= U32
  BY TreeAssumption DEF IndInv, TypeOK
<1>3. v \in Nat
  <2>1. AddressOf(sockaddr[t]) \in [0 .. (depth - 1) -> Bit] /\ k \in 0 .. depth
    BY <1>1, AddressType DEF IndInv, TypeOK, LeavesTreeAt
  <2> QED BY <2>1, PathIsNat DEF IndInv
<1> HIDE DEF v, r, k
<1>4. /\ r = Outcome(v, k)
      /\ data \in 0 .. (DataSize - 1) => data % U32 = data
  BY <1>1, <1>2, <1>3
<1>5. r.mmdb_error = "MMDB_SUCCESS" /\ ~r.found_entry <=> v = node_count
  BY <1>2, <1>3, <1>4 DEF Outcome, Result, record_type
<1>6. ASSUME data \in 0 .. (DataSize - 1)
      PROVE  r.mmdb_error = "MMDB_SUCCESS" /\ r.found_entry /\ r.offset = data
  <2>1. record_type(v) = "DATA"
    BY <1>2, <1>3, <1>6 DEF record_type
  <2> QED BY <1>4, <1>6, <2>1 DEF Outcome, Result, data_section_offset_for_record
<1>7. ASSUME v >= node_count, r.mmdb_error = "MMDB_SUCCESS", r.found_entry
      PROVE  data \in 0 .. (DataSize - 1)
  <2>1. record_type(v) # "INVALID" /\ record_type(v) # "EMPTY"
    BY <1>4, <1>7 DEF Outcome, Result
  <2> QED BY <1>2, <1>3, <1>7, <2>1 DEF record_type
<1> QED BY <1>1, <1>5, <1>6, <1>7 DEF v, r, k

\* In any tree, cyclic or otherwise damaged, and for any number of concurrent
\* lookups, a lookup returns what the records along its own address say.
THEOREM LookupsAreCorrect == SafetySpec => []LookupIsCorrect
BY LookupInvariant, CorrectFromInv, PTL

\* A path leaves the tree at one place only.
LEMMA LeavesOnce ==
  ASSUME NEW p, NEW j, NEW k, depth \in Nat, LeavesTreeAt(p, j), LeavesTreeAt(p, k),
         \A i \in 0 .. depth : p[i] \in Nat, node_count \in Nat
  PROVE  j = k
<1>1. j \in 0 .. depth /\ k \in 0 .. depth
  BY DEF LeavesTreeAt
<1>2. ~(j < k)
  BY <1>1 DEF LeavesTreeAt
<1>3. ~(k < j)
  BY <1>1 DEF LeavesTreeAt
<1> QED BY <1>1, <1>2, <1>3

\* Two finished walks on one path have the same result.
LEMMA MappedFromInv == IndInv => MappedFormsAgree
<1> SUFFICES ASSUME IndInv, NEW t \in Threads, NEW u \in Threads,
                    ip_version = 6, pc[t] = "done", pc[u] = "done",
                    sockaddr[t].family = "AF_INET", sockaddr[u].family = "AF_INET6",
                    sockaddr[u].bits = mapped_address(sockaddr[t].bits)
             PROVE  result[t] = result[u]
  BY DEF MappedFormsAgree
<1> DEFINE a == AddressOf(sockaddr[t])
<1>1. AddressOf(sockaddr[u]) = a
  BY DEF AddressOf
<1>2. FamilyError(sockaddr[t]) = "MMDB_SUCCESS" /\ FamilyError(sockaddr[u]) = "MMDB_SUCCESS"
  BY DEF FamilyError
<1>3. TypeOK /\ depth \in Nat /\ node_count \in Nat /\ a \in [0 .. (depth - 1) -> Bit]
  <2>1. TypeOK /\ sockaddr[t] \in Sockaddr
    BY DEF IndInv, TypeOK
  <2>2. depth \in Nat /\ node_count \in Nat
    BY <2>1, DepthIsNat DEF TypeOK
  <2>3. a \in [0 .. (depth - 1) -> Bit]
    BY <1>2, <2>1, AddressType
  <2> QED BY <2>1, <2>2, <2>3
<1>4. \A i \in 0 .. depth : RootPath(a)[i] \in Nat
  BY <1>3, PathIsNat
<1>5. /\ LeavesTreeAt(RootPath(a), result[t].netmask)
      /\ result[t] = Outcome(RootPath(a)[result[t].netmask], result[t].netmask)
      /\ LeavesTreeAt(RootPath(a), result[u].netmask)
      /\ result[u] = Outcome(RootPath(a)[result[u].netmask], result[u].netmask)
  BY <1>1, <1>2 DEF IndInv, DoneOnPath, DoneOK, Finished
<1>6. result[t].netmask = result[u].netmask
  BY <1>3, <1>4, <1>5, LeavesOnce
<1> QED BY <1>5, <1>6

\* The shortcut through the cached start node is invisible: an IPv4 address and
\* its ::a.b.c.d get the same result from any two threads.
THEOREM MappedFormsGetOneAnswer == SafetySpec => []MappedFormsAgree
BY LookupInvariant, MappedFromInv, PTL

-------------------------------------------------------------------------------
\* What a successful MMDB_read_node leaves with its caller: a node of the tree,
\* both of whose records are valid, with their types and offsets.
NodeIsOfTree(x) ==
  x.status = "MMDB_SUCCESS" =>
    /\ x.number \in 0 .. (node_count - 1)
    /\ \A b \in Bit :
         /\ record_type(tree[x.number][b]) # "INVALID"
         /\ x.type[b] = record_type(tree[x.number][b])
         /\ x.offset[b] = data_section_offset_for_record(tree[x.number][b])

NodesAreOfTree == /\ node = [t \in Threads |-> node[t]]
                  /\ \A t \in Threads : NodeIsOfTree(node[t])

\* MMDB_read_node returns a node of the tree or an error.
LEMMA ReadNodeIsOfTree ==
  ASSUME TypeOK, NEW n \in Nat
  PROVE  NodeIsOfTree(ReadNode(n))
<1> DEFINE type == [b \in Bit |-> record_type(tree[n][b])]
           x == ReadNode(n)
<1>1. node_count \in Nat
  BY DEF TypeOK
<1>2. CASE n >= node_count
  BY <1>2 DEF ReadNode, NodeIsOfTree
<1>3. CASE n < node_count /\ (PastTree(n) \/ \E b \in Bit : type[b] = "INVALID")
  <2>1. x.status = "MMDB_CORRUPT_SEARCH_TREE_ERROR"
    BY <1>1, <1>3 DEF ReadNode
  <2> QED BY <2>1 DEF NodeIsOfTree
<1>4. CASE n < node_count /\ ~(PastTree(n) \/ \E b \in Bit : type[b] = "INVALID")
  <2>1. /\ x.number = n /\ x.type = type
        /\ x.offset = [b \in Bit |-> data_section_offset_for_record(tree[n][b])]
    BY <1>1, <1>4 DEF ReadNode
  <2>2. \A b \in Bit : record_type(tree[n][b]) # "INVALID"
    BY <1>4
  <2>3. n \in 0 .. (node_count - 1)
    BY <1>1, <1>4
  <2> HIDE DEF x
  <2>4. NodeIsOfTree(x)
    BY <2>1, <2>2, <2>3 DEF NodeIsOfTree
  <2> QED BY <2>4 DEF x
<1> QED BY <1>1, <1>2, <1>3, <1>4

\* The tree never changes, so a node once read stays a node of the tree.
LEMMA NodeStaysOfTree ==
  ASSUME UNCHANGED db, NEW x, NodeIsOfTree(x)
  PROVE  NodeIsOfTree(x)'
<1>1. node_count' = node_count /\ tree' = tree
  BY DEF db
<1>2. \A r : /\ record_type(r)' = record_type(r)
             /\ data_section_offset_for_record(r)' = data_section_offset_for_record(r)
  BY <1>1 DEF record_type, data_section_offset_for_record
<1> QED BY <1>1, <1>2 DEF NodeIsOfTree

\* Every step leaves every thread with nodes of the tree.
LEMMA NodesStayOfTree ==
  ASSUME TypeOK, NodesAreOfTree, [Next]_vars
  PROVE  NodesAreOfTree'
<1>1. CASE UNCHANGED <<db, node>>
  BY <1>1, NodeStaysOfTree DEF NodesAreOfTree, NodeIsOfTree
<1>2. ASSUME NEW t \in Threads, NEW n \in NodeNumbers, MMDB_read_node(t, n)
      PROVE  NodesAreOfTree'
  <2>1. node' = [node EXCEPT ![t] = ReadNode(n)] /\ UNCHANGED db
    BY <1>2 DEF MMDB_read_node
  <2>2. n \in Nat
    BY TreeAssumption
  <2>3. /\ node' = [u \in Threads |-> node'[u]]
        /\ \A u \in Threads : node'[u] = IF u = t THEN ReadNode(n) ELSE node[u]
    BY <2>1 DEF NodesAreOfTree
  <2>4. ASSUME NEW u \in Threads PROVE NodeIsOfTree(node[u])'
    <3> DEFINE x == IF u = t THEN ReadNode(n) ELSE node[u]
    <3>1. NodeIsOfTree(x)
      BY <2>2, ReadNodeIsOfTree DEF NodesAreOfTree
    <3> HIDE DEF x
    <3>2. node'[u] = x
      BY <2>3 DEF x
    <3>3. node_count' = node_count /\ tree' = tree
      BY <2>1 DEF db
    <3>4. \A r : /\ record_type(r)' = record_type(r)
                 /\ data_section_offset_for_record(r)' = data_section_offset_for_record(r)
      BY <3>3 DEF record_type, data_section_offset_for_record
    <3> QED BY <3>1, <3>2, <3>3, <3>4 DEF NodeIsOfTree
  <2> QED BY <2>3, <2>4 DEF NodesAreOfTree
<1>3. CASE UNCHANGED vars
  BY <1>1, <1>3 DEF vars, db
<1>4. CASE FindStartStep \/ MMDB_open_returns
  BY <1>1, <1>4 DEF FindStartStep, MMDB_open_returns
<1>5. ASSUME NEW t \in Threads,
             LookupStringGaiError(t) \/ (\E s \in Sockaddr : MMDB_lookup_sockaddr(t, s))
               \/ WalkStep(t) \/ WalkEnd(t)
      PROVE  NodesAreOfTree'
  BY <1>1, <1>5 DEF LookupStringGaiError, MMDB_lookup_sockaddr, LookupRejected,
                    LookupStarts, WalkStep, WalkEnd
<1> QED BY <1>2, <1>3, <1>4, <1>5 DEF Next

\* Every node a client holds is a node of the tree, whatever other threads do.
THEOREM NodeInvariant == SafetySpec => []NodesAreOfTree
<1>1. Init => NodesAreOfTree
  BY DEF Init, NodesAreOfTree, NodeIsOfTree, NoNode
<1>2. TypeOK /\ NodesAreOfTree /\ [Next]_vars => NodesAreOfTree'
  BY NodesStayOfTree
<1> QED BY <1>1, <1>2, LookupTypeCorrect, PTL DEF SafetySpec

\* The record below the last node on a walk's path is the one the walk ended on.
LEMMA AgreeFromInv == IndInv /\ NodesAreOfTree => NodesAgreeWithLookups
<1> SUFFICES ASSUME IndInv, NodesAreOfTree, NEW t \in Threads, NEW u \in Threads,
                    node[t].status = "MMDB_SUCCESS", pc[u] = "done",
                    FamilyError(sockaddr[u]) = "MMDB_SUCCESS", result[u].netmask > 0,
                    RootPath(AddressOf(sockaddr[u]))[result[u].netmask - 1] = node[t].number
             PROVE  LET r == result[u]
                        b == AddressOf(sockaddr[u])[r.netmask - 1]
                    IN /\ r.mmdb_error = "MMDB_SUCCESS"
                       /\ node[t].type[b] = "DATA" =>
                            r.found_entry /\ r.offset = node[t].offset[b]
                       /\ node[t].type[b] = "EMPTY" => ~r.found_entry
  BY DEF NodesAgreeWithLookups
<1> DEFINE r == result[u]
           a == AddressOf(sockaddr[u])
           p == RootPath(a)
           k == r.netmask
           b == a[k - 1]
           n == node[t].number
           v == tree[n][b]
<1>1. TypeOK /\ depth \in Nat /\ node_count \in Nat
  <2>1. TypeOK
    BY DEF IndInv
  <2> HIDE DEF r, a, p, k, b, n, v
  <2>2. node_count \in Nat
    BY <2>1 DEF TypeOK
  <2>3. depth \in Nat
    BY <2>1, DepthIsNat
  <2> QED BY <2>1, <2>2, <2>3
<1>2. LeavesTreeAt(p, k) /\ r = Outcome(p[k], k)
  BY DEF IndInv, DoneOnPath, DoneOK, Finished
<1>3. k \in 0 .. depth /\ k > 0 /\ k - 1 \in 0 .. (depth - 1) /\ (k - 1) + 1 = k
  BY <1>1, <1>2 DEF LeavesTreeAt
<1>4. b \in Bit
  <2>1. a \in [0 .. (depth - 1) -> Bit]
    BY <1>1, AddressType DEF TypeOK
  <2> QED BY <1>3, <2>1
<1>5. /\ n \in 0 .. (node_count - 1)
      /\ record_type(v) # "INVALID"
      /\ node[t].type[b] = record_type(v)
      /\ node[t].offset[b] = data_section_offset_for_record(v)
  BY <1>4 DEF NodesAreOfTree, NodeIsOfTree
<1>6. p[k] = v
  <2>1. p[(k - 1) + 1] = StepOf(a, p[k - 1], k - 1)
    BY <1>1, <1>3, RootPathUnfolds
  <2>2. p[k - 1] = n /\ n < node_count
    BY <1>1, <1>5
  <2> QED BY <1>3, <2>1, <2>2 DEF StepOf
<1>7. r = Outcome(v, k)
  BY <1>2, <1>6
<1> HIDE DEF r, v, k, b
<1>8. /\ r.mmdb_error = "MMDB_SUCCESS"
      /\ record_type(v) = "DATA" => r.found_entry /\ r.offset = data_section_offset_for_record(v)
      /\ record_type(v) = "EMPTY" => ~r.found_entry
  BY <1>5, <1>7 DEF Outcome, Result
<1> QED BY <1>5, <1>8 DEF r, b, k

\* A client that walks the nodes with MMDB_read_node and a lookup of an address
\* below the same node see the same record, in any tree and from any threads.
THEOREM NodesAgree == SafetySpec => []NodesAgreeWithLookups
BY LookupInvariant, NodeInvariant, AgreeFromInv, PTL

===============================================================================
