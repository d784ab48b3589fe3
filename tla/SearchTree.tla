------------------------------ MODULE SearchTree ------------------------------
(***************************************************************************)
(* The binary search tree of a MaxMind DB (src/maxminddb.c): the search    *)
(* for the IPv4 start node that ends MMDB_open, lookups by any number of   *)
(* threads on the handle it hands back, and MMDB_read_node.                *)
(*                                                                         *)
(* The tree is what the file says, however damaged: node |-> its two       *)
(* records (the byte layouts the record getters read are left out).  An    *)
(* address is its bits, most significant first.                            *)
(***************************************************************************)
EXTENDS Integers

CONSTANTS Threads,                      \* threads that share the handle
          V4Prefix, V4Bits,             \* 96 and 32: the bits of ::a.b.c.d
          MMDB_DATA_SECTION_SEPARATOR,  \* 16
          RecordLength,                 \* full_record_byte_size: 6, 7 or 8
          MaxNodeCount, DataSize,       \* sizes of the databases considered
          RecordValues(_),              \* record values, for a node_count
          NodeNumbers,                  \* arguments of MMDB_read_node
          U32                           \* 2^32, the modulus of uint32_t

ASSUME TreeAssumption ==
  /\ V4Prefix \in Nat /\ V4Bits \in Nat
  /\ MMDB_DATA_SECTION_SEPARATOR \in Nat \ {0}
  /\ RecordLength \in Nat \ {0}
  /\ MaxNodeCount \in Nat \ {0} /\ DataSize \in Nat \ {0}
  /\ U32 \in Nat \ {0} /\ NodeNumbers \subseteq 0 .. (U32 - 1)
  /\ MaxNodeCount + MMDB_DATA_SECTION_SEPARATOR + DataSize <= U32
  /\ \A n \in 1 .. MaxNodeCount : RecordValues(n) \subseteq 0 .. (U32 - 1)

VARIABLES node_count, ip_version, tree,   \* the open file; never change
          start_value, start_netmask,     \* mmdb->ipv4_start_node
          phase,                          \* of the handle: see Phase
          pc,                             \* thread |-> where it is
          sockaddr, address,              \* thread |-> argument, bits walked
          value, current_bit,             \* thread |-> locals of the walk
          result,                         \* thread |-> the last lookup's result
          node                            \* thread |-> the last node read

db == <<node_count, ip_version, tree>>
start == <<start_value, start_netmask>>
vars == <<node_count, ip_version, tree, start_value, start_netmask, phase,
          pc, sockaddr, address, value, current_bit, result, node>>

\* MMDB_open is still at work, has returned the handle, or has failed.
Phase == {"opening", "shared", "failed"}

Bit == {0, 1}
depth == IF ip_version = 4 THEN V4Bits ELSE V4Prefix + V4Bits

Sockaddr == [family : {"AF_INET"}, bits : [0 .. (V4Bits - 1) -> Bit]]
              \cup [family : {"AF_INET6"}, bits : [0 .. (V4Prefix + V4Bits - 1) -> Bit]]
              \cup [family : {"AF_UNSPEC"}, bits : {<< >>}]

Result(status, found, netmask, offset) ==
  [mmdb_error |-> status, found_entry |-> found, netmask |-> netmask, offset |-> offset]

NoResult == Result("MMDB_SUCCESS", FALSE, 0, 0)
NoNode == [status |-> "none"]
-------------------------------------------------------------------------------
\* Mutant: a record that points into the separator passes for data.
RecordTypeSeparatorIsData(record) ==
  CASE record = 0 -> "INVALID"
    [] record # 0 /\ record < node_count -> "SEARCH_NODE"
    [] record # 0 /\ record = node_count -> "EMPTY"
    [] /\ record > node_count
       /\ record - node_count < MMDB_DATA_SECTION_SEPARATOR + DataSize -> "DATA"
    [] OTHER -> "INVALID"

record_type(record) ==
  CASE record = 0 -> "INVALID"
    [] record # 0 /\ record < node_count -> "SEARCH_NODE"
    [] record # 0 /\ record = node_count -> "EMPTY"
    [] record > node_count /\ record - node_count < MMDB_DATA_SECTION_SEPARATOR ->
         "INVALID"
    [] /\ record - node_count >= MMDB_DATA_SECTION_SEPARATOR
       /\ record - node_count - MMDB_DATA_SECTION_SEPARATOR < DataSize -> "DATA"
    [] OTHER -> "INVALID"

\* uint32_t arithmetic: only meaningful for a record of type DATA.
data_section_offset_for_record(record) ==
  (record - node_count - MMDB_DATA_SECTION_SEPARATOR) % U32

\* The bounds check before a node is read: its last byte must lie before the
\* data section, which starts after the tree and the separator.
PastTree(n) ==
  (n + 1) * RecordLength > node_count * RecordLength + MMDB_DATA_SECTION_SEPARATOR

\* memset and memcpy of mapped_address: an IPv4 address as ::a.b.c.d.
mapped_address(bits) ==
  [i \in 0 .. (V4Prefix + V4Bits - 1) |->
     IF i < V4Prefix THEN 0 ELSE bits[i - V4Prefix]]

\* The bits a lookup walks: what MMDB_lookup_sockaddr passes on as address.
AddressOf(s) ==
  IF ip_version = 6 /\ s.family = "AF_INET" THEN mapped_address(s.bits) ELSE s.bits
-------------------------------------------------------------------------------
\* Any opened file; MMDB_open is about to look for the IPv4 start node.
Init ==
  /\ node_count \in 1 .. MaxNodeCount
  /\ ip_version \in {4, 6}
  /\ tree \in [0 .. (node_count - 1) -> [Bit -> RecordValues(node_count)]]
  /\ start_value = 0 /\ start_netmask = 0
  /\ phase = "opening"
  /\ pc = [t \in Threads |-> "idle"]
  /\ sockaddr = [t \in Threads |-> [family |-> "AF_UNSPEC", bits |-> << >>]]
  /\ address = [t \in Threads |-> << >>]
  /\ value = [t \in Threads |-> 0] /\ current_bit = [t \in Threads |-> 0]
  /\ result = [t \in Threads |-> NoResult]
  /\ node = [t \in Threads |-> NoNode]

\* Mutant: one iteration too many.
StartInTreeOffByOne == start_netmask <= V4Prefix /\ start_value < node_count

\* The loop condition of find_ipv4_start_node.
StartInTree == start_netmask < V4Prefix /\ start_value < node_count

\* One iteration of that loop; MMDB_open calls it for an IPv6 database only.
\* (Its locals are kept in the fields that they are stored in at the end; no
\* one reads those before.)
FindStartStep ==
  /\ phase = "opening"
  /\ ip_version = 6
  /\ StartInTree
  /\ IF PastTree(start_value)
     THEN phase' = "failed" /\ UNCHANGED start
     ELSE /\ start_value' = tree[start_value][0]
          /\ start_netmask' = start_netmask + 1
          /\ UNCHANGED phase
  /\ UNCHANGED <<db, pc, sockaddr, address, value, current_bit, result, node>>

\* Mutant: the prefix length is taken to be 96 wherever the loop stopped.
OpenReturnsFullPrefix ==
  /\ phase = "opening"
  /\ ip_version = 6 => ~StartInTree
  /\ phase' = "shared"
  /\ start_netmask' = V4Prefix
  /\ UNCHANGED <<db, start_value, pc, sockaddr, address, value, current_bit, result, node>>

\* The loop is over, or there was nothing to find: MMDB_open returns.
MMDB_open_returns ==
  /\ phase = "opening"
  /\ ip_version = 6 => ~StartInTree
  /\ phase' = "shared"
  /\ UNCHANGED <<db, start, pc, sockaddr, address, value, current_bit, result, node>>
-------------------------------------------------------------------------------
\* A lookup ends with result r; its locals are gone.
Return(t, r) ==
  /\ pc' = [pc EXCEPT ![t] = "done"]
  /\ result' = [result EXCEPT ![t] = r]
  /\ value' = [value EXCEPT ![t] = 0]
  /\ current_bit' = [current_bit EXCEPT ![t] = 0]

\* MMDB_lookup_string with a string getaddrinfo rejects: no lookup is made and
\* mmdb_error is MMDB_SUCCESS.  (With any other string it is
\* MMDB_lookup_sockaddr on what getaddrinfo returned.)
LookupStringGaiError(t) ==
  /\ phase = "shared" /\ pc[t] # "walk"
  /\ sockaddr' = [sockaddr EXCEPT ![t] = [family |-> "AF_UNSPEC", bits |-> << >>]]
  /\ address' = [address EXCEPT ![t] = << >>]
  /\ Return(t, NoResult)
  /\ UNCHANGED <<db, start, phase, node>>

\* The families a database has no answer for.
FamilyError(s) ==
  CASE s.family = "AF_INET6" /\ ip_version = 4 ->
         "MMDB_IPV6_LOOKUP_IN_IPV4_DATABASE_ERROR"
    [] s.family = "AF_UNSPEC" -> "MMDB_INVALID_NETWORK_ADDRESS_ERROR"
    [] OTHER -> "MMDB_SUCCESS"

LookupRejected(t, s) ==
  /\ phase = "shared" /\ pc[t] # "walk"
  /\ FamilyError(s) # "MMDB_SUCCESS"
  /\ sockaddr' = [sockaddr EXCEPT ![t] = s]
  /\ address' = [address EXCEPT ![t] = << >>]
  /\ Return(t, Result(FamilyError(s), FALSE, 0, 0))
  /\ UNCHANGED <<db, start, phase, node>>

\* Mutant: the walk starts at the start node, but at the address's first bit.
LookupStartsAtBitZero(t, s) ==
  /\ phase = "shared" /\ pc[t] # "walk"
  /\ FamilyError(s) = "MMDB_SUCCESS"
  /\ pc' = [pc EXCEPT ![t] = "walk"]
  /\ sockaddr' = [sockaddr EXCEPT ![t] = s]
  /\ address' = [address EXCEPT ![t] = AddressOf(s)]
  /\ LET v4in6 == ip_version = 6 /\ s.family = "AF_INET"
     IN value' = [value EXCEPT ![t] = IF v4in6 THEN start_value ELSE 0]
  /\ current_bit' = [current_bit EXCEPT ![t] = 0]
  /\ result' = [result EXCEPT ![t] = NoResult]
  /\ UNCHANGED <<db, start, phase, node>>

\* An IPv4 lookup in an IPv6 database starts below the ::/96 prefix.
LookupStarts(t, s) ==
  /\ phase = "shared" /\ pc[t] # "walk"
  /\ FamilyError(s) = "MMDB_SUCCESS"
  /\ pc' = [pc EXCEPT ![t] = "walk"]
  /\ sockaddr' = [sockaddr EXCEPT ![t] = s]
  /\ address' = [address EXCEPT ![t] = AddressOf(s)]
  /\ LET v4in6 == ip_version = 6 /\ s.family = "AF_INET"
     IN /\ value' = [value EXCEPT ![t] = IF v4in6 THEN start_value ELSE 0]
        /\ current_bit' = [current_bit EXCEPT ![t] = IF v4in6 THEN start_netmask ELSE 0]
  /\ result' = [result EXCEPT ![t] = NoResult]
  /\ UNCHANGED <<db, start, phase, node>>

MMDB_lookup_sockaddr(t, s) == LookupRejected(t, s) \/ LookupStarts(t, s)

\* The loop condition of find_address_in_search_tree.
InTree(t) == current_bit[t] < depth /\ value[t] < node_count

\* Mutant: current_bit is not advanced.
WalkStepStuck(t) ==
  /\ pc[t] = "walk"
  /\ InTree(t)
  /\ value' = [value EXCEPT ![t] = tree[value[t]][address[t][current_bit[t]]]]
  /\ UNCHANGED <<db, start, phase, pc, sockaddr, address, current_bit, result, node>>

WalkStep(t) ==
  /\ pc[t] = "walk"
  /\ InTree(t)
  /\ IF PastTree(value[t])
     THEN Return(t, Result("MMDB_CORRUPT_SEARCH_TREE_ERROR", FALSE, 0, 0))
     ELSE /\ value' = [value EXCEPT ![t] = tree[value[t]][address[t][current_bit[t]]]]
          /\ current_bit' = [current_bit EXCEPT ![t] = current_bit[t] + 1]
          /\ UNCHANGED <<pc, result>>
  /\ UNCHANGED <<db, start, phase, sockaddr, address, node>>

\* What the record the walk ended on makes of the result.
Outcome(record, netmask) ==
  CASE record_type(record) = "INVALID" ->
         Result("MMDB_CORRUPT_SEARCH_TREE_ERROR", FALSE, netmask, 0)
    [] record_type(record) = "EMPTY" ->
         Result("MMDB_SUCCESS", FALSE, netmask, 0)
    [] OTHER ->
         Result("MMDB_SUCCESS", TRUE, netmask, data_section_offset_for_record(record))

WalkEnd(t) ==
  /\ pc[t] = "walk"
  /\ ~InTree(t)
  /\ Return(t, Outcome(value[t], current_bit[t]))
  /\ UNCHANGED <<db, start, phase, sockaddr, address, node>>
-------------------------------------------------------------------------------
\* Mutant: only a node with two invalid records is refused.
ReadNodeHalfChecked(n) ==
  LET type == [b \in Bit |-> record_type(tree[n][b])]
  IN CASE n >= node_count -> [status |-> "MMDB_INVALID_NODE_NUMBER_ERROR"]
       [] n < node_count /\ (\A b \in Bit : type[b] = "INVALID") ->
            [status |-> "MMDB_CORRUPT_SEARCH_TREE_ERROR"]
       [] OTHER -> [status |-> "MMDB_SUCCESS", number |-> n, record |-> tree[n],
                    type |-> type,
                    offset |-> [b \in Bit |-> data_section_offset_for_record(tree[n][b])]]

\* MMDB_read_node: both records of a node with their types, unless the number
\* is too large or either record is invalid.  (What a failed call leaves in the
\* caller's struct is not for use and is left out.)
ReadNode(n) ==
  LET type == [b \in Bit |-> record_type(tree[n][b])]
  IN CASE n >= node_count -> [status |-> "MMDB_INVALID_NODE_NUMBER_ERROR"]
       [] n < node_count /\ (PastTree(n) \/ \E b \in Bit : type[b] = "INVALID") ->
            [status |-> "MMDB_CORRUPT_SEARCH_TREE_ERROR"]
       [] OTHER -> [status |-> "MMDB_SUCCESS", number |-> n, record |-> tree[n],
                    type |-> type,
                    offset |-> [b \in Bit |-> data_section_offset_for_record(tree[n][b])]]

MMDB_read_node(t, n) ==
  /\ phase = "shared" /\ pc[t] # "walk"
  /\ node' = [node EXCEPT ![t] = ReadNode(n)]
  /\ UNCHANGED <<db, start, phase, pc, sockaddr, address, value, current_bit, result>>
-------------------------------------------------------------------------------
Next == \/ FindStartStep
        \/ MMDB_open_returns
        \/ \E t \in Threads :
             \/ LookupStringGaiError(t)
             \/ \E s \in Sockaddr : MMDB_lookup_sockaddr(t, s)
             \/ WalkStep(t)
             \/ WalkEnd(t)
             \/ \E n \in NodeNumbers : MMDB_read_node(t, n)

\* A function that was called runs: MMDB_open, and each lookup in its thread.
Fairness == /\ WF_vars(FindStartStep \/ MMDB_open_returns)
            /\ \A t \in Threads : WF_vars(WalkStep(t) \/ WalkEnd(t))

SafetySpec == Init /\ [][Next]_vars
Spec == SafetySpec /\ Fairness
-------------------------------------------------------------------------------
ResultType ==
  [mmdb_error : {"MMDB_SUCCESS", "MMDB_CORRUPT_SEARCH_TREE_ERROR",
                 "MMDB_INVALID_NETWORK_ADDRESS_ERROR",
                 "MMDB_IPV6_LOOKUP_IN_IPV4_DATABASE_ERROR"},
   found_entry : BOOLEAN, netmask : 0 .. (V4Prefix + V4Bits), offset : 0 .. (U32 - 1)]

\* Type correctness of the handle and of every thread's state.
TypeOK ==
  /\ node_count \in 1 .. MaxNodeCount
  /\ ip_version \in {4, 6}
  /\ tree \in [0 .. (node_count - 1) -> [Bit -> 0 .. (U32 - 1)]]
  /\ start_value \in 0 .. (U32 - 1) /\ start_netmask \in 0 .. V4Prefix
  /\ phase \in Phase
  /\ pc \in [Threads -> {"idle", "walk", "done"}]
  /\ sockaddr \in [Threads -> Sockaddr]
  /\ value \in [Threads -> 0 .. (U32 - 1)]
  /\ current_bit \in [Threads -> 0 .. (V4Prefix + V4Bits)]
  /\ result \in [Threads -> ResultType]
  /\ address \in [Threads -> {<< >>} \cup [0 .. (depth - 1) -> Bit]]
  /\ \A t \in Threads : pc[t] = "walk" => address[t] \in [0 .. (depth - 1) -> Bit]

\* The reference: the records met by following the bits of address a from the
\* root, one bit at a time, staying on the first record that is not a node.
RootPath(a) ==
  LET path[k \in 0 .. depth] ==
        IF k = 0 THEN 0
        ELSE IF path[k - 1] < node_count THEN tree[path[k - 1]][a[k - 1]]
        ELSE path[k - 1]
  IN path

\* Path p leaves the tree after k bits, or the address has no more than k.
LeavesTreeAt(p, k) ==
  /\ k \in 0 .. depth
  /\ \A j \in 0 .. (k - 1) : p[j] < node_count
  /\ k = depth \/ p[k] >= node_count

\* A lookup answers for the address it was given: its netmask is the length of
\* the shortest prefix of the address (of ::a.b.c.d for IPv4, although that
\* walk starts at the cached start node) that leaves the tree, and the record
\* there decides the outcome.  This holds in any tree, cyclic ones included.
LookupIsCorrect ==
  \A t \in Threads :
    LET s == sockaddr[t]
        r == result[t]
        p == RootPath(AddressOf(s))
        data == p[r.netmask] - node_count - MMDB_DATA_SECTION_SEPARATOR
    IN pc[t] = "done" /\ FamilyError(s) = "MMDB_SUCCESS" =>
         /\ LeavesTreeAt(p, r.netmask)
         /\ r.mmdb_error = "MMDB_SUCCESS" /\ ~r.found_entry <=> p[r.netmask] = node_count
         /\ data \in 0 .. (DataSize - 1) =>
              r.mmdb_error = "MMDB_SUCCESS" /\ r.found_entry /\ r.offset = data
         /\ p[r.netmask] >= node_count /\ r.mmdb_error = "MMDB_SUCCESS" /\ r.found_entry
              => data \in 0 .. (DataSize - 1)

\* MMDB_read_node and the lookups read one tree: where a client that walks the
\* nodes itself arrives at a data record, the lookup of an address that passes
\* there finds the same entry, one bit below.
NodesAgreeWithLookups ==
  \A t, u \in Threads :
    LET r == result[u]
        a == AddressOf(sockaddr[u])
        p == RootPath(a)
        b == a[r.netmask - 1]
    IN /\ node[t].status = "MMDB_SUCCESS"
       /\ pc[u] = "done" /\ FamilyError(sockaddr[u]) = "MMDB_SUCCESS"
       /\ r.netmask > 0 /\ p[r.netmask - 1] = node[t].number
       => /\ r.mmdb_error = "MMDB_SUCCESS"
          /\ node[t].type[b] = "DATA" => r.found_entry /\ r.offset = node[t].offset[b]
          /\ node[t].type[b] = "EMPTY" => ~r.found_entry

\* An IPv4 address in an IPv6 database is its ::a.b.c.d: two threads that look
\* up the two forms get the same answer, netmask included.
MappedFormsAgree ==
  \A t, u \in Threads :
    /\ ip_version = 6 /\ pc[t] = "done" /\ pc[u] = "done"
    /\ sockaddr[t].family = "AF_INET" /\ sockaddr[u].family = "AF_INET6"
    /\ sockaddr[u].bits = mapped_address(sockaddr[t].bits)
    => result[t] = result[u]

\* Every lookup returns, and so does MMDB_open, although the records of a
\* damaged tree may form cycles.
EveryCallReturns ==
  /\ <>(phase # "opening")
  /\ \A t \in Threads : (pc[t] = "walk") ~> (pc[t] = "done")
-------------------------------------------------------------------------------
\* "looking up an IP address in the search tree gave us an impossible result"
\* is MMDB_CORRUPT_SEARCH_TREE_ERROR (doc/libmaxminddb.md): so a lookup that
\* succeeds and found an entry found it in the data section.
FoundEntryIsInDataSection ==
  \A t \in Threads :
    /\ pc[t] = "done"
    /\ result[t].mmdb_error = "MMDB_SUCCESS" /\ result[t].found_entry
    => result[t].offset < DataSize

\* "If you pass an IPv6 address to a database with only IPv4 data then the
\* found_entry member will be false, but the mmdb_error status will still be
\* MMDB_SUCCESS" (doc/libmaxminddb.md).
Ipv6InIpv4DatabaseSucceeds ==
  \A t \in Threads :
    /\ pc[t] = "done"
    /\ sockaddr[t].family = "AF_INET6" /\ ip_version = 4
    => result[t].mmdb_error = "MMDB_SUCCESS" /\ ~result[t].found_entry

===============================================================================
