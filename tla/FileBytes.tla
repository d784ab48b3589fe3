----------------------------- MODULE FileBytes -----------------------------
(***************************************************************************)
(* What libmaxminddb makes of the bytes of a file below the decoder: the   *)
(* search for the metadata section (find_metadata with mmdb_memmem, one    *)
(* step per position it compares), the records of a node of the search     *)
(* tree (the getters record_info_for_database picks), and the numbers of   *)
(* the data section (get_uintX, one step per byte, and get_sintX).         *)
(*                                                                         *)
(* A byte is a number below Byte == Nibble * Nibble; the code's Nibble is  *)
(* 16.  The layouts are stated in digits of that base, so a small Nibble   *)
(* leaves every case of theirs and makes their values few.                 *)
(***************************************************************************)
EXTENDS Integers, Sequences, FiniteSetsExt

CONSTANTS
    Nibble,                   \* values of half a byte
    METADATA_MARKER,          \* the bytes before the metadata
    METADATA_BLOCK_MAX_SIZE,  \* how far from its end a file is searched
    Contents,                 \* the files searched for metadata
    Records,                  \* Records[len]: records of a node of len bytes
    Numbers                   \* Numbers[len]: unsigned numbers of len bytes

Byte == Nibble * Nibble

\* What a byte is worth in a number with k more bytes behind it.
Weight[k \in 0 .. 8] == IF k = 0 THEN 1 ELSE Byte * Weight[k - 1]

marker_len == Len(METADATA_MARKER)

(* The marker is more than one byte, so mmdb_memmem's special case for one *)
(* is never taken, and its first byte comes only once in it: two markers   *)
(* never overlap.  A byte has a highest bit, so Nibble is even.  A record  *)
(* or a number is one its bytes can hold.                                  *)
ASSUME FileAssumption ==
    /\ Nibble \in Nat /\ Nibble > 1 /\ Nibble % 2 = 0
    /\ METADATA_BLOCK_MAX_SIZE \in Nat
    /\ METADATA_MARKER \in Seq(0 .. Byte - 1) /\ marker_len > 1
    /\ \A i \in 2 .. marker_len : METADATA_MARKER[i] # METADATA_MARKER[1]
    /\ Contents \subseteq Seq(0 .. Byte - 1)
    /\ Records[6] \subseteq 0 .. Weight[3] - 1
    /\ Records[7] \subseteq 0 .. Weight[3] * Nibble - 1
    /\ Records[8] \subseteq 0 .. Weight[4] - 1
    /\ DOMAIN Numbers \subseteq 0 .. 8
    /\ \A n \in DOMAIN Numbers : Numbers[n] \subseteq 0 .. Weight[n] - 1

VARIABLES
    file_content,   \* the bytes of the file
    written,        \* what whoever wrote them meant by them
    call,           \* the function that runs or ran last
    pc,             \* "idle", or the loop a call is in
    search_area,    \* find_metadata: offset where the search goes on
    max_size,       \*   and the bytes from there to the end of the file
    cur,            \* mmdb_memmem: the offset compared next; get_uintX: p
    value,          \* get_uintX: the number so far
    result,         \* what the last call returned
    reads           \* offsets the last step has read

vars == <<file_content, written, call, pc, search_area, max_size, cur, value,
          result, reads>>

NULL == <<"null">>

file_size == Len(file_content)

at(p) == file_content[p + 1]

(***************************************************************************)
(* The format, as a writer lays it out (the MaxMind DB specification).     *)
(***************************************************************************)
RecordLengths == {6, 7, 8}

\* The n bytes of the number v, most significant first.
BigEndian(v, n) == [i \in 1 .. n |-> (v \div Weight[n - i]) % Byte]

\* A node of two records of 24, 28 or 32 bits.  The byte in the middle of a
\* 28 bit node holds the four highest bits of either record.
NodeBytes(l, r, len) ==
    IF len = 7
    THEN BigEndian(l % Weight[3], 3)
           \o <<(l \div Weight[3]) * Nibble + r \div Weight[3]>>
           \o BigEndian(r % Weight[3], 3)
    ELSE BigEndian(l, len \div 2) \o BigEndian(r, len \div 2)

\* A tree of two nodes: the second has the records of the first exchanged.
TreeFiles(len) ==
    {[kind |-> "tree", len |-> len, nodes |-> <<<<l, r>>, <<r, l>>>>] :
        l \in Records[len], r \in Records[len]}

NumberFiles ==
    UNION {{[kind |-> "number", len |-> n, number |-> v] : v \in Numbers[n]} :
              n \in DOMAIN Numbers}

Init ==
    /\ \/ /\ file_content \in Contents
          /\ written = [kind |-> "any"]
       \/ \E len \in RecordLengths : \E t \in TreeFiles(len) :
             /\ written = t
             /\ file_content = NodeBytes(t.nodes[1][1], t.nodes[1][2], len)
                                 \o NodeBytes(t.nodes[2][1], t.nodes[2][2], len)
       \/ \E w \in NumberFiles :
             /\ written = w
             /\ file_content = BigEndian(w.number, w.len)
    /\ call = "none" /\ pc = "idle"
    /\ search_area = 0 /\ max_size = 0 /\ cur = 0 /\ value = 0
    /\ result = NULL /\ reads = {}

(***************************************************************************)
(* find_metadata.  Its first test, max_size < 0, fails: MMDB_open has      *)
(* mapped the file and set file_size to its size.                          *)
(***************************************************************************)
SearchSize == Min({file_size, METADATA_BLOCK_MAX_SIZE})

start == file_size - SearchSize

find_metadata ==
    /\ pc = "idle" /\ written.kind = "any"
    /\ call' = "find_metadata" /\ pc' = "memmem"
    /\ max_size' = SearchSize
    /\ search_area' = start
    /\ cur' = start
    /\ result' = NULL /\ reads' = {}
    /\ UNCHANGED <<file_content, written, value>>

\* cur <= last: the marker would end inside the search area.
FitsOffByOne == cur <= search_area + max_size - marker_len + 1
Fits == cur <= search_area + max_size - marker_len

\* memcmp is given marker_len bytes once the first byte is the marker's.
Compared ==
    IF at(cur) = METADATA_MARKER[1] THEN cur .. cur + marker_len - 1 ELSE {cur}

IsMarker ==
    \A i \in 1 .. marker_len :
        cur + i <= file_size /\ at(cur + i - 1) = METADATA_MARKER[i]

PassByte ==
    /\ pc = "memmem" /\ Fits /\ ~IsMarker
    /\ cur' = cur + 1
    /\ reads' = Compared
    /\ UNCHANGED <<file_content, written, call, pc, search_area, max_size,
                   value, result>>

SearchGoesOn(area) ==
    /\ max_size' = max_size - (area - search_area)
    /\ search_area' = area
    /\ cur' = area
    /\ UNCHANGED pc

FoundMarkerAgain ==
    /\ pc = "memmem" /\ Fits /\ IsMarker
    /\ SearchGoesOn(cur)
    /\ reads' = Compared
    /\ UNCHANGED <<file_content, written, call, value, result>>
FoundMarker ==
    /\ pc = "memmem" /\ Fits /\ IsMarker
    /\ SearchGoesOn(cur + marker_len)
    /\ reads' = Compared
    /\ UNCHANGED <<file_content, written, call, value, result>>

MetadataEvenEmpty ==
    IF search_area = start
    THEN NULL ELSE <<search_area, max_size>>
Metadata ==
    IF search_area = start \/ max_size <= 0
    THEN NULL ELSE <<search_area, max_size>>

NoMarkerLeft ==
    /\ pc = "memmem" /\ ~Fits
    /\ pc' = "idle"
    /\ result' = Metadata
    /\ reads' = {}
    /\ UNCHANGED <<file_content, written, call, search_area, max_size, cur,
                   value>>

(***************************************************************************)
(* The getters, and MMDB_read_node's use of them for a node of the tree.   *)
(* SearchTree has the rest of MMDB_read_node: its errors and the types.    *)
(***************************************************************************)
get_uint24(p) == at(p) * Weight[2] + at(p + 1) * Byte + at(p + 2)

get_uint32(p) ==
    at(p) * Weight[3] + at(p + 1) * Weight[2] + at(p + 2) * Byte + at(p + 3)

\* (record[3] & 0xf0) << 20
get_left_28_bit_record(p) ==
    get_uint24(p) + (at(p + 3) \div Nibble) * Weight[3]

\* & 0xfffffff
RightKeepingTheLeft(p) == get_uint32(p)
get_right_28_bit_record(p) == get_uint32(p) % (Weight[3] * Nibble)

record_info(len) ==
    CASE len = 6 -> [right_record_offset |-> 3, bytes |-> 3]
      [] len = 7 -> [right_record_offset |-> 3, bytes |-> 4]
      [] len = 8 -> [right_record_offset |-> 4, bytes |-> 4]

left_record(p, len) ==
    CASE len = 6 -> get_uint24(p)
      [] len = 7 -> get_left_28_bit_record(p)
      [] len = 8 -> get_uint32(p)

right_record(p, len) ==
    CASE len = 6 -> get_uint24(p)
      [] len = 7 -> get_right_28_bit_record(p)
      [] len = 8 -> get_uint32(p)

MMDB_read_node(node_number) ==
    /\ pc = "idle" /\ written.kind = "tree"
    /\ LET len == written.len
           info == record_info(len)
           record_pointer == node_number * len
           right == record_pointer + info.right_record_offset
       IN  /\ result' = <<node_number, left_record(record_pointer, len),
                          right_record(right, len)>>
           /\ reads' = record_pointer .. record_pointer + info.bytes - 1
                         \union right .. right + info.bytes - 1
    /\ call' = "MMDB_read_node"
    /\ UNCHANGED <<file_content, written, pc, search_area, max_size, cur,
                   value>>

(***************************************************************************)
(* get_uintX: value <<= 8; value += *p++, a number of at most eight bytes. *)
(* get_sintX converts it to an int32_t.  A call is made for the numbers of *)
(* at most four bytes, which are the signed ones, by get_sintX.            *)
(***************************************************************************)
get_uintX ==
    /\ pc = "idle" /\ written.kind = "number"
    /\ call' \in {"get_uintX"} \union (IF written.len <= 4 THEN {"get_sintX"} ELSE {})
    /\ pc' = "uintX" /\ cur' = 0 /\ value' = 0
    /\ result' = NULL /\ reads' = {}
    /\ UNCHANGED <<file_content, written, search_area, max_size>>

NextByte ==
    /\ pc = "uintX" /\ cur < written.len
    /\ value' = (value * Byte + at(cur)) % Weight[8]
    /\ cur' = cur + 1
    /\ reads' = {cur}
    /\ UNCHANGED <<file_content, written, call, pc, search_area, max_size,
                   result>>

Int32OfShort(v) == IF v >= Weight[written.len] \div 2 THEN v - Weight[written.len] ELSE v
Int32(v) == IF v >= Weight[4] \div 2 THEN v - Weight[4] ELSE v

NumberIsRead ==
    /\ pc = "uintX" /\ cur >= written.len
    /\ pc' = "idle"
    /\ result' = IF call = "get_sintX" THEN <<Int32(value)>> ELSE <<value>>
    /\ reads' = {}
    /\ UNCHANGED <<file_content, written, call, search_area, max_size, cur,
                   value>>

Loops == PassByte \/ FoundMarker \/ NoMarkerLeft \/ NextByte \/ NumberIsRead

Next ==
    \/ find_metadata
    \/ \E n \in 0 .. 1 : MMDB_read_node(n)
    \/ get_uintX
    \/ Loops

\* A loop that runs goes on: the code waits for nothing in it.
Spec == Init /\ [][Next]_vars /\ WF_vars(Loops)

-----------------------------------------------------------------------------
(***************************************************************************)
(* Properties.                                                             *)
(***************************************************************************)

(* What find_metadata returns is the rest of the file after the last       *)
(* marker that lies within the last METADATA_BLOCK_MAX_SIZE bytes: a       *)
(* marker cut by the border of that block does not count, one before it    *)
(* neither, and when nothing comes after the last marker there is no       *)
(* metadata, even if there is an earlier marker.                           *)
MetadataFollowsLastMarker ==
    (call = "find_metadata" /\ pc = "idle") =>
        LET ends == {e \in marker_len .. file_size :
                        /\ e - marker_len >= file_size - METADATA_BLOCK_MAX_SIZE
                        /\ SubSeq(file_content, e - marker_len + 1, e)
                             = METADATA_MARKER}
        IN  result = IF ends = {} \/ Max(ends \union {0}) = file_size THEN NULL
                     ELSE <<Max(ends), file_size - Max(ends)>>

(* No step of the search, of a record getter or of a number reads outside  *)
(* the file; a node's records are read from the node's own bytes.          *)
ReadsStayInFile ==
    /\ reads \subseteq 0 .. file_size - 1
    /\ (call = "MMDB_read_node" =>
          reads \subseteq result[1] * written.len
                            .. (result[1] + 1) * written.len - 1)

(* The two records MMDB_read_node reads from a node are the ones written   *)
(* to it, for nodes of 24, 28 and 32 bit records: the byte that two 28 bit *)
(* records share is split between them the way it was put together.        *)
NodesReadAsWritten ==
    call = "MMDB_read_node" =>
        Tail(result) = written.nodes[result[1] + 1]

(* A number is read as it was written: a shorter one as if zeros came      *)
(* before it, and as an int32_t only one whose four bytes say so is        *)
(* negative.                                                               *)
NumbersReadAsWritten ==
    /\ (call = "get_uintX" /\ pc = "idle") => result = <<written.number>>
    /\ (call = "get_sintX" /\ pc = "idle") =>
          /\ result[1] \in -(Weight[4] \div 2) .. Weight[4] \div 2 - 1
          /\ result[1] % Weight[4] = written.number
          /\ (written.len < 4 => result[1] >= 0)

(* The search ends on every file: each marker it finds shortens what is    *)
(* left.                                                                   *)
SearchEnds == [](call = "find_metadata" => <>(pc = "idle"))

=============================================================================
