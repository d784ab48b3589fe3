------------------------------- MODULE Decoder -------------------------------
(***************************************************************************)
(* decode_one and decode_one_follow (src/maxminddb.c): one value of the    *)
(* data section, or of the metadata section, is decoded at an offset the   *)
(* caller chooses, into an MMDB_entry_data_s that keeps what earlier calls *)
(* left in the fields this call does not set.  `reads' are the offsets of  *)
(* the bytes a call looks at.                                              *)
(***************************************************************************)
EXTENDS Decoding

CONSTANT Offsets        \* the offsets callers come up with by themselves

ASSUME DecoderAssumption == Offsets \subseteq 0 .. (U32 - 1)

VARIABLES entry,                \* the MMDB_entry_data_s
          call, from, status,   \* the last call: function, offset, result
          reads                 \* and the bytes it read

vars == <<section, beyond, entry, call, from, status, reads>>
-------------------------------------------------------------------------------
Init ==
  /\ section \in Sections /\ beyond \in Beyond
  /\ entry = EmptyEntry
  /\ call = "none" /\ from = 0 /\ status = "MMDB_SUCCESS" /\ reads = {}

Returns(function, o, s) ==
  /\ call' = function /\ from' = o /\ status' = s
  /\ UNCHANGED memoryVars

decode_one(o) ==
  /\ entry' = Decoded(entry, o)
  /\ reads' = Reads(o)
  /\ Returns("decode_one", o, StatusOf(o))

\* decode_one_follow where there is no pointer, or nothing at all.
FollowNothing(o) ==
  /\ ~PointsAway(o)
  /\ entry' = Decoded(entry, o)
  /\ reads' = Reads(o)
  /\ Returns("decode_one_follow", o, StatusOf(o))

\* decode_one_follow where there is one: the target is decoded too.
FollowPointer(o) ==
  /\ PointsAway(o)
  /\ entry' = Followed(entry, o)
  /\ reads' = Reads(o) \cup Reads(Decoded(entry, o).pointer)
  /\ Returns("decode_one_follow", o, FollowStatus(entry, o))

decode_one_follow(o) == FollowNothing(o) \/ FollowPointer(o)

\* Callers go on where the last value ended or pointed to, or start afresh.
Next == \E o \in Offsets \cup {entry.offset_to_next, entry.pointer} :
          decode_one(o) \/ decode_one_follow(o)

Spec == Init /\ [][Next]_vars
-------------------------------------------------------------------------------
\* Type correctness: no value is ever reported with type 0, MMDB_DATA_TYPE_EXTENDED.
TypeOK ==
  /\ section \in Seq(Byte) /\ data_section_size < U32 /\ beyond \in Byte
  /\ entry \in [offset : Nat, type : 0 .. (7 + 255), pointer : Nat, bytes : Nat,
                data_size : Nat, offset_to_next : Nat]
  /\ call \in {"none", "decode_one", "decode_one_follow"}
  /\ from \in Nat
  /\ status \in {"MMDB_SUCCESS", "MMDB_INVALID_DATA_ERROR"}
  /\ call # "none" /\ status = "MMDB_SUCCESS" => entry.type # EXTENDED
  /\ reads \subseteq Nat

InSection(S) == S \subseteq 0 .. (data_section_size - 1)

\* The checks of decode_one suffice although they subtract in uint32_t: in a
\* section of at least 3 bytes, whatever its bytes and whatever the offset or
\* pointer, only bytes of the section are read, and a string or byte array that
\* is returned lies in it.
ReadsStayInside ==
  data_section_size >= 3 =>
    /\ InSection(reads)
    /\ call # "none" /\ status = "MMDB_SUCCESS" /\ entry.type \in {UTF8_STRING, BYTES}
         => InSection(entry.bytes .. (entry.bytes + entry.data_size - 1))

\* Decoding always advances, and to the value a caller needs next: offset_to_next
\* is the end of the value asked for, of the pointer itself if there is one, but
\* for a map or an array it is where its first member is, behind the target's
\* head when it was found through a pointer.  It is after where that value starts
\* and no further than the end of the section, so that a caller who goes from
\* value to value comes to an end; decode_one_follow never returns a pointer.
NextIsAhead ==
  data_section_size >= 3 /\ call # "none" /\ status = "MMDB_SUCCESS" =>
    /\ LET start == IF entry.type \in Compound THEN entry.offset ELSE from
       IN /\ entry.offset_to_next = NextAt(start)
          /\ entry.offset_to_next \in (start + 1) .. data_section_size
    /\ entry.offset = from \/ call = "decode_one_follow"
    /\ call = "decode_one_follow" => entry.type # POINTER
-------------------------------------------------------------------------------
\* "an underflow from data_section_size - 1 should not be possible", and "later
\* we assume it is at least three when doing bound checks" (src/maxminddb.c): so
\* the checks keep every read in the section, the metadata section too.
EveryReadIsInside == InSection(reads)

===============================================================================
