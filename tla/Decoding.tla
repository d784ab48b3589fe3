------------------------------ MODULE Decoding ------------------------------
(***************************************************************************)
(* What decode_one and decode_one_follow (src/maxminddb.c) make of the     *)
(* bytes at an offset, as operators: the control byte, the size, the       *)
(* bounds checks, and the MMDB_entry_data_s that results.  Decoder, Path   *)
(* and EntryList are written with them.                                    *)
(*                                                                         *)
(* A section (the data section, or the metadata that make_fake_metadata_db *)
(* puts in its place) is any sequence of bytes; a byte past the section is *)
(* whatever lies there, `beyond'.  Numbers are read but their values are   *)
(* left out.                                                               *)
(***************************************************************************)
EXTENDS Integers, Sequences

CONSTANTS Sections,     \* the sections considered, sequences of bytes
          Beyond,       \* bytes that may lie past a section
          U32,          \* 2^32, the modulus of uint32_t
          MAXIMUM_DATA_STRUCTURE_DEPTH  \* how deep the recursive readers go

Byte == 0 .. 255

ASSUME SectionAssumption ==
  /\ U32 \in Nat /\ U32 > 4
  /\ MAXIMUM_DATA_STRUCTURE_DEPTH \in Nat \ {0}
  /\ Sections \subseteq Seq(Byte) /\ Beyond \subseteq Byte
  /\ \A s \in Sections : Len(s) < U32

VARIABLES section, beyond       \* the memory; never changes

memoryVars == <<section, beyond>>

data_section_size == Len(section)

mem(o) == IF o < data_section_size THEN section[o + 1] ELSE beyond

\* The MMDB_DATA_TYPE constants decode_one tells apart.
EXTENDED == 0
POINTER == 1
UTF8_STRING == 2
DOUBLE == 3
BYTES == 4
MAP == 7
ARRAY == 11
BOOLEAN_TYPE == 14
FLOAT == 15

\* UINT16, UINT32, INT32, UINT64 and UINT128, with the bytes they may have.
MaxBytes == [t \in {5, 6, 8, 9, 10} |->
               CASE t = 5 -> 2 [] t \in {6, 8} -> 4 [] t = 9 -> 8 [] OTHER -> 16]

Compound == {MAP, ARRAY}
-------------------------------------------------------------------------------
\* uint32_t subtraction.
Minus(a, b) == IF a >= b THEN a - b ELSE a + U32 - b

\* The bounds check decode_one makes before it reads k bytes at offset o.
Past(o, k) == o > Minus(data_section_size, k)

get_uint16(o) == mem(o) * 256 + mem(o + 1)
get_uint24(o) == mem(o) * 65536 + mem(o + 1) * 256 + mem(o + 2)
get_uint32(o) == mem(o) * 16777216 + mem(o + 1) * 65536 + mem(o + 2) * 256 + mem(o + 3)

\* Mutant: extended types are not offset.
ExtTypeRaw(raw_ext_type) == raw_ext_type

get_ext_type(raw_ext_type) == 7 + raw_ext_type

get_ptr_from(ctrl, o, ptr_size) ==
  CASE ptr_size = 1 -> (ctrl % 8) * 256 + mem(o)
    [] ptr_size = 2 -> 2048 + (ctrl % 8) * 65536 + get_uint16(o)
    [] ptr_size = 3 -> 2048 + 524288 + (ctrl % 8) * 16777216 + get_uint24(o)
    [] OTHER -> get_uint32(o)
-------------------------------------------------------------------------------
\* The control byte of the value at o, with the byte of an extended type.
HeadPast(o) == data_section_size = 0 \/ Past(o, 1)
Extended(o) == mem(o) \div 32 = EXTENDED
ExtendedPast(o) == Extended(o) /\ Past(o + 1, 1)
HeadEnd(o) == IF Extended(o) THEN o + 2 ELSE o + 1
TypeAt(o) == IF Extended(o) THEN get_ext_type(mem(o + 1)) ELSE mem(o) \div 32

\* A pointer's bytes.
psize(o) == ((mem(o) \div 8) % 4) + 1
PointerPast(o) == Past(HeadEnd(o), psize(o)) \/ data_section_size < psize(o)

\* The size: in the control byte, or in 1 to 3 bytes after it.
SizeBytes(o) == IF mem(o) % 32 >= 29 THEN (mem(o) % 32) - 28 ELSE 0
SizePast(o) == SizeBytes(o) > 0 /\ Past(HeadEnd(o), SizeBytes(o))
BodyStart(o) == HeadEnd(o) + SizeBytes(o)
SizeAt(o) ==
  CASE SizeBytes(o) = 0 -> mem(o) % 32
    [] SizeBytes(o) = 1 -> 29 + mem(HeadEnd(o))
    [] SizeBytes(o) = 2 -> 285 + get_uint16(HeadEnd(o))
    [] OTHER -> 65821 + get_uint24(HeadEnd(o))

\* Mutant: the subtraction is trusted not to wrap.
BodyPastWraps(o) == Past(BodyStart(o), SizeAt(o))

\* A body that is not all in the section.
BodyPast(o) == Past(BodyStart(o), SizeAt(o)) \/ data_section_size < SizeAt(o)

BadSize(o) == \/ TypeAt(o) \in DOMAIN MaxBytes /\ SizeAt(o) > MaxBytes[TypeAt(o)]
              \/ TypeAt(o) = FLOAT /\ SizeAt(o) # 4
              \/ TypeAt(o) = DOUBLE /\ SizeAt(o) # 8

HasBody(o) == TypeAt(o) \notin Compound \cup {BOOLEAN_TYPE}
IsNumber(o) == TypeAt(o) \in DOMAIN MaxBytes \cup {FLOAT, DOUBLE}

\* decode_one at o returns MMDB_INVALID_DATA_ERROR.
Invalid(o) ==
  \/ HeadPast(o) \/ ExtendedPast(o)
  \/ IF TypeAt(o) = POINTER THEN PointerPast(o)
     ELSE SizePast(o) \/ (HasBody(o) /\ (BodyPast(o) \/ BadSize(o)))

\* offset_to_next of the value at o.
NextAt(o) ==
  IF TypeAt(o) = POINTER THEN HeadEnd(o) + psize(o)
  ELSE IF HasBody(o) THEN BodyStart(o) + SizeAt(o) ELSE BodyStart(o)

DataSizeAt(e, o) ==
  IF TypeAt(o) = POINTER THEN psize(o)
  ELSE IF TypeAt(o) \in Compound \cup {UTF8_STRING, BYTES} THEN SizeAt(o)
  ELSE IF TypeAt(o) = BOOLEAN_TYPE THEN 0 ELSE e.data_size

\* What decode_one makes of the entry data e when the value at o is valid.
\* (bytes is where entry_data->utf8_string or entry_data->bytes points; for an
\* empty string the code points to a constant instead, with data_size 0.)
Filled(e, o) ==
  [offset |-> o, type |-> TypeAt(o), offset_to_next |-> NextAt(o),
   data_size |-> DataSizeAt(e, o),
   pointer |-> IF TypeAt(o) = POINTER THEN get_ptr_from(mem(o), HeadEnd(o), psize(o))
               ELSE e.pointer,
   bytes |-> IF TypeAt(o) \in {UTF8_STRING, BYTES} THEN BodyStart(o) ELSE e.bytes]

Decoded(e, o) ==
  CASE HeadPast(o) -> e
    [] ~HeadPast(o) /\ ExtendedPast(o) -> [e EXCEPT !.offset = o]
    [] ~HeadPast(o) /\ ~ExtendedPast(o) /\ Invalid(o) ->
         [e EXCEPT !.offset = o, !.type = TypeAt(o)]
    [] OTHER -> Filled(e, o)

\* The bytes decode_one looks at.
HeadReads(o) ==
  IF HeadPast(o) THEN {} ELSE IF ExtendedPast(o) THEN {o} ELSE o .. (HeadEnd(o) - 1)

BodyReads(o) ==
  CASE HeadPast(o) \/ ExtendedPast(o) -> {}
    [] ~(HeadPast(o) \/ ExtendedPast(o)) /\ TypeAt(o) = POINTER ->
         IF PointerPast(o) THEN {} ELSE HeadEnd(o) .. (HeadEnd(o) + psize(o) - 1)
    [] OTHER ->
         IF SizePast(o) THEN {}
         ELSE IF IsNumber(o) /\ ~Invalid(o)
         THEN HeadEnd(o) .. (BodyStart(o) + SizeAt(o) - 1)
         ELSE HeadEnd(o) .. (BodyStart(o) - 1)

Reads(o) == HeadReads(o) \cup BodyReads(o)
-------------------------------------------------------------------------------
EmptyEntry == [offset |-> 0, type |-> EXTENDED, pointer |-> 0, bytes |-> 0,
               data_size |-> 0, offset_to_next |-> 0]

StatusOf(o) == IF Invalid(o) THEN "MMDB_INVALID_DATA_ERROR" ELSE "MMDB_SUCCESS"

PointsAway(o) == ~Invalid(o) /\ TypeAt(o) = POINTER

\* decode_one_follow at o: a pointer's target is decoded into the same entry
\* data, and may not be a pointer.
FollowFails(e, o) ==
  LET to == Decoded(e, o).pointer
  IN \/ Invalid(o)
     \/ PointsAway(o) /\ (Invalid(to) \/ Decoded(Decoded(e, o), to).type = POINTER)

FollowStatus(e, o) ==
  IF FollowFails(e, o) THEN "MMDB_INVALID_DATA_ERROR" ELSE "MMDB_SUCCESS"

\* Mutant: the next value is always taken to be the one after the pointer.
FollowedRestoresNext(e, o) ==
  LET first == Decoded(e, o)
      target == Decoded(first, first.pointer)
  IN CASE ~PointsAway(o) -> first
       [] PointsAway(o) /\ FollowFails(e, o) -> target
       [] OTHER -> [target EXCEPT !.offset_to_next = first.offset_to_next]

\* The value after a simple target is the one after the pointer.
Followed(e, o) ==
  LET first == Decoded(e, o)
      target == Decoded(first, first.pointer)
  IN CASE ~PointsAway(o) -> first
       [] PointsAway(o) /\ (FollowFails(e, o) \/ target.type \in Compound) -> target
       [] OTHER -> [target EXCEPT !.offset_to_next = first.offset_to_next]

===============================================================================
