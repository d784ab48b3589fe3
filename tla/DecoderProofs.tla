---------------------------- MODULE DecoderProofs ----------------------------
(***************************************************************************)
(* decode_one stays inside any section of at least 3 bytes and always      *)
(* moves ahead in it, whatever the bytes; and the encodings it reads have  *)
(* no two spellings of one size, nor of one pointer.                       *)
(***************************************************************************)
EXTENDS Decoder, DecodingProofs

\* No byte outside the section is read, whether decode_one succeeds or fails.
LEMMA ReadsInside ==
  ASSUME SectionOK, data_section_size >= 3, NEW o \in Nat
  PROVE  InSection(Reads(o))
<1>0. /\ HeadEnd(o) \in Nat /\ o < HeadEnd(o) /\ HeadEnd(o) <= o + 2
      /\ TypeAt(o) \in 1 .. (7 + 255)
      /\ psize(o) \in 1 .. 4
      /\ SizeBytes(o) \in 0 .. 3
      /\ BodyStart(o) \in Nat /\ BodyStart(o) = HeadEnd(o) + SizeBytes(o)
      /\ SizeAt(o) \in Nat
  BY HeadFacts
<1>1. data_section_size \in Nat
  BY DEF data_section_size, SectionOK
<1>2. InSection(HeadReads(o))
  BY <1>0, <1>1, HeadInside DEF InSection, HeadReads
<1>3. InSection(BodyReads(o))
  <2>1. CASE HeadPast(o) \/ ExtendedPast(o)
    BY <2>1 DEF BodyReads, InSection
  <2>2. CASE ~HeadPast(o) /\ ~ExtendedPast(o) /\ TypeAt(o) = POINTER
    BY <1>0, <1>1, <2>2, PartsInside DEF BodyReads, InSection
  <2>3. CASE ~HeadPast(o) /\ ~ExtendedPast(o) /\ TypeAt(o) # POINTER
    <3>1. BodyReads(o) = IF SizePast(o) THEN {}
                         ELSE IF IsNumber(o) /\ ~Invalid(o)
                         THEN HeadEnd(o) .. (BodyStart(o) + SizeAt(o) - 1)
                         ELSE HeadEnd(o) .. (BodyStart(o) - 1)
      BY <2>3 DEF BodyReads
    <3>2. IsNumber(o) => HasBody(o)
      BY DEF IsNumber, HasBody, MaxBytes, Compound, MAP, ARRAY, BOOLEAN_TYPE, FLOAT, DOUBLE
    <3>3. IsNumber(o) /\ ~Invalid(o) => ~SizePast(o) /\ ~BodyPast(o)
      BY <2>3, <3>2 DEF Invalid
    <3> QED BY <1>0, <1>1, <2>3, <3>1, <3>3, PartsInside DEF InSection
  <2> QED BY <2>1, <2>2, <2>3
<1> QED BY <1>2, <1>3 DEF Reads, InSection

-------------------------------------------------------------------------------
EntryType == [offset : Nat, type : 0 .. (7 + 255), pointer : Nat, bytes : Nat,
              data_size : Nat, offset_to_next : Nat]

\* What is known of decoded entry data, here where it starts out zeroed.
LEMMA DecodedEntry ==
  ASSUME SectionOK, NEW o \in Nat, NEW e \in EntryType
  PROVE  /\ Decoded(e, o) \in EntryType
         /\ ~Invalid(o) => /\ Decoded(e, o) = Filled(e, o)
                           /\ Decoded(e, o).type = TypeAt(o)
                           /\ Decoded(e, o).type # EXTENDED
<1>1. EntryType = EntryOf(0 .. (7 + 255)) /\ TypesAt \subseteq 0 .. (7 + 255)
  BY DEF EntryType, EntryOf, TypesAt
<1> QED BY <1>1, DecodedFields

\* And of the fields decode_one sets.
LEMMA FilledEntry ==
  ASSUME SectionOK, NEW o \in Nat, NEW e \in EntryType
  PROVE  /\ Filled(e, o) \in EntryType
         /\ Filled(e, o).offset = o
         /\ Filled(e, o).type = TypeAt(o)
         /\ Filled(e, o).offset_to_next = NextAt(o)
         /\ TypeAt(o) \in {UTF8_STRING, BYTES} =>
              Filled(e, o).bytes = BodyStart(o) /\ Filled(e, o).data_size = SizeAt(o)
<1>1. EntryType = EntryOf(0 .. (7 + 255)) /\ TypesAt \subseteq 0 .. (7 + 255)
  BY DEF EntryType, EntryOf, TypesAt
<1> DEFINE T == 0 .. (7 + 255)
<1>2. EntryType = EntryOf(T) /\ TypesAt \subseteq T
  BY <1>1
<1> HIDE DEF T
<1> QED BY <1>2, FilledFields

-------------------------------------------------------------------------------
IndInv == TypeOK /\ ReadsStayInside /\ NextIsAhead

\* Offsets that are numbers: the callers' own, and those of the entry data.
LEMMA CallOffset ==
  ASSUME IndInv, NEW o \in Offsets \cup {entry.offset_to_next, entry.pointer}
  PROVE  o \in Nat /\ SectionOK /\ entry \in EntryType
BY SectionAssumption, DecoderAssumption DEF IndInv, TypeOK, SectionOK, EntryType

\* The bytes decode_one looks at are offsets.
LEMMA ReadsType ==
  ASSUME SectionOK, NEW o \in Nat
  PROVE  Reads(o) \subseteq Nat
<1>1. /\ HeadEnd(o) \in Nat /\ psize(o) \in 1 .. 4
      /\ BodyStart(o) \in Nat /\ SizeAt(o) \in Nat
  BY HeadFacts
<1>2. HeadReads(o) \subseteq Nat
  BY <1>1 DEF HeadReads
<1>3. BodyReads(o) \subseteq Nat
  <2>1. CASE HeadPast(o) \/ ExtendedPast(o)
    BY <2>1 DEF BodyReads
  <2>2. CASE ~HeadPast(o) /\ ~ExtendedPast(o) /\ TypeAt(o) = POINTER
    BY <1>1, <2>2 DEF BodyReads
  <2>3. CASE ~HeadPast(o) /\ ~ExtendedPast(o) /\ TypeAt(o) # POINTER
    BY <1>1, <2>3 DEF BodyReads
  <2> QED BY <2>1, <2>2, <2>3
<1> QED BY <1>2, <1>3 DEF Reads

\* NextIsAhead after a call, with the section read before it.
LEMMA AheadAfter ==
  ASSUME UNCHANGED <<section, beyond>>,
         NEW start, start = IF entry'.type \in Compound THEN entry'.offset ELSE from',
         entry'.offset_to_next = NextAt(start),
         entry'.offset_to_next \in (start + 1) .. data_section_size,
         entry'.offset = from' \/ call' = "decode_one_follow",
         call' = "decode_one_follow" => entry'.type # POINTER
  PROVE  NextIsAhead'
<1>1. data_section_size' = data_section_size
  BY DEF data_section_size
<1>2. \A x : mem(x)' = mem(x)
  BY <1>1 DEF mem
<1>3. \A x : /\ HeadEnd(x)' = HeadEnd(x) /\ TypeAt(x)' = TypeAt(x)
             /\ SizeBytes(x)' = SizeBytes(x) /\ psize(x)' = psize(x)
  BY <1>2 DEF HeadEnd, TypeAt, SizeBytes, psize, Extended, get_ext_type
<1>4. BodyStart(start)' = BodyStart(start) /\ HasBody(start)' = HasBody(start)
  BY <1>3 DEF BodyStart, HasBody
<1>5. SizeAt(start)' = SizeAt(start)
  <2>1. \A x : mem(HeadEnd(x))' = mem(HeadEnd(x))
    BY <1>1, <1>3 DEF mem
  <2>2. \A x : /\ get_uint16(HeadEnd(x))' = get_uint16(HeadEnd(x))
               /\ get_uint24(HeadEnd(x))' = get_uint24(HeadEnd(x))
    BY <1>1, <1>3 DEF get_uint16, get_uint24, mem
  <2> QED BY <1>2, <1>3, <2>1, <2>2 DEF SizeAt
<1>6. NextAt(start)' = NextAt(start)
  BY <1>3, <1>4, <1>5 DEF NextAt
<1> QED BY <1>1, <1>6 DEF NextIsAhead

\* A call of decode_one.
LEMMA DecodeOneHolds ==
  ASSUME IndInv, NEW o \in Nat, SectionOK, entry \in EntryType, UNCHANGED <<section, beyond>>,
         entry' = Decoded(entry, o), reads' = Reads(o), from' = o, status' = StatusOf(o),
         \/ call' = "decode_one"
         \/ call' = "decode_one_follow" /\ ~PointsAway(o)
  PROVE  IndInv'
<1>1. data_section_size' = data_section_size
  BY DEF data_section_size
<1>2. /\ entry' \in EntryType
      /\ ~Invalid(o) => entry' = Filled(entry, o) /\ entry'.type # EXTENDED
  BY DecodedEntry
<1>3. status' = "MMDB_SUCCESS" => ~Invalid(o)
  BY DEF StatusOf
<1>4. TypeOK'
  <2>1. reads' \subseteq Nat
    BY ReadsType
  <2>2. status' \in {"MMDB_SUCCESS", "MMDB_INVALID_DATA_ERROR"}
    BY DEF StatusOf
  <2> QED BY <1>1, <1>2, <1>3, <2>1, <2>2 DEF TypeOK, SectionOK, EntryType
<1>5. /\ Filled(entry, o).offset = o /\ Filled(entry, o).type = TypeAt(o)
      /\ Filled(entry, o).offset_to_next = NextAt(o)
      /\ TypeAt(o) \in {UTF8_STRING, BYTES} =>
           /\ Filled(entry, o).bytes = BodyStart(o)
           /\ Filled(entry, o).data_size = SizeAt(o)
  BY FilledEntry
<1>6. BodyStart(o) \in Nat /\ SizeAt(o) \in Nat /\ data_section_size \in Nat
  BY HeadFacts, SizeIsNat
<1>7. ReadsStayInside'
  <2> SUFFICES ASSUME data_section_size >= 3
               PROVE  ReadsStayInside'
    BY <1>1 DEF ReadsStayInside
  <2>1. InSection(reads)'
    BY <1>1, ReadsInside DEF InSection
  <2>2. ASSUME ~Invalid(o), TypeAt(o) \in {UTF8_STRING, BYTES}
        PROVE  InSection(BodyStart(o) .. (BodyStart(o) + SizeAt(o) - 1))
    BY <1>6, <2>2, NextInside DEF InSection
  <2>3. ASSUME status' = "MMDB_SUCCESS", entry'.type \in {UTF8_STRING, BYTES}
        PROVE  InSection(entry.bytes .. (entry.bytes + entry.data_size - 1))'
    BY <1>1, <1>2, <1>3, <1>5, <2>2, <2>3 DEF InSection
  <2> QED BY <2>1, <2>3 DEF ReadsStayInside
<1>8. NextIsAhead'
  <2> SUFFICES ASSUME data_section_size >= 3, status' = "MMDB_SUCCESS"
               PROVE  NextIsAhead'
    BY <1>1 DEF NextIsAhead
  <2>1. ~Invalid(o) /\ entry' = Filled(entry, o)
    BY <1>2, <1>3
  <2>2. o < NextAt(o) /\ NextAt(o) <= data_section_size
    BY <2>1, NextInside
  <2>3. call' = "decode_one_follow" => TypeAt(o) # POINTER
    BY <2>1 DEF PointsAway
  <2>4. NextAt(o) \in Nat /\ entry'.offset = o /\ entry'.offset_to_next = NextAt(o)
    BY <1>5, <2>1, NextIsLater
  <2> QED BY <1>6, <2>1, <2>2, <2>3, <2>4, <1>5, AheadAfter
<1> QED BY <1>4, <1>7, <1>8 DEF IndInv

\* A call of decode_one_follow that meets a pointer.
LEMMA FollowPointerHolds ==
  ASSUME IndInv, NEW o \in Nat, SectionOK, entry \in EntryType, FollowPointer(o)
  PROVE  IndInv'
<1> DEFINE first == Decoded(entry, o)
           to == first.pointer
           target == Decoded(first, to)
           failed == Invalid(to) \/ target.type = POINTER
<1>1. /\ ~Invalid(o) /\ TypeAt(o) = POINTER
      /\ reads' = Reads(o) \cup Reads(to)
      /\ entry' = IF failed \/ target.type \in Compound THEN target
                  ELSE [target EXCEPT !.offset_to_next = first.offset_to_next]
      /\ call' = "decode_one_follow" /\ from' = o
      /\ status' = IF failed THEN "MMDB_INVALID_DATA_ERROR" ELSE "MMDB_SUCCESS"
      /\ UNCHANGED <<section, beyond>>
  BY DEF FollowPointer, PointsAway, Returns, memoryVars, Followed, FollowFails, FollowStatus
<1>2. data_section_size' = data_section_size
  BY <1>1 DEF data_section_size
<1>3. first \in EntryType /\ first.offset_to_next = NextAt(o)
  BY <1>1, DecodedEntry, FilledEntry
<1>4. to \in Nat /\ first.offset_to_next \in Nat
  BY <1>3 DEF EntryType
<1>5. /\ target \in EntryType
      /\ ~failed => /\ target = Filled(first, to) /\ target.type = TypeAt(to)
                    /\ target.type # EXTENDED
  BY <1>3, <1>4, DecodedEntry
<1>6. /\ entry' \in EntryType
      /\ entry'.type = target.type /\ entry'.offset = target.offset
      /\ entry'.bytes = target.bytes /\ entry'.data_size = target.data_size
      /\ entry'.offset_to_next = IF failed \/ target.type \in Compound
                                 THEN target.offset_to_next ELSE first.offset_to_next
  <2>1. CASE failed \/ target.type \in Compound
    BY <1>1, <1>5, <2>1
  <2>2. CASE ~(failed \/ target.type \in Compound)
    <3>1. entry' = [target EXCEPT !.offset_to_next = first.offset_to_next]
      BY <1>1, <2>2
    <3> HIDE DEF first, to, target, failed
    <3> QED BY <1>4, <1>5, <2>2, <3>1 DEF EntryType
  <2> QED BY <2>1, <2>2
<1>7. status' = "MMDB_SUCCESS" => ~failed
  BY <1>1
<1>8. /\ Filled(first, to).offset = to
      /\ Filled(first, to).offset_to_next = NextAt(to)
      /\ TypeAt(to) \in {UTF8_STRING, BYTES} =>
           /\ Filled(first, to).bytes = BodyStart(to)
           /\ Filled(first, to).data_size = SizeAt(to)
  BY <1>3, <1>4, FilledEntry
<1>9. BodyStart(to) \in Nat /\ SizeAt(to) \in Nat /\ data_section_size \in Nat
  BY <1>4, HeadFacts, SizeIsNat
<1>10. Reads(o) \subseteq Nat /\ Reads(to) \subseteq Nat
  BY <1>4, ReadsType
<1>11. data_section_size >= 3 => /\ InSection(Reads(o)) /\ InSection(Reads(to))
                                 /\ o < NextAt(o) /\ NextAt(o) <= data_section_size
  BY <1>1, <1>4, ReadsInside, NextInside
<1>12. data_section_size >= 3 /\ ~Invalid(to) =>
         /\ to < NextAt(to) /\ NextAt(to) <= data_section_size
         /\ TypeAt(to) \in {UTF8_STRING, BYTES} =>
              BodyStart(to) + SizeAt(to) <= data_section_size
  BY <1>4, NextInside
<1>13. failed <=> Invalid(to) \/ target.type = POINTER
  OBVIOUS
<1> HIDE DEF first, to, target, failed
<1>14. TypeOK'
  <2>1. reads' \subseteq Nat
    BY <1>1, <1>10
  <2>2. /\ call' \in {"none", "decode_one", "decode_one_follow"}
        /\ status' \in {"MMDB_SUCCESS", "MMDB_INVALID_DATA_ERROR"}
        /\ from' \in Nat
    BY <1>1
  <2>3. status' = "MMDB_SUCCESS" => entry'.type # EXTENDED
    BY <1>5, <1>6, <1>7
  <2>4. section' = section /\ beyond' = beyond
    BY <1>1
  <2> QED BY <1>2, <1>6, <2>1, <2>2, <2>3, <2>4 DEF TypeOK, SectionOK, EntryType
<1>15. ReadsStayInside'
  <2> SUFFICES ASSUME data_section_size >= 3
               PROVE  ReadsStayInside'
    BY <1>2 DEF ReadsStayInside
  <2>1. InSection(reads)'
    BY <1>1, <1>2, <1>11 DEF InSection
  <2>2. ASSUME status' = "MMDB_SUCCESS", entry'.type \in {UTF8_STRING, BYTES}
        PROVE  InSection(entry.bytes .. (entry.bytes + entry.data_size - 1))'
    <3>1. entry'.bytes = BodyStart(to) /\ entry'.data_size = SizeAt(to)
      BY <1>5, <1>6, <1>7, <1>8, <2>2
    <3>2. BodyStart(to) + SizeAt(to) <= data_section_size
      BY <1>5, <1>6, <1>7, <1>12, <1>13, <2>2
    <3>3. InSection(BodyStart(to) .. (BodyStart(to) + SizeAt(to) - 1))
      BY <1>9, <3>2 DEF InSection
    <3> QED BY <1>2, <3>1, <3>3 DEF InSection
  <2> QED BY <2>1, <2>2 DEF ReadsStayInside
<1>16. NextIsAhead'
  <2> SUFFICES ASSUME data_section_size >= 3, status' = "MMDB_SUCCESS"
               PROVE  NextIsAhead'
    BY <1>2 DEF NextIsAhead
  <2>1. ~failed /\ entry'.type # POINTER
    BY <1>6, <1>7, <1>13
  <2>2. CASE target.type \in Compound
    <3>1. entry'.offset_to_next = NextAt(to) /\ entry'.offset = to
      BY <1>5, <1>6, <1>8, <2>1, <2>2
    <3>2. NextAt(to) \in (to + 1) .. data_section_size
      BY <1>4, <1>9, <1>12, <1>13, <2>1, NextIsLater
    <3> QED BY <1>1, <1>6, <2>1, <2>2, <3>1, <3>2, AheadAfter
  <2>3. CASE target.type \notin Compound
    <3>1. entry'.offset_to_next = NextAt(o)
      BY <1>3, <1>6, <2>1, <2>3
    <3>2. NextAt(o) \in (o + 1) .. data_section_size
      BY <1>1, <1>9, <1>11, NextIsLater
    <3> QED BY <1>1, <1>6, <2>1, <2>3, <3>1, <3>2, AheadAfter
  <2> QED BY <2>2, <2>3
<1> QED BY <1>14, <1>15, <1>16 DEF IndInv
-------------------------------------------------------------------------------
\* Before the first call the invariant holds.
LEMMA InitHolds == Init => IndInv
<1> SUFFICES ASSUME Init PROVE IndInv
  OBVIOUS
<1>1. section \in Seq(Byte) /\ Len(section) < U32 /\ beyond \in Byte
  BY SectionAssumption, DecoderAssumption DEF Init
<1>2. entry \in EntryType
  BY DEF Init, EmptyEntry, EntryType, EXTENDED
<1>3. TypeOK
  BY <1>1, <1>2 DEF Init, TypeOK, EntryType, data_section_size
<1>4. ReadsStayInside /\ NextIsAhead
  BY DEF Init, ReadsStayInside, NextIsAhead, InSection
<1> QED BY <1>3, <1>4 DEF IndInv

\* Every call keeps the invariant.
LEMMA NextHolds == IndInv /\ [Next]_vars => IndInv'
<1> SUFFICES ASSUME IndInv, [Next]_vars PROVE IndInv'
  OBVIOUS
<1>1. CASE Next
  <2>1. PICK o \in Offsets \cup {entry.offset_to_next, entry.pointer} :
          decode_one(o) \/ decode_one_follow(o)
    BY <1>1 DEF Next
  <2>2. o \in Nat /\ SectionOK /\ entry \in EntryType
    BY CallOffset
  <2>3. CASE decode_one(o)
    BY <2>2, <2>3, DecodeOneHolds DEF decode_one, Returns, memoryVars
  <2>4. CASE FollowNothing(o)
    BY <2>2, <2>4, DecodeOneHolds DEF FollowNothing, Returns, memoryVars
  <2>5. CASE FollowPointer(o)
    BY <2>2, <2>5, FollowPointerHolds
  <2> QED BY <2>1, <2>3, <2>4, <2>5 DEF decode_one_follow
<1>2. CASE UNCHANGED vars
  <2>1. TypeOK' /\ ReadsStayInside'
    BY <1>2 DEF vars, IndInv, TypeOK, ReadsStayInside, InSection, data_section_size
  <2>2. NextIsAhead'
    <3>1. data_section_size' = data_section_size
      BY <1>2 DEF vars, data_section_size
    <3>2. CASE ~(data_section_size >= 3 /\ call # "none" /\ status = "MMDB_SUCCESS")
      BY <1>2, <3>1, <3>2 DEF vars, NextIsAhead
    <3>3. CASE data_section_size >= 3 /\ call # "none" /\ status = "MMDB_SUCCESS"
      BY <1>2, <3>3, AheadAfter DEF vars, IndInv, NextIsAhead
    <3> QED BY <3>2, <3>3
  <2> QED BY <2>1, <2>2 DEF IndInv
<1> QED BY <1>1, <1>2

\* The inductive invariant is the conjunction of the properties: each call
\* establishes them afresh, from the types alone.
THEOREM DecoderInvariant == Spec => []IndInv
BY InitHolds, NextHolds, PTL DEF Spec

\* The entry data decode_one and decode_one_follow leave is always well formed.
THEOREM DecoderTypeCorrect == Spec => []TypeOK
BY DecoderInvariant, PTL DEF IndInv

\* For any bytes, any offset and any pointer, a section of at least 3 bytes is
\* never read outside its bounds, and strings and byte arrays lie within it.
THEOREM DecoderReadsStayInside == Spec => []ReadsStayInside
BY DecoderInvariant, PTL DEF IndInv

\* Whatever decode_one accepts, it moves ahead, and not past the section's end.
THEOREM DecoderMovesAhead == Spec => []NextIsAhead
BY DecoderInvariant, PTL DEF IndInv

-------------------------------------------------------------------------------
\* The three bytes after the head of a value.
LEMMA BytesAfterHead ==
  ASSUME SectionOK, NEW o \in Nat
  PROVE  \E a \in 0 .. 255, b \in 0 .. 255, c \in 0 .. 255 :
           mem(HeadEnd(o)) = a /\ mem(HeadEnd(o) + 1) = b /\ mem(HeadEnd(o) + 2) = c
<1>1. HeadEnd(o) \in Nat
  BY HeadFacts
<1>2. HeadEnd(o) + 1 \in Nat /\ HeadEnd(o) + 2 \in Nat
  BY <1>1
<1>3. /\ mem(HeadEnd(o)) \in 0 .. 255 /\ mem(HeadEnd(o) + 1) \in 0 .. 255
      /\ mem(HeadEnd(o) + 2) \in 0 .. 255
  BY <1>1, <1>2, MemIsByte
<1> QED BY <1>3

\* The four forms of a size; their ranges do not meet.
Spelled(o, a, b, c) ==
  /\ SizeBytes(o) = 0 => SizeAt(o) \in 0 .. 28
  /\ SizeBytes(o) = 1 => SizeAt(o) = 29 + a
  /\ SizeBytes(o) = 2 => SizeAt(o) = 285 + (a * 256 + b)
  /\ SizeBytes(o) = 3 => SizeAt(o) = 65821 + (a * 65536 + b * 256 + c)

\* A size is the number its bytes, here a, b and c, spell in one of the forms.
LEMMA SizeSpelledOut ==
  ASSUME SectionOK, NEW o \in Nat,
         NEW a \in 0 .. 255, NEW b \in 0 .. 255, NEW c \in 0 .. 255,
         mem(HeadEnd(o)) = a, mem(HeadEnd(o) + 1) = b, mem(HeadEnd(o) + 2) = c
  PROVE  Spelled(o, a, b, c)
<1>1. get_uint16(HeadEnd(o)) = a * 256 + b
  BY SMT DEF get_uint16
<1>2. get_uint24(HeadEnd(o)) = a * 65536 + b * 256 + c
  BY SMT DEF get_uint24
<1>3. ASSUME SizeBytes(o) = 0 PROVE SizeAt(o) \in 0 .. 28
  <2>1. PICK r \in 0 .. 31 : mem(o) % 32 = r
    BY MemIsByte, ByteFields
  <2>2. r \in 0 .. 28
    BY <1>3, <2>1, SMT DEF SizeBytes
  <2>3. SizeAt(o) = mem(o) % 32
    BY <1>3, SMT DEF SizeAt
  <2> QED BY <2>1, <2>2, <2>3
<1>4. SizeBytes(o) = 1 => SizeAt(o) = 29 + a
  BY SMT DEF SizeAt
<1>5. SizeBytes(o) = 2 => SizeAt(o) = 285 + (a * 256 + b)
  BY <1>1, SMT DEF SizeAt
<1>6. SizeBytes(o) = 3 => SizeAt(o) = 65821 + (a * 65536 + b * 256 + c)
  BY <1>2, SMT DEF SizeAt
<1> QED BY <1>3, <1>4, <1>5, <1>6, SMT DEF Spelled

\* decode_one has one spelling for each size: values of the same size have
\* size fields of the same length, and with the same bytes.
THEOREM SizeHasOneEncoding ==
  ASSUME SectionOK, NEW o \in Nat, NEW p \in Nat, SizeAt(o) = SizeAt(p)
  PROVE  /\ SizeBytes(o) = SizeBytes(p)
         /\ \A i \in 0 .. (SizeBytes(o) - 1) : mem(HeadEnd(o) + i) = mem(HeadEnd(p) + i)
<1>1. PICK m \in 0 .. 3, n \in 0 .. 3, s \in Nat :
        SizeBytes(o) = m /\ SizeBytes(p) = n /\ SizeAt(o) = s /\ SizeAt(p) = s
  BY HeadFacts
<1>2. PICK a \in 0 .. 255, b \in 0 .. 255, c \in 0 .. 255 :
        mem(HeadEnd(o)) = a /\ mem(HeadEnd(o) + 1) = b /\ mem(HeadEnd(o) + 2) = c
  BY BytesAfterHead
<1>3. PICK x \in 0 .. 255, y \in 0 .. 255, z \in 0 .. 255 :
        mem(HeadEnd(p)) = x /\ mem(HeadEnd(p) + 1) = y /\ mem(HeadEnd(p) + 2) = z
  BY BytesAfterHead
<1>4. Spelled(o, a, b, c)
  BY <1>2, SizeSpelledOut
<1>5. Spelled(p, x, y, z)
  BY <1>3, SizeSpelledOut
<1>6. /\ m = n
      /\ m >= 1 => a = x
      /\ m >= 2 => b = y
      /\ m >= 3 => c = z
  BY <1>1, <1>4, <1>5, SMT DEF Spelled
<1>7. HeadEnd(o) \in Nat /\ HeadEnd(p) \in Nat
  BY HeadFacts
<1>8. mem(HeadEnd(o) + 0) = a /\ mem(HeadEnd(p) + 0) = x
  BY <1>2, <1>3, <1>7
<1>9. \A i \in 0 .. (m - 1) : i = 0 \/ (i = 1 /\ m >= 2) \/ (i = 2 /\ m >= 3)
  OBVIOUS
<1>10. ASSUME NEW i \in 0 .. (m - 1)
       PROVE  mem(HeadEnd(o) + i) = mem(HeadEnd(p) + i)
  BY <1>2, <1>3, <1>6, <1>8, <1>9
<1> QED BY <1>1, <1>6, <1>10

-------------------------------------------------------------------------------
PointerOf(o) == get_ptr_from(mem(o), HeadEnd(o), psize(o))

\* The three short forms of a pointer; their ranges do not meet.  The fourth,
\* 4 bytes, covers them all again.
PointerSpelled(o, v, a, b, c) ==
  /\ psize(o) = 1 => PointerOf(o) = v * 256 + a
  /\ psize(o) = 2 => PointerOf(o) = 2048 + v * 65536 + (a * 256 + b)
  /\ psize(o) = 3 => PointerOf(o) = 2048 + 524288 + v * 16777216
                                      + (a * 65536 + b * 256 + c)

\* A pointer is what 3 bits of its control byte, v, and its bytes spell.
LEMMA PointerSpelledOut ==
  ASSUME SectionOK, NEW o \in Nat, NEW v \in 0 .. 7,
         NEW a \in 0 .. 255, NEW b \in 0 .. 255, NEW c \in 0 .. 255,
         mem(o) % 8 = v,
         mem(HeadEnd(o)) = a, mem(HeadEnd(o) + 1) = b, mem(HeadEnd(o) + 2) = c
  PROVE  PointerSpelled(o, v, a, b, c)
<1>1. get_uint16(HeadEnd(o)) = a * 256 + b
  BY SMT DEF get_uint16
<1>2. get_uint24(HeadEnd(o)) = a * 65536 + b * 256 + c
  BY SMT DEF get_uint24
<1>3. psize(o) = 1 => PointerOf(o) = v * 256 + a
  BY SMT DEF PointerOf, get_ptr_from
<1>4. psize(o) = 2 => PointerOf(o) = 2048 + v * 65536 + (a * 256 + b)
  BY <1>1, SMT DEF PointerOf, get_ptr_from
<1>5. psize(o) = 3 => PointerOf(o) = 2048 + 524288 + v * 16777216
                                       + (a * 65536 + b * 256 + c)
  BY <1>2, SMT DEF PointerOf, get_ptr_from
<1> QED BY <1>3, <1>4, <1>5, SMT DEF PointerSpelled

\* get_ptr_from has one spelling for each pointer in the short forms: pointers
\* of 1 to 3 bytes with one target are the same bits.
THEOREM PointerHasOneEncoding ==
  ASSUME SectionOK, NEW o \in Nat, NEW p \in Nat, psize(o) # 4, psize(p) # 4,
         PointerOf(o) = PointerOf(p)
  PROVE  /\ psize(o) = psize(p) /\ mem(o) % 8 = mem(p) % 8
         /\ \A i \in 0 .. (psize(o) - 1) : mem(HeadEnd(o) + i) = mem(HeadEnd(p) + i)
<1>1. PICK m \in 1 .. 3, n \in 1 .. 3, q \in Nat :
        psize(o) = m /\ psize(p) = n /\ PointerOf(o) = q /\ PointerOf(p) = q
  <2>1. psize(o) \in 1 .. 4 /\ psize(p) \in 1 .. 4
    BY HeadFacts
  <2>2. psize(o) \in 1 .. 3 /\ psize(p) \in 1 .. 3
    BY <2>1
  <2>3. PointerOf(o) \in Nat
    BY PointerType DEF PointerOf
  <2> QED BY <2>2, <2>3
<1>2. PICK v \in 0 .. 7, w \in 0 .. 7 : mem(o) % 8 = v /\ mem(p) % 8 = w
  BY MemIsByte, ByteFields
<1>3. PICK a \in 0 .. 255, b \in 0 .. 255, c \in 0 .. 255 :
        mem(HeadEnd(o)) = a /\ mem(HeadEnd(o) + 1) = b /\ mem(HeadEnd(o) + 2) = c
  BY BytesAfterHead
<1>4. PICK x \in 0 .. 255, y \in 0 .. 255, z \in 0 .. 255 :
        mem(HeadEnd(p)) = x /\ mem(HeadEnd(p) + 1) = y /\ mem(HeadEnd(p) + 2) = z
  BY BytesAfterHead
<1>5. PointerSpelled(o, v, a, b, c) /\ PointerSpelled(p, w, x, y, z)
  <2>1. PointerSpelled(o, v, a, b, c)
    BY <1>2, <1>3, PointerSpelledOut
  <2>2. PointerSpelled(p, w, x, y, z)
    BY <1>2, <1>4, PointerSpelledOut
  <2> QED BY <2>1, <2>2
<1>6. /\ m = n /\ v = w /\ a = x
      /\ m >= 2 => b = y
      /\ m >= 3 => c = z
  <2>1. CASE m = 1
    BY <1>1, <1>5, <2>1, SMT DEF PointerSpelled
  <2>2. CASE m = 2
    BY <1>1, <1>5, <2>2, SMT DEF PointerSpelled
  <2>3. CASE m = 3
    BY <1>1, <1>5, <2>3, SMT DEF PointerSpelled
  <2> QED BY <2>1, <2>2, <2>3
<1>7. HeadEnd(o) \in Nat /\ HeadEnd(p) \in Nat
  BY HeadFacts
<1>8. mem(HeadEnd(o) + 0) = a /\ mem(HeadEnd(p) + 0) = x
  BY <1>3, <1>4, <1>7
<1>9. \A i \in 0 .. (m - 1) : i = 0 \/ (i = 1 /\ m >= 2) \/ (i = 2 /\ m >= 3)
  OBVIOUS
<1>10. ASSUME NEW i \in 0 .. (m - 1)
       PROVE  mem(HeadEnd(o) + i) = mem(HeadEnd(p) + i)
  BY <1>3, <1>4, <1>6, <1>8, <1>9
<1> QED BY <1>1, <1>2, <1>6, <1>10

===============================================================================
