---------------------------- MODULE DecodingProofs ----------------------------
(***************************************************************************)
(* Facts about the operators of Decoding, whoever uses them: where the     *)
(* parts of a value are, that one that passes the checks lies inside the   *)
(* section, and what decode_one and decode_one_follow leave in the entry   *)
(* data; and about those of Format: that the recursive functions obey      *)
(* their equations on every span, which WellFoundedInduction leaves to a   *)
(* least counterexample, and what the equations say of ends, lists and     *)
(* keys.                                                                   *)
(***************************************************************************)
EXTENDS Format, TLAPS, WellFoundedInduction, SequenceTheorems

\* What never changes: the section, its size a uint32_t, and what is past it.
SectionOK ==
  section \in Seq(Byte) /\ data_section_size < U32 /\ beyond \in Byte

\* The size of a section is a number.
LEMMA SizeIsNat == SectionOK => data_section_size \in Nat
BY DEF data_section_size, SectionOK

\* Whatever the offset, mem yields a byte.
LEMMA MemIsByte ==
  ASSUME SectionOK, NEW o \in Nat
  PROVE  mem(o) \in 0 .. 255
<1>1. CASE o < data_section_size
  <2>1. o + 1 \in 1 .. Len(section)
    BY <1>1 DEF data_section_size, SectionOK
  <2>2. section[o + 1] \in Byte
    BY <2>1 DEF SectionOK
  <2> QED BY <1>1, <2>2 DEF mem, Byte
<1>2. CASE ~(o < data_section_size)
  BY <1>2 DEF mem, SectionOK, Byte
<1> QED BY <1>1, <1>2

\* What the getters of unsigned numbers return.
LEMMA UintTypes ==
  ASSUME SectionOK, NEW o \in Nat
  PROVE  /\ get_uint16(o) \in Nat
         /\ get_uint24(o) \in Nat
         /\ get_uint32(o) \in Nat
<1>1. /\ mem(o) \in 0 .. 255 /\ mem(o + 1) \in 0 .. 255
      /\ mem(o + 2) \in 0 .. 255 /\ mem(o + 3) \in 0 .. 255
  BY MemIsByte
<1>2. PICK a \in 0 .. 255, b \in 0 .. 255, c \in 0 .. 255, d \in 0 .. 255 :
        mem(o) = a /\ mem(o + 1) = b /\ mem(o + 2) = c /\ mem(o + 3) = d
  BY <1>1
<1>3. /\ a * 256 + b \in Nat
      /\ a * 65536 + b * 256 + c \in Nat
      /\ a * 16777216 + b * 65536 + c * 256 + d \in Nat
  OBVIOUS
<1> QED BY <1>2, <1>3, SMT DEF get_uint16, get_uint24, get_uint32

\* The fields of a control byte.
LEMMA ByteFields ==
  ASSUME NEW b \in 0 .. 255
  PROVE  /\ b \div 32 \in 0 .. 7
         /\ b % 32 \in 0 .. 31
         /\ b % 8 \in 0 .. 7
         /\ (b \div 8) % 4 \in 0 .. 3
<1>1. b \div 32 \in 0 .. 7 /\ b % 32 \in 0 .. 31 /\ b % 8 \in 0 .. 7
  OBVIOUS
<1>2. b \div 8 \in Nat
  OBVIOUS
<1>3. \A q \in Nat : q % 4 \in 0 .. 3
  OBVIOUS
<1> QED BY <1>1, <1>2, <1>3

\* The parts of the value at o are where decode_one's arithmetic puts them.
LEMMA HeadFacts ==
  ASSUME SectionOK, NEW o \in Nat
  PROVE  /\ HeadEnd(o) \in Nat /\ o < HeadEnd(o) /\ HeadEnd(o) <= o + 2
         /\ TypeAt(o) \in 1 .. (7 + 255)
         /\ psize(o) \in 1 .. 4
         /\ SizeBytes(o) \in 0 .. 3
         /\ BodyStart(o) \in Nat /\ BodyStart(o) = HeadEnd(o) + SizeBytes(o)
         /\ SizeAt(o) \in Nat
<1>1. mem(o) \in 0 .. 255 /\ mem(o + 1) \in 0 .. 255
  BY MemIsByte
<1>2. /\ mem(o) \div 32 \in 0 .. 7
      /\ mem(o) % 32 \in 0 .. 31
      /\ (mem(o) \div 8) % 4 \in 0 .. 3
  BY <1>1, ByteFields
<1>3. HeadEnd(o) \in Nat /\ o < HeadEnd(o) /\ HeadEnd(o) <= o + 2
  BY DEF HeadEnd
<1>4. TypeAt(o) \in 1 .. (7 + 255)
  BY <1>1, <1>2 DEF TypeAt, Extended, EXTENDED, get_ext_type
<1>5. psize(o) \in 1 .. 4
  BY <1>2 DEF psize
<1>6. SizeBytes(o) \in 0 .. 3
  BY <1>2 DEF SizeBytes
<1>7. BodyStart(o) \in Nat /\ BodyStart(o) = HeadEnd(o) + SizeBytes(o)
  BY <1>3, <1>6 DEF BodyStart
<1>8. SizeAt(o) \in Nat
  <2>1. /\ mem(HeadEnd(o)) \in 0 .. 255
        /\ mem(HeadEnd(o) + 1) \in 0 .. 255
        /\ mem(HeadEnd(o) + 2) \in 0 .. 255
    BY <1>3, MemIsByte
  <2>2. get_uint16(HeadEnd(o)) \in Nat /\ get_uint24(HeadEnd(o)) \in Nat
    BY <1>3, UintTypes
  <2> QED BY <1>2, <1>6, <2>1, <2>2 DEF SizeAt
<1> QED BY <1>3, <1>4, <1>5, <1>6, <1>7, <1>8

\* The check offset > data_section_size - k does what it is meant to, as long
\* as the subtraction does not wrap.
LEMMA PastIsSound ==
  ASSUME SectionOK, NEW o \in Nat, NEW k \in Nat, k <= data_section_size, ~Past(o, k)
  PROVE  o + k <= data_section_size
<1>1. data_section_size \in Nat
  BY DEF data_section_size, SectionOK
<1> QED BY <1>1 DEF Past, Minus
-------------------------------------------------------------------------------
\* What a value that passes the checks of its control byte occupies.
LEMMA HeadInside ==
  ASSUME SectionOK, data_section_size >= 3, NEW o \in Nat, ~HeadPast(o)
  PROVE  /\ o < data_section_size
         /\ ~ExtendedPast(o) => HeadEnd(o) <= data_section_size
<1>1. data_section_size \in Nat
  BY DEF data_section_size, SectionOK
<1>2. o + 1 <= data_section_size
  BY <1>1, PastIsSound DEF HeadPast
<1>3. ASSUME ~ExtendedPast(o) PROVE HeadEnd(o) <= data_section_size
  <2>1. CASE Extended(o)
    <3>1. (o + 1) + 1 <= data_section_size
      BY <1>1, <1>3, <2>1, PastIsSound DEF ExtendedPast
    <3> QED BY <2>1, <3>1 DEF HeadEnd
  <2>2. CASE ~Extended(o)
    BY <1>2, <2>2 DEF HeadEnd
  <2> QED BY <2>1, <2>2
<1> QED BY <1>1, <1>2, <1>3

\* The pointer's bytes, the bytes of a size, and the body.
LEMMA PartsInside ==
  ASSUME SectionOK, data_section_size >= 3, NEW o \in Nat, ~HeadPast(o), ~ExtendedPast(o)
  PROVE  /\ ~PointerPast(o) => HeadEnd(o) + psize(o) <= data_section_size
         /\ ~SizePast(o) => BodyStart(o) <= data_section_size
         /\ ~SizePast(o) /\ ~BodyPast(o) => BodyStart(o) + SizeAt(o) <= data_section_size
<1>0. /\ HeadEnd(o) \in Nat /\ o < HeadEnd(o) /\ HeadEnd(o) <= o + 2
      /\ TypeAt(o) \in 1 .. (7 + 255)
      /\ psize(o) \in 1 .. 4
      /\ SizeBytes(o) \in 0 .. 3
      /\ BodyStart(o) \in Nat /\ BodyStart(o) = HeadEnd(o) + SizeBytes(o)
      /\ SizeAt(o) \in Nat
  BY HeadFacts
<1>1. data_section_size \in Nat
  BY DEF data_section_size, SectionOK
<1>2. ASSUME ~PointerPast(o) PROVE HeadEnd(o) + psize(o) <= data_section_size
  <2>1. ~Past(HeadEnd(o), psize(o)) /\ psize(o) <= data_section_size
    BY <1>0, <1>1, <1>2 DEF PointerPast
  <2> QED BY <1>0, <2>1, PastIsSound
<1>3. ASSUME ~SizePast(o) PROVE BodyStart(o) <= data_section_size
  <2>1. CASE SizeBytes(o) = 0
    BY <1>0, <2>1, HeadInside
  <2>2. CASE SizeBytes(o) > 0
    <3>1. ~Past(HeadEnd(o), SizeBytes(o)) /\ SizeBytes(o) <= data_section_size
      BY <1>0, <1>1, <1>3, <2>2 DEF SizePast
    <3> QED BY <1>0, <3>1, PastIsSound
  <2> QED BY <1>0, <2>1, <2>2
<1>4. ASSUME ~SizePast(o), ~BodyPast(o)
      PROVE  BodyStart(o) + SizeAt(o) <= data_section_size
  <2>1. ~Past(BodyStart(o), SizeAt(o)) /\ SizeAt(o) <= data_section_size
    BY <1>0, <1>1, <1>4 DEF BodyPast
  <2> QED BY <1>0, <2>1, PastIsSound
<1> QED BY <1>2, <1>3, <1>4

-------------------------------------------------------------------------------
(***************************************************************************)
(* What decode_one leaves in the entry data.                               *)
(***************************************************************************)
\* Entry data whose type is in T.
EntryOf(T) == [offset : Nat, type : T, pointer : Nat, bytes : Nat,
               data_size : Nat, offset_to_next : Nat]

TypesAt == 1 .. (7 + 255)

\* A pointer is a number.
LEMMA PointerType ==
  ASSUME SectionOK, NEW o \in Nat
  PROVE  get_ptr_from(mem(o), HeadEnd(o), psize(o)) \in Nat
<1>1. HeadEnd(o) \in Nat
  BY HeadFacts
<1>2. mem(o) % 8 \in 0 .. 7 /\ mem(HeadEnd(o)) \in 0 .. 255
  BY <1>1, MemIsByte, ByteFields
<1>3. /\ get_uint16(HeadEnd(o)) \in Nat /\ get_uint24(HeadEnd(o)) \in Nat
      /\ get_uint32(HeadEnd(o)) \in Nat
  BY <1>1, UintTypes
<1> QED BY <1>2, <1>3 DEF get_ptr_from

\* The fields decode_one sets.
LEMMA FilledFields ==
  ASSUME SectionOK, NEW o \in Nat, NEW T, TypesAt \subseteq T, NEW e \in EntryOf(T)
  PROVE  /\ Filled(e, o) \in EntryOf(T)
         /\ Filled(e, o).offset = o
         /\ Filled(e, o).type = TypeAt(o)
         /\ Filled(e, o).offset_to_next = NextAt(o)
         /\ TypeAt(o) \in {UTF8_STRING, BYTES} =>
              Filled(e, o).bytes = BodyStart(o) /\ Filled(e, o).data_size = SizeAt(o)
<1>1. /\ HeadEnd(o) \in Nat /\ TypeAt(o) \in 1 .. (7 + 255) /\ psize(o) \in 1 .. 4
      /\ BodyStart(o) \in Nat /\ SizeAt(o) \in Nat
  BY HeadFacts
<1>2. get_ptr_from(mem(o), HeadEnd(o), psize(o)) \in Nat
  BY PointerType
<1>3. NextAt(o) \in Nat
  BY <1>1 DEF NextAt
<1>4. DataSizeAt(e, o) \in Nat
  BY <1>1 DEF DataSizeAt, EntryOf
<1>5. TypeAt(o) \in {UTF8_STRING, BYTES} => DataSizeAt(e, o) = SizeAt(o)
  BY DEF DataSizeAt, POINTER, UTF8_STRING, BYTES
<1>6. TypeAt(o) \in T
  BY <1>1 DEF TypesAt
<1> QED BY <1>2, <1>1, <1>3, <1>4, <1>5, <1>6 DEF Filled, EntryOf

\* A value that decode_one accepts ends inside the section, after it began; a
\* string or byte array lies between.
LEMMA NextInside ==
  ASSUME SectionOK, data_section_size >= 3, NEW o \in Nat, ~Invalid(o)
  PROVE  /\ o < NextAt(o) /\ NextAt(o) <= data_section_size
         /\ TypeAt(o) \in {UTF8_STRING, BYTES} =>
              BodyStart(o) + SizeAt(o) <= data_section_size
<1>1. ~HeadPast(o) /\ ~ExtendedPast(o)
  BY DEF Invalid
<1>2. /\ HeadEnd(o) \in Nat /\ o < HeadEnd(o) /\ psize(o) \in 1 .. 4
      /\ SizeBytes(o) \in 0 .. 3 /\ BodyStart(o) \in Nat
      /\ BodyStart(o) = HeadEnd(o) + SizeBytes(o) /\ SizeAt(o) \in Nat
  BY HeadFacts
<1>3. CASE TypeAt(o) = POINTER
  <2>1. ~PointerPast(o)
    BY <1>3 DEF Invalid
  <2>2. HeadEnd(o) + psize(o) <= data_section_size
    BY <1>1, <2>1, PartsInside
  <2> QED BY <1>2, <1>3, <2>2 DEF NextAt, POINTER, UTF8_STRING, BYTES
<1>4. CASE TypeAt(o) # POINTER
  <2>1. ~SizePast(o) /\ (HasBody(o) => ~BodyPast(o))
    BY <1>4 DEF Invalid
  <2>2. /\ BodyStart(o) <= data_section_size
        /\ HasBody(o) => BodyStart(o) + SizeAt(o) <= data_section_size
    BY <1>1, <2>1, PartsInside
  <2>3. TypeAt(o) \in {UTF8_STRING, BYTES} => HasBody(o)
    BY DEF HasBody, Compound, MAP, ARRAY, BOOLEAN_TYPE, UTF8_STRING, BYTES
  <2> QED BY <1>2, <1>4, <2>2, <2>3 DEF NextAt
<1> QED BY <1>3, <1>4

\* What decode_one leaves, accepted or not, is entry data; an accepted value
\* has fields that are all its own.
LEMMA DecodedFields ==
  ASSUME SectionOK, NEW o \in Nat, NEW T, TypesAt \subseteq T, NEW e \in EntryOf(T)
  PROVE  /\ Decoded(e, o) \in EntryOf(T)
         /\ ~Invalid(o) => /\ Decoded(e, o) = Filled(e, o)
                           /\ Decoded(e, o).type = TypeAt(o)
                           /\ Decoded(e, o).type # EXTENDED
<1>1. TypeAt(o) \in 1 .. (7 + 255)
  BY HeadFacts
<1>2. Filled(e, o) \in EntryOf(T) /\ Filled(e, o).type = TypeAt(o)
  BY FilledFields
<1>3. CASE HeadPast(o)
  BY <1>3 DEF Decoded, Invalid
<1>4. CASE ~HeadPast(o) /\ ExtendedPast(o)
  <2>1. Decoded(e, o) = [e EXCEPT !.offset = o]
    BY <1>4 DEF Decoded
  <2> QED BY <1>4, <2>1 DEF EntryOf, Invalid
<1>5. CASE ~HeadPast(o) /\ ~ExtendedPast(o) /\ Invalid(o)
  <2>1. Decoded(e, o) = [e EXCEPT !.offset = o, !.type = TypeAt(o)]
    BY <1>5 DEF Decoded
  <2>2. PICK t \in T : t = TypeAt(o)
    BY <1>1 DEF TypesAt
  <2>3. [e EXCEPT !.offset = o, !.type = t] \in EntryOf(T)
    BY DEF EntryOf
  <2> QED BY <1>5, <2>1, <2>2, <2>3
<1>6. CASE ~Invalid(o)
  <2>1. ~HeadPast(o) /\ ~ExtendedPast(o)
    BY <1>6 DEF Invalid
  <2>2. Decoded(e, o) = Filled(e, o)
    BY <1>6, <2>1 DEF Decoded
  <2> QED BY <1>1, <1>2, <2>2 DEF EXTENDED
<1> QED BY <1>3, <1>4, <1>5, <1>6

\* The same of decode_one_follow.
LEMMA FollowedFields ==
  ASSUME SectionOK, NEW o \in Nat, NEW T, TypesAt \subseteq T, NEW e \in EntryOf(T)
  PROVE  Followed(e, o) \in EntryOf(T)
<1> DEFINE first == Decoded(e, o)
           target == Decoded(first, first.pointer)
<1>1. first \in EntryOf(T)
  BY DecodedFields
<1>2. first.pointer \in Nat /\ first.offset_to_next \in Nat
  BY <1>1 DEF EntryOf
<1>3. target \in EntryOf(T)
  BY <1>1, <1>2, DecodedFields
<1>4. [target EXCEPT !.offset_to_next = first.offset_to_next] \in EntryOf(T)
  BY <1>2, <1>3 DEF EntryOf
<1>5. Followed(e, o) \in {first, target,
                          [target EXCEPT !.offset_to_next = first.offset_to_next]}
  <2> HIDE DEF first, target
  <2>1. Followed(e, o) =
          CASE ~PointsAway(o) -> first
            [] PointsAway(o) /\ (FollowFails(e, o) \/ target.type \in Compound) -> target
            [] OTHER -> [target EXCEPT !.offset_to_next = first.offset_to_next]
    BY DEF Followed, first, target
  <2> QED BY <2>1, Zenon
<1> QED BY <1>1, <1>3, <1>4, <1>5

\* A value that decode_one accepts begins inside the section and ends after it
\* began, however short the section is.
LEMMA NextIsLater ==
  ASSUME SectionOK, NEW o \in Nat, ~Invalid(o)
  PROVE  o < data_section_size /\ NextAt(o) \in Nat /\ o < NextAt(o)
<1>1. /\ HeadEnd(o) \in Nat /\ o < HeadEnd(o) /\ psize(o) \in 1 .. 4
      /\ SizeBytes(o) \in 0 .. 3 /\ BodyStart(o) \in Nat
      /\ BodyStart(o) = HeadEnd(o) + SizeBytes(o) /\ SizeAt(o) \in Nat
  BY HeadFacts
<1>2. ~HeadPast(o) /\ data_section_size \in Nat
  BY SizeIsNat DEF Invalid
<1>3. 1 <= data_section_size /\ ~Past(o, 1)
  BY <1>2 DEF HeadPast
<1>4. o + 1 <= data_section_size
  BY <1>3, PastIsSound
<1>5. NextAt(o) \in Nat /\ o < NextAt(o)
  BY <1>1 DEF NextAt
<1> QED BY <1>2, <1>4, <1>5


(***************************************************************************)
(* Recursion that ends.  A function that is defined by recursion exists, and *)
(* satisfies its equation, if what it calls for comes before what it is called *)
(* for; what holds of everything is shown on the least counterexample.     *)
(***************************************************************************)
\* Every non-empty set of natural numbers has a least element: the form of
\* induction the proofs below use.
LEMMA LeastNumber ==
  ASSUME NEW T \in SUBSET Nat, T # {}
  PROVE  \E n \in T : \A m \in T : n <= m
<1>1. PICK x \in T : \A y \in T : ~(<<y, x>> \in OpToRel(<, Nat))
  <2>1. IsWellFoundedOn(OpToRel(<, Nat), Nat)
    BY NatLessThanWellFounded
  <2> QED BY <2>1, WFMin
<1>2. \A y \in T : ~(y < x)
  BY <1>1 DEF OpToRel
<1> QED BY <1>2

\* y comes before x: it has the smaller a, or the same and the smaller b.
Before(a, b, y, x) == a[y] < a[x] \/ (a[y] = a[x] /\ b[y] < b[x])

\* Every non-empty set has an element that none of it comes before.
LEMMA LeastPair ==
  ASSUME NEW S, NEW a \in [S -> Nat], NEW b \in [S -> Nat], NEW T \in SUBSET S, T # {}
  PROVE  \E x \in T : \A y \in T : ~Before(a, b, y, x)
<1> DEFINE A == {a[x] : x \in T}
<1>1. A \in SUBSET Nat /\ A # {}
  OBVIOUS
<1>2. PICK m \in A : \A k \in A : m <= k
  <2> HIDE DEF A
  <2> QED BY <1>1, LeastNumber
<1>3. m \in Nat
  BY <1>1, <1>2
<1> DEFINE B == {b[x] : x \in {y \in T : a[y] = m}}
<1>4. B \in SUBSET Nat /\ B # {}
  BY <1>2
<1>5. PICK n \in B : \A k \in B : n <= k
  <2> HIDE DEF B
  <2> QED BY <1>4, LeastNumber
<1>6. n \in Nat
  BY <1>4, <1>5
<1>7. PICK x \in T : a[x] = m /\ b[x] = n
  BY <1>5
<1>8. \A y \in T : m <= a[y] /\ (a[y] = m => n <= b[y])
  BY <1>2, <1>5
<1> HIDE DEF A, B
<1>9. \A y \in T : a[y] \in Nat /\ b[y] \in Nat
  OBVIOUS
<1>10. \A y \in T : ~Before(a, b, y, x)
  BY <1>3, <1>6, <1>7, <1>8, <1>9 DEF Before
<1> QED BY <1>10

\* The step function G of a recursion uses only what comes before.
Recurses(a, b, S, T, G) ==
  /\ G \in [[S -> T] -> [S -> T]]
  /\ \A f, g \in [S -> T], x \in S :
       (\A y \in S : Before(a, b, y, x) => f[y] = g[y]) => G[f][x] = G[g][x]

\* What comes before y, and y, obey the recursion.
Obeys(a, b, S, G, f, x) ==
  \A y \in S : y = x \/ Before(a, b, y, x) => f[y] = G[f][y]

\* Two functions that obey agree.
LEMMA OneSolution ==
  ASSUME NEW S, NEW T, NEW a \in [S -> Nat], NEW b \in [S -> Nat], NEW G,
         Recurses(a, b, S, T, G), NEW f \in [S -> T], NEW g \in [S -> T], NEW x \in S,
         Obeys(a, b, S, G, f, x), Obeys(a, b, S, G, g, x)
  PROVE  f[x] = g[x]
<1> DEFINE D == {y \in S : (y = x \/ Before(a, b, y, x)) /\ f[y] # g[y]}
<1> SUFFICES ASSUME D # {} PROVE FALSE
  OBVIOUS
<1>1. D \in SUBSET S
  OBVIOUS
<1>2. PICK y \in D : \A z \in D : ~Before(a, b, z, y)
  <2> HIDE DEF D
  <2> QED BY <1>1, LeastPair
<1>3. y \in S /\ (y = x \/ Before(a, b, y, x)) /\ f[y] # g[y]
  BY <1>2
<1>4. \A z \in S : Before(a, b, z, y) => z = x \/ Before(a, b, z, x)
  <2>1. \A z \in S : a[z] \in Nat /\ b[z] \in Nat
    OBVIOUS
  <2> QED BY <1>3, <2>1 DEF Before
<1>5. \A z \in S : Before(a, b, z, y) => f[z] = g[z]
  BY <1>2, <1>4
<1> HIDE DEF D
<1>6. G[f][y] = G[g][y]
  BY <1>3, <1>5 DEF Recurses
<1>7. f[y] = G[f][y] /\ g[y] = G[g][y]
  BY <1>3 DEF Obeys
<1> QED BY <1>3, <1>6, <1>7

\* A set with all that comes before its elements; there are solutions up to each.
Closed(a, b, S, D) == \A x \in D, y \in S : Before(a, b, y, x) => y \in D
Solved(a, b, S, T, G, D) ==
  \A x \in D : \E f \in [S -> T] : Obeys(a, b, S, G, f, x)

\* Solutions up to every point of a set make one up to all of them.
LEMMA SolutionsMeet ==
  ASSUME NEW S, NEW T, NEW a \in [S -> Nat], NEW b \in [S -> Nat], NEW G,
         Recurses(a, b, S, T, G), NEW t \in T, NEW D \in SUBSET S,
         Closed(a, b, S, D), Solved(a, b, S, T, G, D)
  PROVE  \E h \in [S -> T] : \A x \in D : h[x] = G[h][x]
<1> DEFINE F(x) == CHOOSE f \in [S -> T] : Obeys(a, b, S, G, f, x)
           h == [x \in S |-> IF x \in D THEN F(x)[x] ELSE t]
<1>1. \A x \in D : F(x) \in [S -> T] /\ Obeys(a, b, S, G, F(x), x)
  BY DEF Solved
<1> HIDE DEF F
<1>2. h \in [S -> T]
  BY <1>1
<1>3. ASSUME NEW x \in D PROVE h[x] = G[h][x]
  <2> DEFINE f == F(x)
  <2>1. f \in [S -> T] /\ Obeys(a, b, S, G, f, x) /\ h[x] = f[x]
    BY <1>1, <1>3
  <2>2. ASSUME NEW y \in S, Before(a, b, y, x) PROVE h[y] = f[y]
    <3>1. y \in D /\ h[y] = F(y)[y]
      BY <2>2 DEF Closed
    <3>2. F(y) \in [S -> T] /\ Obeys(a, b, S, G, F(y), y)
      BY <1>1, <3>1
    <3>3. \A z \in S : z = y \/ Before(a, b, z, y) => Before(a, b, z, x)
      <4>1. \A z \in S : a[z] \in Nat /\ b[z] \in Nat
        OBVIOUS
      <4> QED BY <2>2, <4>1 DEF Before
    <3>4. Obeys(a, b, S, G, f, y)
      BY <2>1, <3>3 DEF Obeys
    <3> HIDE DEF h, f
    <3>5. F(y)[y] = f[y]
      BY <2>1, <3>2, <3>4, OneSolution
    <3> QED BY <3>1, <3>5
  <2> HIDE DEF h, f
  <2>3. G[h][x] = G[f][x]
    BY <1>2, <1>3, <2>1, <2>2 DEF Recurses
  <2>4. f[x] = G[f][x]
    BY <2>1 DEF Obeys
  <2> QED BY <2>1, <2>3, <2>4
<1> HIDE DEF h
<1> QED BY <1>2, <1>3

\* A recursion has a solution.
LEMMA RecursionHasSolution ==
  ASSUME NEW S, NEW T, NEW a \in [S -> Nat], NEW b \in [S -> Nat], NEW G,
         Recurses(a, b, S, T, G), NEW t \in T
  PROVE  \E f \in [S -> T] : f = G[f]
<1> DEFINE D == {x \in S : ~ \E f \in [S -> T] : Obeys(a, b, S, G, f, x)}
<1>1. D = {}
  <2> SUFFICES ASSUME D # {} PROVE FALSE
    OBVIOUS
  <2>1. PICK x \in D : \A z \in D : ~Before(a, b, z, x)
    <3>1. D \in SUBSET S
      OBVIOUS
    <3> HIDE DEF D
    <3> QED BY <3>1, LeastPair
  <2> DEFINE E == {y \in S : Before(a, b, y, x)}
  <2>2. x \in S /\ \A f \in [S -> T] : ~Obeys(a, b, S, G, f, x)
    BY <2>1
  <2>3. \A y \in E : \E f \in [S -> T] : Obeys(a, b, S, G, f, y)
    BY <2>1
  <2>4. \A y \in E, z \in S : Before(a, b, z, y) => z \in E
    <3>1. \A z \in S : a[z] \in Nat /\ b[z] \in Nat
      OBVIOUS
    <3> QED BY <2>2, <3>1 DEF Before
  <2>5. E \in SUBSET S /\ Closed(a, b, S, E) /\ Solved(a, b, S, T, G, E)
    <3>1. E \in SUBSET S
      OBVIOUS
    <3> HIDE DEF E
    <3> QED BY <3>1, <2>3, <2>4 DEF Closed, Solved
  <2>6. PICK h \in [S -> T] : \A y \in E : h[y] = G[h][y]
    <3> HIDE DEF D, E
    <3> QED BY <2>5, SolutionsMeet
  <2> HIDE DEF D
  <2> DEFINE f == [y \in S |-> IF y = x THEN G[h][x] ELSE h[y]]
  <2>7. f \in [S -> T]
    BY <2>2 DEF Recurses
  <2>8. x \notin E
    <3>1. a[x] \in Nat /\ b[x] \in Nat
      BY <2>2
    <3> QED BY <3>1 DEF Before
  <2>9. \A y \in E : f[y] = h[y]
    BY <2>8
  <2>10. f[x] = G[h][x]
    BY <2>2
  <2> HIDE DEF f
  <2>11. ASSUME NEW y \in S, y = x \/ Before(a, b, y, x) PROVE G[f][y] = G[h][y]
    <3>1. \A z \in S : Before(a, b, z, y) => f[z] = h[z]
      BY <2>4, <2>9, <2>11
    <3> QED BY <2>7, <3>1 DEF Recurses
  <2>12. Obeys(a, b, S, G, f, x)
    BY <2>6, <2>9, <2>10, <2>11 DEF Obeys
  <2> QED BY <2>2, <2>7, <2>12
<1>2. \A x \in S : \E f \in [S -> T] : Obeys(a, b, S, G, f, x)
  BY <1>1
<1> HIDE DEF D
<1>3. PICK h \in [S -> T] : \A x \in S : h[x] = G[h][x]
  <2>1. S \in SUBSET S /\ Closed(a, b, S, S) /\ Solved(a, b, S, T, G, S)
    BY <1>2 DEF Closed, Solved
  <2> QED BY <2>1, SolutionsMeet
<1>4. G[h] \in [S -> T]
  BY DEF Recurses
<1>5. h = G[h]
  BY <1>3, <1>4
<1> QED BY <1>5

(***************************************************************************)
(* Where values end and which members they hold: the format, whatever the  *)
(* code makes of it.                                                       *)
(***************************************************************************)
\* A value has a number of members; a pointer and a simple value have none.
LEMMA MembersFacts ==
  ASSUME SectionOK, NEW o \in Nat
  PROVE  /\ MembersAt(o) \in Nat
         /\ TypeAt(o) \notin Compound => MembersAt(o) = 0
         /\ NextAt(o) \in Nat
<1>1. /\ HeadEnd(o) \in Nat /\ psize(o) \in 1 .. 4 /\ BodyStart(o) \in Nat /\ SizeAt(o) \in Nat
  BY HeadFacts
<1>2. MembersAt(o) \in Nat /\ (TypeAt(o) \notin Compound => MembersAt(o) = 0)
  BY <1>1 DEF MembersAt, Compound
<1> QED BY <1>1, <1>2 DEF NextAt

\* What EndOf and every function like it say, one argument at a time: a run of
\* values ends where the rest of it ends after the first.
Ends(f) ==
  \A o, n \in Nat :
    /\ f[<<o, 0>>] = o
    /\ Invalid(o) => f[<<o, n + 1>>] = Nowhere
    /\ ~Invalid(o) /\ f[<<NextAt(o), MembersAt(o)>>] > o =>
         f[<<o, n + 1>>] = f[<<f[<<NextAt(o), MembersAt(o)>>], n>>]

\* How much of the section is left from an offset on.
Room(o) == IF o < data_section_size THEN data_section_size - o ELSE 0
RoomAt == [s \in Nat \X Nat |-> Room(s[1])]
CountAt == [s \in Nat \X Nat |-> s[2]]

\* The two measures of a run of values.
LEMMA Measures ==
  ASSUME SectionOK
  PROVE  /\ RoomAt \in [Nat \X Nat -> Nat] /\ CountAt \in [Nat \X Nat -> Nat]
         /\ \A o, n \in Nat : RoomAt[<<o, n>>] = Room(o) /\ CountAt[<<o, n>>] = n
         /\ \A o, n, p, m \in Nat : ~Invalid(o) /\ p > o =>
              Before(RoomAt, CountAt, <<p, m>>, <<o, n>>)
<1>1. data_section_size \in Nat
  BY SizeIsNat
<1>2. \A o \in Nat : Room(o) \in Nat
  BY <1>1 DEF Room
<1>3. \A s \in Nat \X Nat : s[1] \in Nat /\ s[2] \in Nat
  OBVIOUS
<1>4. RoomAt \in [Nat \X Nat -> Nat] /\ CountAt \in [Nat \X Nat -> Nat]
  BY <1>2, <1>3 DEF RoomAt, CountAt
<1>5. \A o, n \in Nat : RoomAt[<<o, n>>] = Room(o) /\ CountAt[<<o, n>>] = n
  <2>1. TAKE o, n \in Nat
  <2>2. <<o, n>> \in Nat \X Nat /\ <<o, n>>[1] = o /\ <<o, n>>[2] = n
    OBVIOUS
  <2> QED BY <2>2 DEF RoomAt, CountAt
<1>6. ASSUME NEW o \in Nat, NEW n \in Nat, NEW p \in Nat, NEW m \in Nat, ~Invalid(o), p > o
      PROVE  Before(RoomAt, CountAt, <<p, m>>, <<o, n>>)
  <2>1. o < data_section_size
    BY <1>6, NextIsLater
  <2>2. Room(p) < Room(o)
    BY <1>1, <1>6, <2>1 DEF Room
  <2> QED BY <1>5, <2>2 DEF Before
<1> QED BY <1>4, <1>5, <1>6

\* A run of values ends after it began, or nowhere.
LEMMA EndsAhead ==
  ASSUME SectionOK, NEW f, Ends(f)
  PROVE  \A o, n \in Nat : /\ f[<<o, n>>] \in Nat
                           /\ f[<<o, n>>] >= o \/ f[<<o, n>>] = Nowhere
<1> DEFINE Ahead(s) == f[s] \in Nat /\ (f[s] >= s[1] \/ f[s] = Nowhere)
           T == {s \in Nat \X Nat : ~Ahead(s)}
<1>1. T = {}
  <2> SUFFICES ASSUME T # {} PROVE FALSE
    OBVIOUS
  <2>1. T \in SUBSET (Nat \X Nat)
    OBVIOUS
  <2>2. PICK x \in T : \A y \in T : ~Before(RoomAt, CountAt, y, x)
    <3> HIDE DEF T
    <3> QED BY <2>1, Measures, LeastPair
  <2>3. PICK o \in Nat, n \in Nat : x = <<o, n>>
    BY <2>2
  <2>4. ~Ahead(<<o, n>>)
    BY <2>2, <2>3
  <2>5. \A p, m \in Nat : Before(RoomAt, CountAt, <<p, m>>, <<o, n>>) => Ahead(<<p, m>>)
    BY <2>2, <2>3
  <2>6. \A p, m \in Nat : Ahead(<<p, m>>) <=>
          f[<<p, m>>] \in Nat /\ (f[<<p, m>>] >= p \/ f[<<p, m>>] = Nowhere)
    OBVIOUS
  <2> HIDE DEF T, Ahead
  <2>7. n # 0
    <3>1. f[<<o, 0>>] = o
      BY DEF Ends
    <3> QED BY <2>4, <2>6, <3>1
  <2>8. PICK k \in Nat : n = k + 1
    <3>1. n - 1 \in Nat /\ n = (n - 1) + 1
      BY <2>7
    <3> QED BY <3>1
  <2>9. U32 \in Nat
    BY SectionAssumption
  <2>10. ~Invalid(o)
    <3>1. Invalid(o) => f[<<o, n>>] = Nowhere
      BY <2>8 DEF Ends
    <3> QED BY <2>4, <2>6, <2>9, <3>1 DEF Nowhere
  <2> DEFINE e == f[<<NextAt(o), MembersAt(o)>>]
  <2>11. NextAt(o) \in Nat /\ MembersAt(o) \in Nat /\ o < NextAt(o) /\ o < U32
    <3>1. o < data_section_size /\ data_section_size < U32 /\ data_section_size \in Nat
      BY <2>10, NextIsLater, SizeIsNat DEF SectionOK
    <3> QED BY <2>9, <2>10, <3>1, NextIsLater, MembersFacts
  <2>12. Ahead(<<NextAt(o), MembersAt(o)>>)
    BY <2>5, <2>10, <2>11, Measures
  <2>13. e \in Nat /\ e > o
    BY <2>6, <2>11, <2>12 DEF Nowhere
  <2>14. f[<<o, n>>] = f[<<e, k>>]
    BY <2>8, <2>10, <2>13 DEF Ends
  <2> HIDE DEF e
  <2>15. Ahead(<<e, k>>)
    BY <2>5, <2>10, <2>13, Measures
  <2>16. f[<<e, k>>] \in Nat /\ (f[<<e, k>>] >= e \/ f[<<e, k>>] = Nowhere)
    BY <2>6, <2>13, <2>15
  <2> QED BY <2>4, <2>6, <2>13, <2>14, <2>16
<1>2. ASSUME NEW o \in Nat, NEW n \in Nat
      PROVE  f[<<o, n>>] \in Nat /\ (f[<<o, n>>] >= o \/ f[<<o, n>>] = Nowhere)
  <2>1. <<o, n>> \in Nat \X Nat /\ <<o, n>>[1] = o
    OBVIOUS
  <2>2. Ahead(<<o, n>>)
    BY <1>1, <2>1
  <2> QED BY <2>1, <2>2
<1> QED BY <1>2

\* The recursion of EndOf, made total.
EndStep(f, s) ==
  IF s[2] = 0 THEN s[1]
  ELSE IF Invalid(s[1]) THEN Nowhere
  ELSE IF f[<<NextAt(s[1]), MembersAt(s[1])>>] > s[1]
       THEN f[<<f[<<NextAt(s[1]), MembersAt(s[1])>>], s[2] - 1>>] ELSE Nowhere

\* It has a solution.
LEMMA SomeEnds ==
  ASSUME SectionOK
  PROVE  \E f \in [Nat \X Nat -> Nat] : \A s \in Nat \X Nat : f[s] = EndStep(f, s)
<1> DEFINE S == Nat \X Nat
           G == [f \in [S -> Nat] |-> [s \in S |-> EndStep(f, s)]]
<1>1. U32 \in Nat /\ Nowhere \in Nat
  BY SectionAssumption DEF Nowhere
<1>2. \A s \in S : /\ s[1] \in Nat /\ s[2] \in Nat /\ s = <<s[1], s[2]>>
                   /\ NextAt(s[1]) \in Nat /\ MembersAt(s[1]) \in Nat
                   /\ <<NextAt(s[1]), MembersAt(s[1])>> \in S
  BY MembersFacts
<1>3. ASSUME NEW f \in [S -> Nat], NEW s \in S PROVE EndStep(f, s) \in Nat
  <2> DEFINE e == f[<<NextAt(s[1]), MembersAt(s[1])>>]
  <2>1. e \in Nat
    BY <1>2
  <2>2. s[2] # 0 => s[2] - 1 \in Nat
    BY <1>2
  <2>3. s[2] # 0 => f[<<e, s[2] - 1>>] \in Nat
    BY <2>1, <2>2
  <2> QED BY <1>1, <1>2, <2>3 DEF EndStep
<1>4. G \in [[S -> Nat] -> [S -> Nat]]
  BY <1>3
<1>5. ASSUME NEW f \in [S -> Nat], NEW g \in [S -> Nat], NEW s \in S,
             \A y \in S : Before(RoomAt, CountAt, y, s) => f[y] = g[y]
      PROVE  EndStep(f, s) = EndStep(g, s)
  <2>1. CASE s[2] = 0 \/ Invalid(s[1])
    BY <2>1 DEF EndStep
  <2>2. CASE s[2] # 0 /\ ~Invalid(s[1])
    <3> DEFINE y == <<NextAt(s[1]), MembersAt(s[1])>>
               e == f[y]
    <3>1. y \in S /\ Before(RoomAt, CountAt, y, s)
      <4>1. s[1] \in Nat /\ s[2] \in Nat /\ s = <<s[1], s[2]>> /\ y \in S
            /\ NextAt(s[1]) \in Nat /\ MembersAt(s[1]) \in Nat
        BY <1>2
      <4>2. NextAt(s[1]) > s[1]
        BY <2>2, <4>1, NextIsLater
      <4>3. Before(RoomAt, CountAt, <<NextAt(s[1]), MembersAt(s[1])>>, <<s[1], s[2]>>)
        BY <2>2, <4>1, <4>2, Measures
      <4> QED BY <4>1, <4>3
    <3>2. e = g[y] /\ e \in Nat
      BY <1>5, <3>1
    <3> HIDE DEF y
    <3>3. CASE e > s[1]
      <4>1. <<e, s[2] - 1>> \in S /\ Before(RoomAt, CountAt, <<e, s[2] - 1>>, s)
        BY <1>2, <2>2, <3>2, <3>3, Measures
      <4>2. f[<<e, s[2] - 1>>] = g[<<e, s[2] - 1>>]
        BY <1>5, <4>1
      <4> QED BY <3>2, <4>2 DEF EndStep, y
    <3>4. CASE ~(e > s[1])
      BY <3>2, <3>4 DEF EndStep, y
    <3> QED BY <3>3, <3>4
  <2> QED BY <2>1, <2>2
<1>6. Recurses(RoomAt, CountAt, S, Nat, G)
  <2>1. \A f \in [S -> Nat], s \in S : G[f][s] = EndStep(f, s)
    OBVIOUS
  <2> HIDE DEF G
  <2> QED BY <1>4, <1>5, <2>1 DEF Recurses
<1>7. \A f \in [S -> Nat] : G[f] = [s \in S |-> EndStep(f, s)]
  OBVIOUS
<1> HIDE DEF G
<1>8. PICK f \in [S -> Nat] : f = G[f]
  <2>1. 0 \in Nat /\ RoomAt \in [S -> Nat] /\ CountAt \in [S -> Nat]
    BY Measures
  <2> HIDE DEF S
  <2> QED BY <1>6, <2>1, RecursionHasSolution
<1>9. f = [s \in S |-> EndStep(f, s)]
  BY <1>7, <1>8
<1>10. \A s \in S : f[s] = EndStep(f, s)
  <2> HIDE DEF S
  <2> QED BY <1>9, Zenon
<1> QED BY <1>10

\* EndOf is defined: it obeys its recursion.
LEMMA EndOfRecurs ==
  ASSUME SectionOK
  PROVE  EndOf = [s \in Nat \X Nat |->
           IF s[2] = 0 THEN s[1]
           ELSE IF Invalid(s[1]) THEN Nowhere
           ELSE EndOf[<<EndOf[<<NextAt(s[1]), MembersAt(s[1])>>], s[2] - 1>>]]
<1> DEFINE S == Nat \X Nat
<1>1. PICK f \in [S -> Nat] : \A s \in S : f[s] = EndStep(f, s)
  BY SomeEnds
<1>2. ASSUME NEW o \in Nat, NEW n \in Nat
      PROVE  /\ f[<<o, 0>>] = o
             /\ Invalid(o) => f[<<o, n + 1>>] = Nowhere
             /\ ~Invalid(o) /\ f[<<NextAt(o), MembersAt(o)>>] > o =>
                  f[<<o, n + 1>>] = f[<<f[<<NextAt(o), MembersAt(o)>>], n>>]
  <2>1. <<o, 0>> \in S /\ <<o, n + 1>> \in S
    OBVIOUS
  <2>2. f[<<o, 0>>] = EndStep(f, <<o, 0>>) /\ f[<<o, n + 1>>] = EndStep(f, <<o, n + 1>>)
    BY <1>1, <2>1
  <2>3. n + 1 # 0 /\ (n + 1) - 1 = n
    OBVIOUS
  <2> QED BY <2>2, <2>3 DEF EndStep
<1>3. Ends(f)
  BY <1>2 DEF Ends
<1>4. ASSUME NEW s \in S
      PROVE  f[s] = IF s[2] = 0 THEN s[1]
                    ELSE IF Invalid(s[1]) THEN Nowhere
                    ELSE f[<<f[<<NextAt(s[1]), MembersAt(s[1])>>], s[2] - 1>>]
  <2>1. s[1] \in Nat
    OBVIOUS
  <2>2. ASSUME ~Invalid(s[1]) PROVE f[<<NextAt(s[1]), MembersAt(s[1])>>] > s[1]
    <3> DEFINE o == s[1]
    <3>1. NextAt(o) \in Nat /\ MembersAt(o) \in Nat /\ o < NextAt(o) /\ o < data_section_size
      BY <2>1, <2>2, NextIsLater, MembersFacts
    <3>2. data_section_size \in Nat /\ data_section_size < U32 /\ U32 \in Nat
      BY SizeIsNat, SectionAssumption DEF SectionOK
    <3> DEFINE e == f[<<NextAt(o), MembersAt(o)>>]
    <3>3. e \in Nat /\ (e >= NextAt(o) \/ e = Nowhere)
      BY <1>3, <3>1, EndsAhead
    <3> HIDE DEF e, o
    <3>4. e > o
      BY <2>1, <3>1, <3>2, <3>3 DEF Nowhere, o
    <3> QED BY <3>4 DEF e, o
  <2>3. f[s] = EndStep(f, s)
    BY <1>1
  <2> QED BY <2>2, <2>3 DEF EndStep
<1>5. f = [s \in S |-> IF s[2] = 0 THEN s[1]
                       ELSE IF Invalid(s[1]) THEN Nowhere
                       ELSE f[<<f[<<NextAt(s[1]), MembersAt(s[1])>>], s[2] - 1>>]]
  BY <1>4
<1> QED BY <1>5, Zenon DEF EndOf

\* Its equation, one argument at a time.
LEMMA EndOfEquation ==
  ASSUME SectionOK, NEW o \in Nat, NEW n \in Nat
  PROVE  EndOf[<<o, n>>] =
           IF n = 0 THEN o
           ELSE IF Invalid(o) THEN Nowhere
           ELSE EndOf[<<EndOf[<<NextAt(o), MembersAt(o)>>], n - 1>>]
<1>1. <<o, n>> \in Nat \X Nat /\ <<o, n>>[1] = o /\ <<o, n>>[2] = n
  OBVIOUS
<1>2. \A s \in Nat \X Nat :
        EndOf[s] = IF s[2] = 0 THEN s[1]
                   ELSE IF Invalid(s[1]) THEN Nowhere
                   ELSE EndOf[<<EndOf[<<NextAt(s[1]), MembersAt(s[1])>>], s[2] - 1>>]
  BY EndOfRecurs
<1> QED BY <1>1, <1>2

\* What EndOf is: typed, and ahead.
LEMMA EndOfType ==
  ASSUME SectionOK, NEW o \in Nat, NEW n \in Nat
  PROVE  /\ EndOf[<<o, n>>] \in Nat
         /\ EndOf[<<o, n>>] >= o \/ EndOf[<<o, n>>] = Nowhere
<1>1. ASSUME NEW p \in Nat, NEW m \in Nat
      PROVE  /\ EndOf[<<p, 0>>] = p
             /\ Invalid(p) => EndOf[<<p, m + 1>>] = Nowhere
             /\ ~Invalid(p) =>
                  EndOf[<<p, m + 1>>] = EndOf[<<EndOf[<<NextAt(p), MembersAt(p)>>], m>>]
  <2>1. EndOf[<<p, 0>>] = p
    BY EndOfEquation
  <2>2. m + 1 \in Nat /\ m + 1 # 0 /\ (m + 1) - 1 = m
    OBVIOUS
  <2>3. EndOf[<<p, m + 1>>] =
          IF m + 1 = 0 THEN p
          ELSE IF Invalid(p) THEN Nowhere
          ELSE EndOf[<<EndOf[<<NextAt(p), MembersAt(p)>>], (m + 1) - 1>>]
    BY <2>2, EndOfEquation
  <2> QED BY <2>1, <2>2, <2>3
<1>2. Ends(EndOf)
  BY <1>1 DEF Ends
<1> QED BY <1>2, EndsAhead

\* No values end where they start.
LEMMA EndOfNone ==
  ASSUME SectionOK, NEW o \in Nat
  PROVE  EndOf[<<o, 0>>] = o
BY EndOfEquation

\* Values of which the first is malformed end nowhere.
LEMMA EndOfInvalid ==
  ASSUME SectionOK, NEW o \in Nat, NEW n \in Nat, n # 0, Invalid(o)
  PROVE  EndOf[<<o, n>>] = Nowhere
BY EndOfEquation

\* Otherwise they go on after the first.
LEMMA EndOfNext ==
  ASSUME SectionOK, NEW o \in Nat, NEW n \in Nat, n # 0, ~Invalid(o)
  PROVE  EndOf[<<o, n>>] = EndOf[<<EndOf[<<NextAt(o), MembersAt(o)>>], n - 1>>]
BY EndOfEquation

\* Nothing starts where a malformed value ends.
LEMMA NothingNowhere ==
  ASSUME SectionOK
  PROVE  Nowhere \in Nat /\ Invalid(Nowhere) /\ \A n \in Nat : EndOf[<<Nowhere, n>>] = Nowhere
<1>1. U32 \in Nat /\ data_section_size \in Nat /\ data_section_size < U32
  BY SizeIsNat, SectionAssumption DEF SectionOK
<1>2. Nowhere \in Nat /\ Invalid(Nowhere)
  BY <1>1 DEF Nowhere, Invalid, HeadPast, Past, Minus
<1>3. ASSUME NEW n \in Nat PROVE EndOf[<<Nowhere, n>>] = Nowhere
  <2>1. CASE n = 0
    BY <1>2, <2>1, EndOfNone
  <2>2. CASE n # 0
    BY <1>2, <2>2, EndOfInvalid
  <2> QED BY <2>1, <2>2
<1> QED BY <1>2, <1>3

\* The end of one value.
LEMMA EndAtFacts ==
  ASSUME SectionOK, NEW o \in Nat
  PROVE  /\ EndAt(o) \in Nat
         /\ Invalid(o) => EndAt(o) = Nowhere
         /\ ~Invalid(o) => EndAt(o) = EndOf[<<NextAt(o), MembersAt(o)>>] /\ EndAt(o) > o
         /\ \A n \in Nat : n > 0 => EndOf[<<o, n>>] = EndOf[<<EndAt(o), n - 1>>]
<1>1. 1 - 1 = 0 /\ NextAt(o) \in Nat /\ MembersAt(o) \in Nat
  BY MembersFacts
<1>2. EndAt(o) \in Nat
  BY EndOfType DEF EndAt
<1>3. Invalid(o) => EndAt(o) = Nowhere
  BY <1>1, EndOfInvalid DEF EndAt
<1>4. ASSUME ~Invalid(o) PROVE EndAt(o) = EndOf[<<NextAt(o), MembersAt(o)>>] /\ EndAt(o) > o
  <2> DEFINE e == EndOf[<<NextAt(o), MembersAt(o)>>]
  <2>1. e \in Nat /\ (e >= NextAt(o) \/ e = Nowhere)
    BY <1>1, EndOfType
  <2>2. EndAt(o) = EndOf[<<e, 0>>]
    <3>1. EndOf[<<o, 1>>] = EndOf[<<e, 1 - 1>>]
      BY <1>4, EndOfNext
    <3> QED BY <1>1, <3>1 DEF EndAt
  <2> HIDE DEF e
  <2>3. EndAt(o) = e
    BY <2>1, <2>2, EndOfNone
  <2>4. o < data_section_size /\ o < NextAt(o)
    BY <1>4, NextIsLater
  <2>5. data_section_size \in Nat /\ data_section_size < U32 /\ U32 \in Nat
    BY SizeIsNat, SectionAssumption DEF SectionOK
  <2>6. e > o
    BY <1>1, <2>1, <2>4, <2>5 DEF Nowhere
  <2> QED BY <2>3, <2>6 DEF e
<1>5. ASSUME NEW n \in Nat, n > 0 PROVE EndOf[<<o, n>>] = EndOf[<<EndAt(o), n - 1>>]
  <2>1. CASE Invalid(o)
    <3>1. n - 1 \in Nat
      BY <1>5
    <3> QED BY <1>3, <1>5, <2>1, <3>1, EndOfInvalid, NothingNowhere
  <2>2. CASE ~Invalid(o)
    BY <1>4, <1>5, <2>2, EndOfNext
  <2> QED BY <2>1, <2>2
<1> QED BY <1>2, <1>3, <1>4, <1>5

\* A run of values that is cut in two.
LEMMA EndChain ==
  ASSUME SectionOK
  PROVE  \A a, o, b \in Nat : EndOf[<<o, a + b>>] = EndOf[<<EndOf[<<o, a>>], b>>]
<1> DEFINE Cut(a) == \A o, b \in Nat : EndOf[<<o, a + b>>] = EndOf[<<EndOf[<<o, a>>], b>>]
           T == {a \in Nat : ~Cut(a)}
<1>1. T = {}
  <2> SUFFICES ASSUME T # {} PROVE FALSE
    OBVIOUS
  <2>1. T \in SUBSET Nat
    OBVIOUS
  <2>2. PICK a \in T : \A m \in T : a <= m
    <3> HIDE DEF T
    <3> QED BY <2>1, LeastNumber
  <2>3. a \in Nat /\ ~Cut(a) /\ \A m \in Nat : m < a => Cut(m)
    BY <2>2
  <2> HIDE DEF T
  <2>4. a # 0
    <3>1. \A o, b \in Nat : 0 + b = b /\ EndOf[<<o, 0>>] = o
      BY EndOfNone
    <3> QED BY <2>3, <3>1
  <2>5. PICK k \in Nat : a = k + 1 /\ k < a
    <3>1. a - 1 \in Nat /\ (a - 1) + 1 = a /\ a - 1 < a
      BY <2>3, <2>4
    <3> QED BY <3>1
  <2>6. Cut(k)
    BY <2>3, <2>5
  <2>7. ASSUME NEW o \in Nat, NEW b \in Nat
        PROVE  EndOf[<<o, a + b>>] = EndOf[<<EndOf[<<o, a>>], b>>]
    <3>1. a + b > 0 /\ (a + b) - 1 = k + b /\ a > 0 /\ a - 1 = k /\ a + b \in Nat
      BY <2>5
    <3>2. EndAt(o) \in Nat
      BY EndAtFacts
    <3>3. EndOf[<<o, a + b>>] = EndOf[<<EndAt(o), (a + b) - 1>>]
      BY <3>1, EndAtFacts
    <3>4. EndOf[<<o, a>>] = EndOf[<<EndAt(o), a - 1>>]
      BY <2>3, <3>1, EndAtFacts
    <3>5. EndOf[<<EndAt(o), k + b>>] = EndOf[<<EndOf[<<EndAt(o), k>>], b>>]
      BY <2>6, <3>2
    <3> QED BY <3>1, <3>3, <3>4, <3>5
  <2> QED BY <2>3, <2>7
<1>2. \A a \in Nat : Cut(a)
  BY <1>1
<1> QED BY <1>2
-------------------------------------------------------------------------------
\* The value behind a pointer.
LEMMA ResolvedFacts ==
  ASSUME SectionOK, NEW o \in Nat
  PROVE  /\ Resolved(o) \in Nat
         /\ ~PointsAway(o) => Resolved(o) = o
         /\ PointsAway(o) => /\ Resolved(o) = get_ptr_from(mem(o), HeadEnd(o), psize(o))
                             /\ MembersAt(o) = 0 /\ EndAt(o) = NextAt(o)
         /\ Levels(o) \in 1 .. 2
<1>1. Resolved(o) \in Nat
  BY PointerType DEF Resolved
<1>2. ASSUME PointsAway(o) PROVE MembersAt(o) = 0 /\ EndAt(o) = NextAt(o)
  <2>1. ~Invalid(o) /\ TypeAt(o) = POINTER
    BY <1>2 DEF PointsAway
  <2>2. MembersAt(o) = 0 /\ NextAt(o) \in Nat
    BY <2>1, MembersFacts DEF Compound, POINTER, MAP, ARRAY
  <2> QED BY <2>1, <2>2, EndAtFacts, EndOfNone
<1> QED BY <1>1, <1>2 DEF Resolved, Levels

Spans == Nat \X Nat \X Nat
DepthAt == [s \in Spans |-> s[3]]
NumberAt == [s \in Spans |-> s[2]]

\* The measures of the readings that follow pointers.
LEMMA SpanMeasures ==
  /\ DepthAt \in [Spans -> Nat] /\ NumberAt \in [Spans -> Nat]
  /\ \A o, n, d \in Nat : <<o, n, d>> \in Spans /\ DepthAt[<<o, n, d>>] = d
                          /\ NumberAt[<<o, n, d>>] = n
  /\ \A o, n, d, p, m, c \in Nat : c < d \/ (c = d /\ m < n) =>
       Before(DepthAt, NumberAt, <<p, m, c>>, <<o, n, d>>)
<1>1. \A s \in Spans : s[2] \in Nat /\ s[3] \in Nat
  BY DEF Spans
<1>2. DepthAt \in [Spans -> Nat] /\ NumberAt \in [Spans -> Nat]
  BY <1>1 DEF DepthAt, NumberAt
<1>3. ASSUME NEW o \in Nat, NEW n \in Nat, NEW d \in Nat
      PROVE  <<o, n, d>> \in Spans /\ DepthAt[<<o, n, d>>] = d /\ NumberAt[<<o, n, d>>] = n
  <2>1. <<o, n, d>> \in Spans /\ <<o, n, d>>[2] = n /\ <<o, n, d>>[3] = d
    BY DEF Spans
  <2> QED BY <2>1 DEF DepthAt, NumberAt
<1>4. \A o, n, d, p, m, c \in Nat : c < d \/ (c = d /\ m < n) =>
        Before(DepthAt, NumberAt, <<p, m, c>>, <<o, n, d>>)
  BY <1>3 DEF Before
<1> QED BY <1>2, <1>3, <1>4

ListItem == [offset : Nat, type : Nat, offset_to_next : Nat]

\* Items are items.
LEMMA ItemTypes ==
  ASSUME SectionOK
  PROVE  Unreadable \in ListItem /\ \A o \in Nat : ItemAt(o) \in ListItem
                                                  /\ ItemAt(o) # Unreadable
<1>1. Unreadable \in ListItem
  BY NothingNowhere DEF Unreadable, ListItem, EXTENDED
<1>2. ASSUME NEW o \in Nat PROVE ItemAt(o) \in ListItem /\ ItemAt(o) # Unreadable
  <2>1. Resolved(o) \in Nat /\ EndAt(o) \in Nat
    BY ResolvedFacts, EndAtFacts
  <2>2. TypeAt(Resolved(o)) \in 1 .. (7 + 255)
    BY <2>1, HeadFacts
  <2>3. ItemAt(o).type # Unreadable.type
    BY <2>2 DEF ItemAt, Unreadable, EXTENDED
  <2> QED BY <2>1, <2>2, <2>3 DEF ItemAt, ListItem
<1> QED BY <1>1, <1>2

\* One step of Preorder's recursion.
OrderStep(f, s) ==
  IF s[2] = 0 THEN << >>
  ELSE IF NoValue(s[1]) \/ s[3] < Levels(s[1]) THEN <<Unreadable>>
  ELSE <<ItemAt(s[1])>>
         \o f[<<NextAt(Resolved(s[1])), MembersAt(Resolved(s[1])), s[3] - Levels(s[1])>>]
         \o f[<<EndAt(s[1]), s[2] - 1, s[3]>>]

\* What a step uses comes before.
LEMMA SpanParts ==
  ASSUME SectionOK, NEW s \in Spans, s[2] # 0
  PROVE  /\ s[1] \in Nat
         /\ <<EndAt(s[1]), s[2] - 1, s[3]>> \in Spans
         /\ Before(DepthAt, NumberAt, <<EndAt(s[1]), s[2] - 1, s[3]>>, s)
         /\ \A l \in 1 .. 2 : s[3] >= l =>
              /\ <<NextAt(Resolved(s[1])), MembersAt(Resolved(s[1])), s[3] - l>> \in Spans
              /\ Before(DepthAt, NumberAt,
                        <<NextAt(Resolved(s[1])), MembersAt(Resolved(s[1])), s[3] - l>>, s)
<1>1. PICK o \in Nat, n \in Nat, d \in Nat : s = <<o, n, d>>
  BY DEF Spans
<1>2. s[1] = o /\ s[2] = n /\ s[3] = d
  BY <1>1
<1>3. EndAt(o) \in Nat /\ Resolved(o) \in Nat
  BY EndAtFacts, ResolvedFacts
<1>4. NextAt(Resolved(o)) \in Nat /\ MembersAt(Resolved(o)) \in Nat
  BY <1>3, MembersFacts
<1>5. n - 1 \in Nat /\ n - 1 < n
  BY <1>2
<1>6. <<EndAt(o), n - 1, d>> \in Spans
      /\ Before(DepthAt, NumberAt, <<EndAt(o), n - 1, d>>, <<o, n, d>>)
  BY <1>3, <1>5, SpanMeasures
<1>7. ASSUME NEW l \in 1 .. 2, d >= l
      PROVE  /\ <<NextAt(Resolved(o)), MembersAt(Resolved(o)), d - l>> \in Spans
             /\ Before(DepthAt, NumberAt,
                       <<NextAt(Resolved(o)), MembersAt(Resolved(o)), d - l>>, <<o, n, d>>)
  <2>1. d - l \in Nat /\ d - l < d
    BY <1>7
  <2> QED BY <1>4, <2>1, SpanMeasures
<1> QED BY <1>1, <1>2, <1>6, <1>7

\* What comes before decides a step.
LEMMA OrderSteps ==
  ASSUME SectionOK, NEW f, NEW s \in Spans,
         \A y \in Spans : Before(DepthAt, NumberAt, y, s) => f[y] \in Seq(ListItem)
  PROVE  /\ OrderStep(f, s) \in Seq(ListItem)
         /\ \A g : (\A y \in Spans : Before(DepthAt, NumberAt, y, s) => f[y] = g[y]) =>
              OrderStep(f, s) = OrderStep(g, s)
<1>1. CASE s[2] = 0
  <2>1. ASSUME NEW g PROVE OrderStep(g, s) = << >>
    BY <1>1, Zenon DEF OrderStep
  <2>2. << >> \in Seq(ListItem)
    OBVIOUS
  <2> QED BY <2>1, <2>2, Zenon
<1>2. CASE s[2] # 0 /\ (NoValue(s[1]) \/ s[3] < Levels(s[1]))
  <2>1. ASSUME NEW g PROVE OrderStep(g, s) = <<Unreadable>>
    BY <1>2, Zenon DEF OrderStep
  <2>2. <<Unreadable>> \in Seq(ListItem)
    BY ItemTypes
  <2> QED BY <2>1, <2>2, Zenon
<1>3. CASE s[2] # 0 /\ ~(NoValue(s[1]) \/ s[3] < Levels(s[1]))
  <2> DEFINE x == <<NextAt(Resolved(s[1])), MembersAt(Resolved(s[1])), s[3] - Levels(s[1])>>
             y == <<EndAt(s[1]), s[2] - 1, s[3]>>
  <2>1. s[1] \in Nat /\ y \in Spans /\ Before(DepthAt, NumberAt, y, s)
    BY <1>3, SpanParts
  <2>2. Levels(s[1]) \in 1 .. 2 /\ s[3] \in Nat
    BY <2>1, ResolvedFacts DEF Spans
  <2>3. x \in Spans /\ Before(DepthAt, NumberAt, x, s)
    <3>1. s[3] >= Levels(s[1])
      BY <1>3, <2>2
    <3> QED BY <1>3, <2>2, <3>1, SpanParts
  <2>4. f[x] \in Seq(ListItem) /\ f[y] \in Seq(ListItem)
    BY <2>1, <2>3
  <2>5. <<ItemAt(s[1])>> \in Seq(ListItem)
    BY <2>1, ItemTypes
  <2>6. ASSUME NEW g PROVE OrderStep(g, s) = <<ItemAt(s[1])>> \o g[x] \o g[y]
    BY <1>3, Zenon DEF OrderStep
  <2> HIDE DEF x, y
  <2>7. OrderStep(f, s) \in Seq(ListItem)
    <3>1. <<ItemAt(s[1])>> \o f[x] \o f[y] \in Seq(ListItem)
      BY <2>4, <2>5
    <3>2. OrderStep(f, s) = <<ItemAt(s[1])>> \o f[x] \o f[y]
      BY <2>6
    <3> QED BY <3>1, <3>2
  <2>8. ASSUME NEW g, \A z \in Spans : Before(DepthAt, NumberAt, z, s) => f[z] = g[z]
        PROVE  OrderStep(f, s) = OrderStep(g, s)
    <3>1. f[x] = g[x] /\ f[y] = g[y]
      BY <2>1, <2>3, <2>8
    <3> QED BY <2>6, <3>1, Zenon
  <2> QED BY <2>7, <2>8, Zenon
<1> QED BY <1>1, <1>2, <1>3

\* Preorder is defined: it obeys its recursion.
LEMMA PreorderRecurs ==
  ASSUME SectionOK
  PROVE  Preorder = [s \in Spans |-> OrderStep(Preorder, s)]
<1> DEFINE T == Seq(ListItem)
           G == [f \in [Spans -> T] |-> [s \in Spans |-> OrderStep(f, s)]]
<1>1. \A f \in [Spans -> T], s \in Spans : OrderStep(f, s) \in T
  BY OrderSteps
<1>2. G \in [[Spans -> T] -> [Spans -> T]]
      /\ \A f \in [Spans -> T] : G[f] = [s \in Spans |-> OrderStep(f, s)]
  <2> HIDE DEF T
  <2> QED BY <1>1
<1>3. ASSUME NEW f \in [Spans -> T], NEW g \in [Spans -> T], NEW s \in Spans,
             \A y \in Spans : Before(DepthAt, NumberAt, y, s) => f[y] = g[y]
      PROVE  OrderStep(f, s) = OrderStep(g, s)
  BY <1>3, OrderSteps
<1>4. Recurses(DepthAt, NumberAt, Spans, T, G)
  <2> HIDE DEF G, T
  <2>1. \A f \in [Spans -> T], s \in Spans : G[f][s] = OrderStep(f, s)
    BY <1>2
  <2> QED BY <1>2, <1>3, <2>1 DEF Recurses
<1>5. << >> \in T
  OBVIOUS
<1> HIDE DEF G, T
<1>6. PICK f \in [Spans -> T] : f = G[f]
  BY <1>4, <1>5, SpanMeasures, RecursionHasSolution
<1>7. f = [s \in Spans |-> OrderStep(f, s)]
  BY <1>2, <1>6
<1> QED BY <1>7, Zenon DEF Preorder, OrderStep, Spans

\* It is made of items.
LEMMA PreorderType ==
  ASSUME SectionOK, NEW o \in Nat, NEW n \in Nat, NEW d \in Nat
  PROVE  Preorder[<<o, n, d>>] \in Seq(ListItem)
<1> DEFINE T == {s \in Spans : Preorder[s] \notin Seq(ListItem)}
<1>1. T = {}
  <2> SUFFICES ASSUME T # {} PROVE FALSE
    OBVIOUS
  <2>1. T \in SUBSET Spans
    OBVIOUS
  <2>2. PICK s \in T : \A y \in T : ~Before(DepthAt, NumberAt, y, s)
    <3> HIDE DEF T
    <3> QED BY <2>1, SpanMeasures, LeastPair
  <2>3. \A y \in Spans : Before(DepthAt, NumberAt, y, s) => Preorder[y] \in Seq(ListItem)
    BY <2>2
  <2>4. s \in Spans /\ Preorder[s] \notin Seq(ListItem)
    BY <2>2
  <2> HIDE DEF T
  <2>5. OrderStep(Preorder, s) \in Seq(ListItem)
    BY <2>3, <2>4, OrderSteps
  <2>6. Preorder[s] = OrderStep(Preorder, s)
    <3> DEFINE P == Preorder
    <3>1. P = [r \in Spans |-> OrderStep(P, r)]
      BY PreorderRecurs
    <3> HIDE DEF P
    <3>2. P[s] = OrderStep(P, s)
      BY <2>4, <3>1, Zenon
    <3> QED BY <3>2 DEF P
  <2> QED BY <2>4, <2>5, <2>6
<1> QED BY <1>1, SpanMeasures

\* What it says, one argument at a time.
LEMMA PreorderEquation ==
  ASSUME SectionOK, NEW o \in Nat, NEW n \in Nat, NEW d \in Nat
  PROVE  Preorder[<<o, n, d>>] =
           IF n = 0 THEN << >>
           ELSE IF NoValue(o) \/ d < Levels(o) THEN <<Unreadable>>
           ELSE <<ItemAt(o)>>
                  \o Preorder[<<NextAt(Resolved(o)), MembersAt(Resolved(o)), d - Levels(o)>>]
                  \o Preorder[<<EndAt(o), n - 1, d>>]
<1> DEFINE s == <<o, n, d>>
           P == Preorder
<1>1. s \in Spans /\ s[1] = o /\ s[2] = n /\ s[3] = d
  BY SpanMeasures
<1>2. P = [r \in Spans |-> OrderStep(P, r)]
  BY PreorderRecurs
<1> HIDE DEF s, P
<1>3. P[s] = OrderStep(P, s)
  BY <1>1, <1>2, Zenon
<1> QED BY <1>1, <1>3 DEF OrderStep, P, s

\* Unreadable values are found in both parts of a list or in neither.
LEMMA ReadableConcat ==
  ASSUME NEW a \in Seq(ListItem), NEW b \in Seq(ListItem)
  PROVE  Readable(a \o b) <=> Readable(a) /\ Readable(b)
<1> DEFINE c == a \o b
<1>1. /\ Len(a) \in Nat /\ Len(b) \in Nat /\ Len(c) = Len(a) + Len(b) /\ DOMAIN c = 1 .. Len(c)
      /\ DOMAIN a = 1 .. Len(a) /\ DOMAIN b = 1 .. Len(b)
      /\ \A k \in 1 .. Len(a) : c[k] = a[k]
      /\ \A k \in 1 .. Len(b) : c[Len(a) + k] = b[k]
  OBVIOUS
<1> HIDE DEF c
<1>2. ASSUME Readable(c) PROVE Readable(a) /\ Readable(b)
  <2>1. \A k \in 1 .. Len(a) : k \in 1 .. Len(c)
    BY <1>1
  <2>2. \A k \in 1 .. Len(b) : Len(a) + k \in 1 .. Len(c)
    BY <1>1
  <2> QED BY <1>1, <1>2, <2>1, <2>2 DEF Readable
<1>3. ASSUME Readable(a), Readable(b), NEW k \in DOMAIN c PROVE c[k] # Unreadable
  <2>1. CASE k <= Len(a)
    BY <1>1, <1>3, <2>1 DEF Readable
  <2>2. CASE k > Len(a)
    <3>1. k - Len(a) \in 1 .. Len(b) /\ Len(a) + (k - Len(a)) = k
      BY <1>1, <2>2
    <3>2. c[Len(a) + (k - Len(a))] = b[k - Len(a)]
      BY <1>1, <3>1
    <3> QED BY <1>1, <1>3, <3>1, <3>2 DEF Readable
  <2> QED BY <1>1, <2>1, <2>2
<1> QED BY <1>2, <1>3 DEF Readable, c

\* One unreadable value, or one that can be read.
LEMMA ReadableOne ==
  ASSUME SectionOK
  PROVE  /\ ~Readable(<<Unreadable>>) /\ Readable(<< >>)
         /\ \A o \in Nat : Readable(<<ItemAt(o)>>)
<1>1. \A x : Readable(<<x>>) <=> x # Unreadable
  BY DEF Readable
<1> QED BY <1>1, ItemTypes DEF Readable

\* What it takes to read a run of values.
LEMMA SoundParts ==
  ASSUME SectionOK, NEW o \in Nat, NEW n \in Nat, NEW d \in Nat
  PROVE  /\ n = 0 => Sound(o, n, d)
         /\ n # 0 => (Sound(o, n, d) <=>
              /\ ~NoValue(o) /\ d >= Levels(o)
              /\ Sound(NextAt(Resolved(o)), MembersAt(Resolved(o)), d - Levels(o))
              /\ Sound(EndAt(o), n - 1, d))
<1> DEFINE P == Preorder[<<o, n, d>>]
           A == Preorder[<<NextAt(Resolved(o)), MembersAt(Resolved(o)), d - Levels(o)>>]
           B == Preorder[<<EndAt(o), n - 1, d>>]
<1>1. P = IF n = 0 THEN << >>
          ELSE IF NoValue(o) \/ d < Levels(o) THEN <<Unreadable>>
          ELSE <<ItemAt(o)>> \o A \o B
  BY PreorderEquation
<1>2. Levels(o) \in 1 .. 2 /\ Resolved(o) \in Nat /\ EndAt(o) \in Nat
  BY ResolvedFacts, EndAtFacts
<1>3. NextAt(Resolved(o)) \in Nat /\ MembersAt(Resolved(o)) \in Nat
  BY <1>2, MembersFacts
<1>4. d >= Levels(o) => A \in Seq(ListItem)
  <2>1. d >= Levels(o) => d - Levels(o) \in Nat
    BY <1>2
  <2> QED BY <1>3, <2>1, PreorderType
<1>5. n # 0 => B \in Seq(ListItem)
  <2>1. n # 0 => n - 1 \in Nat
    OBVIOUS
  <2> QED BY <1>2, <2>1, PreorderType
<1> HIDE DEF A, B, P
<1>6. <<ItemAt(o)>> \in Seq(ListItem)
  BY ItemTypes
<1>7. ASSUME n # 0, d >= Levels(o)
      PROVE  Readable(<<ItemAt(o)>> \o A \o B) <=> Readable(A) /\ Readable(B)
  <2>1. <<ItemAt(o)>> \o A \in Seq(ListItem)
    BY <1>4, <1>6, <1>7
  <2> QED BY <1>4, <1>5, <1>6, <1>7, <2>1, ReadableConcat, ReadableOne
<1>8. ~(d >= Levels(o)) <=> d < Levels(o)
  BY <1>2
<1>9. CASE n = 0
  BY <1>1, <1>9, ReadableOne DEF Sound, P
<1>10. CASE n # 0 /\ (NoValue(o) \/ d < Levels(o))
  BY <1>1, <1>8, <1>10, ReadableOne DEF Sound, P
<1>11. CASE n # 0 /\ ~(NoValue(o) \/ d < Levels(o))
  BY <1>1, <1>7, <1>8, <1>11 DEF Sound, P, A, B
<1> QED BY <1>9, <1>10, <1>11

\* Two listings of which both hold something unreadable, or that are equal.
Same(a, b) == a = b \/ (~Readable(a) /\ ~Readable(b))

\* Listings can be compared part by part.
LEMMA SameParts ==
  ASSUME NEW a \in Seq(ListItem), NEW b \in Seq(ListItem), NEW c \in Seq(ListItem)
  PROVE  /\ Same(a, a)
         /\ Same(a, b) /\ Same(b, c) => Same(a, c)
         /\ Same(a, b) => Same(a \o c, b \o c) /\ Same(c \o a, c \o b)
         /\ Same(a, b) => (Readable(a) <=> Readable(b))
<1>1. /\ Readable(a \o c) <=> Readable(a) /\ Readable(c)
      /\ Readable(b \o c) <=> Readable(b) /\ Readable(c)
      /\ Readable(c \o a) <=> Readable(c) /\ Readable(a)
      /\ Readable(c \o b) <=> Readable(c) /\ Readable(b)
  BY ReadableConcat
<1> QED BY <1>1, Zenon DEF Same

\* The value at o and what is in it, the value being said to end at own.
Part(o, d, own) ==
  IF NoValue(o) \/ d < Levels(o) THEN <<Unreadable>>
  ELSE <<[offset |-> Resolved(o), type |-> TypeAt(Resolved(o)), offset_to_next |-> own]>>
         \o Preorder[<<NextAt(Resolved(o)), MembersAt(Resolved(o)), d - Levels(o)>>]

Parts == [s \in Spans |-> Part(s[1], s[2], s[3])]

\* The members' listing.
LEMMA InnerType ==
  ASSUME SectionOK, NEW o \in Nat, NEW d \in Nat, ~(d < Levels(o))
  PROVE  /\ d - Levels(o) \in Nat
         /\ NextAt(Resolved(o)) \in Nat /\ MembersAt(Resolved(o)) \in Nat
         /\ Preorder[<<NextAt(Resolved(o)), MembersAt(Resolved(o)), d - Levels(o)>>]
              \in Seq(ListItem)
<1>1. Levels(o) \in 1 .. 2 /\ Resolved(o) \in Nat
  BY ResolvedFacts
<1>2. NextAt(Resolved(o)) \in Nat /\ MembersAt(Resolved(o)) \in Nat
  BY <1>1, MembersFacts
<1>3. d - Levels(o) \in Nat
  BY <1>1
<1> QED BY <1>2, <1>3, PreorderType

\* A part is a listing.
LEMMA PartType ==
  ASSUME SectionOK, NEW o \in Nat, NEW d \in Nat, NEW own \in Nat
  PROVE  Part(o, d, own) \in Seq(ListItem) /\ Parts[<<o, d, own>>] = Part(o, d, own)
<1>1. Resolved(o) \in Nat
  BY ResolvedFacts
<1>2. TypeAt(Resolved(o)) \in Nat
  <2>1. TypeAt(Resolved(o)) \in 1 .. (7 + 255)
    BY <1>1, HeadFacts
  <2> QED BY <2>1
<1> DEFINE i == [offset |-> Resolved(o), type |-> TypeAt(Resolved(o)), offset_to_next |-> own]
           x == Preorder[<<NextAt(Resolved(o)), MembersAt(Resolved(o)), d - Levels(o)>>]
<1>3. i \in ListItem
  BY <1>1, <1>2 DEF ListItem
<1>4. Part(o, d, own) = IF NoValue(o) \/ d < Levels(o) THEN <<Unreadable>> ELSE <<i>> \o x
  BY DEF Part
<1>5. ~(d < Levels(o)) => x \in Seq(ListItem)
  BY InnerType
<1> HIDE DEF i, x
<1>6. Part(o, d, own) \in Seq(ListItem)
  BY <1>3, <1>4, <1>5, ItemTypes
<1>7. Parts[<<o, d, own>>] = Part(o, d, own)
  <2>1. <<o, d, own>> \in Spans
    BY SpanMeasures
  <2> QED BY <2>1 DEF Parts
<1> QED BY <1>6, <1>7

\* A run of values is the first and what is in it, and then the others.
LEMMA PreorderSplit ==
  ASSUME SectionOK, NEW o \in Nat, NEW n \in Nat, n # 0, NEW d \in Nat
  PROVE  Same(Preorder[<<o, n, d>>],
              Part(o, d, EndAt(o)) \o Preorder[<<EndAt(o), n - 1, d>>])
<1> DEFINE i == ItemAt(o)
           x == Preorder[<<NextAt(Resolved(o)), MembersAt(Resolved(o)), d - Levels(o)>>]
           y == Preorder[<<EndAt(o), n - 1, d>>]
<1>1. Preorder[<<o, n, d>>] = IF NoValue(o) \/ d < Levels(o) THEN <<Unreadable>>
                              ELSE <<i>> \o x \o y
  BY PreorderEquation
<1>2. Part(o, d, EndAt(o)) = IF NoValue(o) \/ d < Levels(o) THEN <<Unreadable>>
                             ELSE <<i>> \o x
  BY DEF Part, ItemAt
<1>3. EndAt(o) \in Nat /\ n - 1 \in Nat
  <2>1. EndAt(o) \in Nat
    BY EndAtFacts
  <2>2. n - 1 \in Nat
    OBVIOUS
  <2> QED BY <2>1, <2>2
<1>4. y \in Seq(ListItem)
  BY <1>3, PreorderType
<1> HIDE DEF i, x, y
<1>5. CASE NoValue(o) \/ d < Levels(o)
  <2>1. <<Unreadable>> \in Seq(ListItem)
    BY ItemTypes
  <2>2. ~Readable(<<Unreadable>> \o y)
    BY <1>4, <2>1, ReadableConcat, ReadableOne
  <2> QED BY <1>1, <1>2, <1>5, <2>2, ReadableOne DEF Same, y
<1>6. CASE ~(NoValue(o) \/ d < Levels(o))
  BY <1>1, <1>2, <1>6 DEF Same, y
<1> QED BY <1>5, <1>6

\* One value alone.
LEMMA PreorderAlone ==
  ASSUME SectionOK, NEW o \in Nat, NEW d \in Nat
  PROVE  Same(Preorder[<<o, 1, d>>], Part(o, d, EndAt(o)))
<1>1. Same(Preorder[<<o, 1, d>>], Part(o, d, EndAt(o)) \o Preorder[<<EndAt(o), 0, d>>])
  BY PreorderSplit
<1>2. EndAt(o) \in Nat
  BY EndAtFacts
<1>3. Preorder[<<EndAt(o), 0, d>>] = << >>
  BY <1>2, PreorderEquation
<1>4. Part(o, d, EndAt(o)) \in Seq(ListItem)
  BY <1>2, PartType
<1>5. Part(o, d, EndAt(o)) \o << >> = Part(o, d, EndAt(o))
  BY <1>4
<1> QED BY <1>1, <1>3, <1>5

\* Values that can be read have a byte each to themselves.
LEMMA SoundRoom ==
  ASSUME SectionOK, NEW o \in Nat, NEW n \in Nat, NEW d \in Nat, n # 0, Sound(o, n, d)
  PROVE  o + n <= data_section_size
<1> DEFINE Roomy(k) == \A p \in Nat : k # 0 /\ Sound(p, k, d) => p + k <= data_section_size
           T == {k \in Nat : ~Roomy(k)}
<1>0. data_section_size \in Nat
  BY SizeIsNat
<1>1. T = {}
  <2> SUFFICES ASSUME T # {} PROVE FALSE
    OBVIOUS
  <2>1. T \in SUBSET Nat
    OBVIOUS
  <2>2. PICK k \in T : \A m \in T : k <= m
    <3> HIDE DEF T
    <3> QED BY <2>1, LeastNumber
  <2>3. k \in Nat /\ ~Roomy(k) /\ \A m \in Nat : m < k => Roomy(m)
    BY <2>2
  <2> HIDE DEF T
  <2>4. PICK p \in Nat : k # 0 /\ Sound(p, k, d) /\ ~(p + k <= data_section_size)
    BY <2>3
  <2>5. k - 1 \in Nat /\ k - 1 < k
    BY <2>3, <2>4
  <2>6. ~NoValue(p) /\ Sound(EndAt(p), k - 1, d)
    BY <2>3, <2>4, SoundParts
  <2>7. ~Invalid(p)
    BY <2>6 DEF NoValue
  <2>8. p < data_section_size /\ EndAt(p) \in Nat /\ EndAt(p) > p
    BY <2>7, NextIsLater, EndAtFacts
  <2>9. k - 1 # 0 => EndAt(p) + (k - 1) <= data_section_size
    BY <2>3, <2>5, <2>6, <2>8
  <2> QED BY <1>0, <2>3, <2>4, <2>8, <2>9
<1>2. Roomy(n)
  BY <1>1
<1> QED BY <1>2

\* What does not change when the memory does not.
LEMMA BytesUnchanged ==
  ASSUME UNCHANGED memoryVars
  PROVE  /\ data_section_size' = data_section_size
         /\ \A o : mem(o)' = mem(o)
         /\ \A o, k : Past(o, k)' <=> Past(o, k)
<1>1. section' = section /\ beyond' = beyond
  BY DEF memoryVars
<1>2. data_section_size' = data_section_size
  BY <1>1 DEF data_section_size
<1>3. \A o : mem(o)' = mem(o)
  BY <1>1, <1>2 DEF mem
<1>4. \A o, k : Past(o, k)' <=> Past(o, k)
  BY <1>2 DEF Past, Minus
<1> QED BY <1>2, <1>3, <1>4

\* The parts of a value.
LEMMA HeadsUnchanged ==
  ASSUME UNCHANGED memoryVars
  PROVE  \A o : /\ HeadEnd(o)' = HeadEnd(o) /\ TypeAt(o)' = TypeAt(o) /\ psize(o)' = psize(o)
                /\ SizeBytes(o)' = SizeBytes(o) /\ BodyStart(o)' = BodyStart(o)
                /\ SizeAt(o)' = SizeAt(o) /\ (HeadPast(o)' <=> HeadPast(o))
                /\ (ExtendedPast(o)' <=> ExtendedPast(o))
<1> SUFFICES ASSUME NEW o
             PROVE  /\ HeadEnd(o)' = HeadEnd(o) /\ TypeAt(o)' = TypeAt(o) /\ psize(o)' = psize(o)
                    /\ SizeBytes(o)' = SizeBytes(o) /\ BodyStart(o)' = BodyStart(o)
                    /\ SizeAt(o)' = SizeAt(o) /\ (HeadPast(o)' <=> HeadPast(o))
                    /\ (ExtendedPast(o)' <=> ExtendedPast(o))
  OBVIOUS
<1>0. /\ data_section_size' = data_section_size
      /\ \A p : mem(p)' = mem(p)
      /\ \A p, k : Past(p, k)' <=> Past(p, k)
  BY BytesUnchanged
<1>1. Extended(o)' <=> Extended(o)
  BY <1>0 DEF Extended
<1>2. HeadEnd(o)' = HeadEnd(o)
  BY <1>1 DEF HeadEnd
<1>3. TypeAt(o)' = TypeAt(o)
  BY <1>0, <1>1 DEF TypeAt, get_ext_type
<1>4. psize(o)' = psize(o) /\ SizeBytes(o)' = SizeBytes(o)
  BY <1>0 DEF psize, SizeBytes
<1>5. BodyStart(o)' = BodyStart(o)
  BY <1>2, <1>4 DEF BodyStart
<1>6. mem(HeadEnd(o))' = mem(HeadEnd(o))
      /\ get_uint16(HeadEnd(o))' = get_uint16(HeadEnd(o))
      /\ get_uint24(HeadEnd(o))' = get_uint24(HeadEnd(o))
  <2>1. \A p : get_uint16(p)' = get_uint16(p)
    BY <1>0 DEF get_uint16
  <2>2. \A p : get_uint24(p)' = get_uint24(p)
    BY <1>0 DEF get_uint24
  <2> QED BY <1>0, <1>2, <2>1, <2>2
<1>7. SizeAt(o)' = SizeAt(o)
  BY <1>0, <1>4, <1>6 DEF SizeAt
<1>8. HeadPast(o)' <=> HeadPast(o)
  BY <1>0 DEF HeadPast
<1>9. ExtendedPast(o)' <=> ExtendedPast(o)
  BY <1>0, <1>1 DEF ExtendedPast
<1> QED BY <1>2, <1>3, <1>4, <1>5, <1>7, <1>8, <1>9

\* What decode_one makes of a value.
LEMMA ValuesUnchanged ==
  ASSUME UNCHANGED memoryVars
  PROVE  \A o : /\ Invalid(o)' <=> Invalid(o)
                /\ NextAt(o)' = NextAt(o) /\ MembersAt(o)' = MembersAt(o)
                /\ (PointsAway(o)' <=> PointsAway(o)) /\ Resolved(o)' = Resolved(o)
                /\ (NoValue(o)' <=> NoValue(o)) /\ Levels(o)' = Levels(o)
<1>0. /\ data_section_size' = data_section_size
      /\ \A p : mem(p)' = mem(p)
      /\ \A p, k : Past(p, k)' <=> Past(p, k)
  BY BytesUnchanged
<1>1. \A o : /\ HeadEnd(o)' = HeadEnd(o) /\ TypeAt(o)' = TypeAt(o) /\ psize(o)' = psize(o)
             /\ SizeBytes(o)' = SizeBytes(o) /\ BodyStart(o)' = BodyStart(o)
             /\ SizeAt(o)' = SizeAt(o) /\ (HeadPast(o)' <=> HeadPast(o))
             /\ (ExtendedPast(o)' <=> ExtendedPast(o))
  BY HeadsUnchanged
<1>2. \A o : (PointerPast(o)' <=> PointerPast(o)) /\ (SizePast(o)' <=> SizePast(o))
             /\ (BodyPast(o)' <=> BodyPast(o)) /\ (BadSize(o)' <=> BadSize(o))
             /\ (HasBody(o)' <=> HasBody(o))
  BY <1>0, <1>1 DEF PointerPast, SizePast, BodyPast, BadSize, HasBody
<1>3. \A o : Invalid(o)' <=> Invalid(o)
  BY <1>1, <1>2 DEF Invalid
<1>4. \A o : NextAt(o)' = NextAt(o) /\ MembersAt(o)' = MembersAt(o)
  BY <1>1, <1>2 DEF NextAt, MembersAt
<1>5. \A o : PointsAway(o)' <=> PointsAway(o)
  BY <1>1, <1>3 DEF PointsAway
<1>6. \A c, p, k : get_ptr_from(c, p, k)' = get_ptr_from(c, p, k)
  <2>1. \A p : get_uint16(p)' = get_uint16(p)
    BY <1>0 DEF get_uint16
  <2>2. \A p : get_uint24(p)' = get_uint24(p)
    BY <1>0 DEF get_uint24
  <2>3. \A p : get_uint32(p)' = get_uint32(p)
    BY <1>0 DEF get_uint32
  <2> QED BY <1>0, <2>1, <2>2, <2>3 DEF get_ptr_from
<1>7. ASSUME NEW o PROVE Resolved(o)' = Resolved(o)
  BY <1>0, <1>1, <1>5, <1>6 DEF Resolved
<1>8. ASSUME NEW o PROVE (NoValue(o)' <=> NoValue(o)) /\ Levels(o)' = Levels(o)
  BY <1>1, <1>3, <1>5, <1>7 DEF NoValue, Levels
<1> QED BY <1>3, <1>4, <1>5, <1>7, <1>8

\* Where values end.
Obey(f) ==
  /\ f \in [Nat \X Nat -> Nat]
  /\ \A o, n \in Nat :
       /\ f[<<o, 0>>] = o
       /\ n # 0 /\ Invalid(o) => f[<<o, n>>] = Nowhere
       /\ n # 0 /\ ~Invalid(o) =>
            /\ f[<<NextAt(o), MembersAt(o)>>] > o
            /\ f[<<o, n>>] = f[<<f[<<NextAt(o), MembersAt(o)>>], n - 1>>]

\* EndOf does.
LEMMA EndOfObeys == SectionOK => Obey(EndOf)
<1> SUFFICES ASSUME SectionOK PROVE Obey(EndOf)
  OBVIOUS
<1>1. EndOf \in [Nat \X Nat -> Nat]
  <2>1. DOMAIN EndOf = Nat \X Nat /\ EndOf = [s \in Nat \X Nat |-> EndOf[s]]
    <3> DEFINE E == EndOf
               D(s) == IF s[2] = 0 THEN s[1]
                       ELSE IF Invalid(s[1]) THEN Nowhere
                       ELSE E[<<E[<<NextAt(s[1]), MembersAt(s[1])>>], s[2] - 1>>]
    <3>1. E = [s \in Nat \X Nat |-> D(s)]
      BY EndOfRecurs
    <3> HIDE DEF E, D
    <3>2. DOMAIN E = Nat \X Nat /\ E = [s \in Nat \X Nat |-> E[s]]
      BY <3>1
    <3> QED BY <3>2 DEF E
  <2>2. \A s \in Nat \X Nat : EndOf[s] \in Nat
    <3> SUFFICES ASSUME NEW o \in Nat, NEW n \in Nat PROVE EndOf[<<o, n>>] \in Nat
      OBVIOUS
    <3> QED BY EndOfType
  <2> QED BY <2>1, <2>2
<1>2. ASSUME NEW o \in Nat, NEW n \in Nat
      PROVE  /\ EndOf[<<o, 0>>] = o
             /\ n # 0 /\ Invalid(o) => EndOf[<<o, n>>] = Nowhere
             /\ n # 0 /\ ~Invalid(o) =>
                  /\ EndOf[<<NextAt(o), MembersAt(o)>>] > o
                  /\ EndOf[<<o, n>>] = EndOf[<<EndOf[<<NextAt(o), MembersAt(o)>>], n - 1>>]
  <2>1. EndOf[<<o, 0>>] = o
    BY EndOfNone
  <2>2. n # 0 /\ Invalid(o) => EndOf[<<o, n>>] = Nowhere
    BY EndOfInvalid
  <2>3. n # 0 /\ ~Invalid(o) =>
          EndOf[<<o, n>>] = EndOf[<<EndOf[<<NextAt(o), MembersAt(o)>>], n - 1>>]
    BY EndOfNext
  <2>4. ~Invalid(o) => EndAt(o) = EndOf[<<NextAt(o), MembersAt(o)>>] /\ EndAt(o) > o
    BY EndAtFacts
  <2> QED BY <2>1, <2>2, <2>3, <2>4
<1> QED BY <1>1, <1>2 DEF Obey

\* Nothing else does.
LEMMA OneEnd ==
  ASSUME SectionOK, NEW f, NEW g, Obey(f), Obey(g)
  PROVE  f = g
<1> DEFINE S == Nat \X Nat
           T == {s \in S : f[s] # g[s]}
<1>1. f \in [S -> Nat] /\ g \in [S -> Nat]
  BY DEF Obey
<1>2. T = {}
  <2> SUFFICES ASSUME T # {} PROVE FALSE
    OBVIOUS
  <2>1. T \in SUBSET S
    OBVIOUS
  <2>2. PICK s \in T : \A y \in T : ~Before(RoomAt, CountAt, y, s)
    <3> HIDE DEF T, S
    <3>1. RoomAt \in [S -> Nat] /\ CountAt \in [S -> Nat]
      BY Measures DEF S
    <3> QED BY <2>1, <3>1, LeastPair
  <2>3. PICK o \in Nat, n \in Nat : s = <<o, n>>
    BY <2>2
  <2>4. f[<<o, n>>] # g[<<o, n>>]
        /\ \A p, m \in Nat : Before(RoomAt, CountAt, <<p, m>>, s) => f[<<p, m>>] = g[<<p, m>>]
    BY <2>2, <2>3
  <2> HIDE DEF T, S
  <2>5. n # 0 /\ ~Invalid(o)
    <3>1. f[<<o, 0>>] = o /\ g[<<o, 0>>] = o
      BY DEF Obey
    <3>2. n # 0 /\ Invalid(o) => f[<<o, n>>] = Nowhere /\ g[<<o, n>>] = Nowhere
      BY DEF Obey
    <3> QED BY <2>4, <3>1, <3>2
  <2>6. o < NextAt(o) /\ NextAt(o) \in Nat /\ MembersAt(o) \in Nat
    BY <2>5, NextIsLater, MembersFacts
  <2>7. f[<<NextAt(o), MembersAt(o)>>] = g[<<NextAt(o), MembersAt(o)>>]
    <3>1. Before(RoomAt, CountAt, <<NextAt(o), MembersAt(o)>>, s)
      BY <2>3, <2>5, <2>6, Measures
    <3> QED BY <2>4, <2>6, <3>1
  <2> DEFINE e == f[<<NextAt(o), MembersAt(o)>>]
  <2>8. /\ e \in Nat /\ e > o /\ f[<<o, n>>] = f[<<e, n - 1>>] /\ g[<<o, n>>] = g[<<e, n - 1>>]
    <3>1. <<NextAt(o), MembersAt(o)>> \in S
      BY <2>6 DEF S
    <3>2. e \in Nat
      BY <1>1, <3>1
    <3>3. e > o /\ f[<<o, n>>] = f[<<e, n - 1>>]
      BY <2>5 DEF Obey
    <3>4. g[<<o, n>>] = g[<<g[<<NextAt(o), MembersAt(o)>>], n - 1>>]
      BY <2>5 DEF Obey
    <3> QED BY <2>7, <3>2, <3>3, <3>4
  <2> HIDE DEF e
  <2>9. n - 1 \in Nat
    BY <2>5
  <2>10. f[<<e, n - 1>>] = g[<<e, n - 1>>]
    BY <2>3, <2>4, <2>5, <2>8, <2>9, Measures
  <2> QED BY <2>4, <2>8, <2>10
<1>3. \A s \in S : f[s] = g[s]
  BY <1>2
<1> HIDE DEF S
<1> QED BY <1>1, <1>3

\* So it stays the same.
LEMMA EndsUnchanged ==
  ASSUME SectionOK, UNCHANGED memoryVars
  PROVE  EndOf' = EndOf /\ \A o : EndAt(o)' = EndAt(o)
<1>1. SectionOK'
  BY DEF SectionOK, memoryVars, data_section_size
<1>2. Obey(EndOf)'
  BY <1>1, EndOfObeys, PTL
<1>3. \A o : (Invalid(o)' <=> Invalid(o)) /\ NextAt(o)' = NextAt(o)
             /\ MembersAt(o)' = MembersAt(o)
  BY ValuesUnchanged
<1>4. PICK f : f = EndOf'
  OBVIOUS
<1>5. Obey(f)
  BY <1>2, <1>3, <1>4 DEF Obey, Nowhere
<1>6. EndOf' = EndOf
  BY <1>4, <1>5, EndOfObeys, OneEnd
<1> QED BY <1>6 DEF EndAt

\* Preorder obeys its recursion.
LEMMA PreorderObeys ==
  SectionOK => /\ Preorder \in [Spans -> Seq(ListItem)]
               /\ \A s \in Spans : Preorder[s] = OrderStep(Preorder, s)
<1> SUFFICES ASSUME SectionOK
             PROVE  /\ Preorder \in [Spans -> Seq(ListItem)]
                    /\ \A s \in Spans : Preorder[s] = OrderStep(Preorder, s)
  OBVIOUS
<1> DEFINE P == Preorder
           L == Seq(ListItem)
<1>1. P = [s \in Spans |-> OrderStep(P, s)]
  BY PreorderRecurs
<1>2. \A s \in Spans : P[s] \in L
  <2> SUFFICES ASSUME NEW o \in Nat, NEW n \in Nat, NEW d \in Nat PROVE P[<<o, n, d>>] \in L
    BY DEF Spans
  <2> QED BY PreorderType
<1> HIDE DEF P, L
<1>3. \A s \in Spans : P[s] = OrderStep(P, s)
  BY <1>1, Zenon
<1>4. DOMAIN P = Spans /\ P = [s \in Spans |-> P[s]]
  <2>1. \E D : P = [s \in Spans |-> D[s]]
    <3> DEFINE D == [s \in Spans |-> OrderStep(P, s)]
    <3>1. P = [s \in Spans |-> D[s]]
      BY <1>1
    <3> QED BY <3>1
  <2> QED BY <2>1
<1>5. P \in [Spans -> L]
  BY <1>2, <1>4
<1> QED BY <1>3, <1>5 DEF P, L

\* Nothing else does.
LEMMA OnePreorder ==
  ASSUME SectionOK, NEW f \in [Spans -> Seq(ListItem)], NEW g \in [Spans -> Seq(ListItem)],
         \A s \in Spans : f[s] = OrderStep(f, s), \A s \in Spans : g[s] = OrderStep(g, s)
  PROVE  f = g
<1> DEFINE T == {s \in Spans : f[s] # g[s]}
<1>1. T = {}
  <2> SUFFICES ASSUME T # {} PROVE FALSE
    OBVIOUS
  <2>1. T \in SUBSET Spans
    OBVIOUS
  <2>2. PICK s \in T : \A y \in T : ~Before(DepthAt, NumberAt, y, s)
    <3> HIDE DEF T
    <3> QED BY <2>1, SpanMeasures, LeastPair
  <2>3. s \in Spans /\ f[s] # g[s]
        /\ \A y \in Spans : Before(DepthAt, NumberAt, y, s) => f[y] = g[y]
    BY <2>2
  <2> HIDE DEF T
  <2>4. OrderStep(f, s) = OrderStep(g, s)
    BY <2>3, OrderSteps
  <2> QED BY <2>3, <2>4
<1>2. \A s \in Spans : f[s] = g[s]
  BY <1>1
<1> QED BY <1>2

\* So it stays the same.
LEMMA FormatUnchanged ==
  ASSUME SectionOK, UNCHANGED memoryVars
  PROVE  EndOf' = EndOf /\ Preorder' = Preorder /\ Parts' = Parts
<1>1. SectionOK'
  BY DEF SectionOK, memoryVars, data_section_size
<1>2. EndOf' = EndOf /\ \A o : EndAt(o)' = EndAt(o)
  BY EndsUnchanged
<1>3. \A o : /\ NextAt(o)' = NextAt(o) /\ MembersAt(o)' = MembersAt(o)
             /\ Resolved(o)' = Resolved(o) /\ (NoValue(o)' <=> NoValue(o))
             /\ Levels(o)' = Levels(o)
  BY ValuesUnchanged
<1>4. \A o : TypeAt(o)' = TypeAt(o)
  BY HeadsUnchanged
<1>5. \A o : ItemAt(o)' = ItemAt(o)
  BY <1>2, <1>3, <1>4 DEF ItemAt
<1>6. /\ Preorder' \in [Spans -> Seq(ListItem)]
      /\ \A s \in Spans : Preorder'[s] = OrderStep(Preorder, s)'
  <2>1. (/\ Preorder \in [Spans -> Seq(ListItem)]
         /\ \A s \in Spans : Preorder[s] = OrderStep(Preorder, s))'
    BY <1>1, PreorderObeys, PTL
  <2> QED BY <2>1 DEF Spans, ListItem
<1>7. PICK f \in [Spans -> Seq(ListItem)] : f = Preorder'
  BY <1>6
<1>8. \A s \in Spans : f[s] = OrderStep(f, s)
  <2>1. TAKE s \in Spans
  <2>2. OrderStep(Preorder, s)' = OrderStep(f, s)
    BY <1>2, <1>3, <1>5, <1>7 DEF OrderStep, Unreadable, Nowhere
  <2> QED BY <1>6, <1>7, <2>2
<1>9. Preorder' = Preorder
  BY <1>7, <1>8, OnePreorder, PreorderObeys
<1>10. ASSUME NEW s \in Spans PROVE Part(s[1], s[2], s[3])' = Part(s[1], s[2], s[3])
  BY <1>3, <1>4, <1>9 DEF Part, Unreadable, Nowhere
<1>11. Parts' = Parts
  BY <1>10 DEF Parts, Spans
<1> QED BY <1>2, <1>9, <1>11

\* No values make an empty list.
LEMMA PreorderNone ==
  ASSUME SectionOK, NEW o \in Nat, NEW d \in Nat
  PROVE  Preorder[<<o, 0, d>>] = << >>
BY PreorderEquation

\* A value without members, behind a pointer or not.
LEMMA SimplePart ==
  ASSUME SectionOK, NEW o \in Nat, NEW d \in Nat, d # 0, NEW own \in Nat,
         ~NoValue(o), TypeAt(Resolved(o)) \notin Compound
  PROVE  Part(o, d, own) = <<[offset |-> Resolved(o), type |-> TypeAt(Resolved(o)),
                              offset_to_next |-> own]>>
<1> DEFINE i == [offset |-> Resolved(o), type |-> TypeAt(Resolved(o)), offset_to_next |-> own]
           x == Preorder[<<NextAt(Resolved(o)), MembersAt(Resolved(o)), d - Levels(o)>>]
<1>1. Levels(o) = 1
  BY DEF Levels
<1>2. ~(d < Levels(o)) /\ d - Levels(o) \in Nat
  BY <1>1
<1>3. Part(o, d, own) = <<i>> \o x
  BY <1>2 DEF Part
<1>4. Resolved(o) \in Nat
  BY ResolvedFacts
<1>5. NextAt(Resolved(o)) \in Nat /\ MembersAt(Resolved(o)) = 0
  BY <1>4, MembersFacts
<1>6. x = << >>
  <2>1. Preorder[<<NextAt(Resolved(o)), 0, d - Levels(o)>>] = << >>
    BY <1>2, <1>5, PreorderNone
  <2> QED BY <1>5, <2>1
<1> HIDE DEF i, x
<1>7. <<i>> \o << >> = <<i>>
  OBVIOUS
<1> QED BY <1>3, <1>6, <1>7 DEF i

\* A map or array.
LEMMA CompoundPart ==
  ASSUME SectionOK, NEW o \in Nat, NEW d \in Nat, d # 0, NEW own \in Nat,
         ~Invalid(o), TypeAt(o) \in Compound
  PROVE  /\ Part(o, d, own) = <<[offset |-> o, type |-> TypeAt(o), offset_to_next |-> own]>>
                                \o Preorder[<<NextAt(o), MembersAt(o), d - 1>>]
         /\ ~NoValue(o) /\ Resolved(o) = o
<1>1. ~PointsAway(o)
  BY DEF PointsAway, Compound, MAP, ARRAY, POINTER
<1>2. Resolved(o) = o /\ Levels(o) = 1 /\ ~NoValue(o)
  BY <1>1 DEF Resolved, Levels, NoValue
<1>3. ~(d < Levels(o))
  BY <1>2
<1> QED BY <1>2, <1>3 DEF Part

\* A pointer to one: its target, a level further down.
LEMMA PointerPart ==
  ASSUME SectionOK, NEW o \in Nat, NEW d \in Nat, d # 0, NEW own \in Nat,
         PointsAway(o), ~Invalid(Resolved(o)), TypeAt(Resolved(o)) \in Compound
  PROVE  Part(o, d, own) = Part(Resolved(o), d - 1, own)
<1> DEFINE v == Resolved(o)
<1>1. v \in Nat
  BY ResolvedFacts
<1>2. ~PointsAway(v)
  BY DEF PointsAway, Compound, MAP, ARRAY, POINTER
<1>3. Resolved(v) = v /\ Levels(v) = 1 /\ ~NoValue(v)
  BY <1>2 DEF Resolved, Levels, NoValue
<1>4. Levels(o) = 2 /\ ~NoValue(o)
  BY <1>2 DEF Levels, NoValue, PointsAway
<1>5. (d < 2 <=> d - 1 < 1) /\ d - 2 = (d - 1) - 1
  OBVIOUS
<1> HIDE DEF v
<1>6. Part(o, d, own) = IF d < 2 THEN <<Unreadable>>
        ELSE <<[offset |-> v, type |-> TypeAt(v), offset_to_next |-> own]>>
               \o Preorder[<<NextAt(v), MembersAt(v), d - 2>>]
  BY <1>4 DEF Part, v
<1>7. Part(v, d - 1, own) = IF d - 1 < 1 THEN <<Unreadable>>
        ELSE <<[offset |-> v, type |-> TypeAt(v), offset_to_next |-> own]>>
               \o Preorder[<<NextAt(v), MembersAt(v), (d - 1) - 1>>]
  BY <1>3 DEF Part
<1> QED BY <1>5, <1>6, <1>7 DEF v

\* What is refused is not readable: no value, too deep, or no room for the members.
LEMMA RefusedPart ==
  ASSUME SectionOK, NEW o \in Nat, NEW d \in Nat, NEW own \in Nat,
         \/ d = 0 \/ NoValue(o)
         \/ /\ TypeAt(o) \in Compound /\ ~Invalid(o)
            /\ \/ NextAt(o) > data_section_size
               \/ SizeAt(o) > (data_section_size - NextAt(o))
                                \div (IF TypeAt(o) = MAP THEN 2 ELSE 1)
  PROVE  ~Readable(Part(o, d, own))
<1>1. Levels(o) \in 1 .. 2
  BY ResolvedFacts
<1>2. CASE d = 0 \/ NoValue(o)
  <2>1. NoValue(o) \/ d < Levels(o)
    BY <1>1, <1>2
  <2> QED BY <2>1, ReadableOne DEF Part
<1>3. CASE d # 0 /\ ~NoValue(o)
  <2>1. /\ TypeAt(o) \in Compound /\ ~Invalid(o)
        /\ \/ NextAt(o) > data_section_size
           \/ SizeAt(o) > (data_section_size - NextAt(o))
                            \div (IF TypeAt(o) = MAP THEN 2 ELSE 1)
    BY <1>3
  <2> DEFINE i == [offset |-> o, type |-> TypeAt(o), offset_to_next |-> own]
             x == Preorder[<<NextAt(o), MembersAt(o), d - 1>>]
  <2>2. Part(o, d, own) = <<i>> \o x
    BY <1>3, <2>1, CompoundPart
  <2>3. d - 1 \in Nat
    BY <1>3
  <2>4. MembersAt(o) \in Nat /\ NextAt(o) \in Nat
    BY MembersFacts
  <2>5. /\ HeadEnd(o) \in Nat /\ SizeBytes(o) \in 0 .. 3
        /\ BodyStart(o) = HeadEnd(o) + SizeBytes(o) /\ SizeAt(o) \in Nat
    BY HeadFacts
  <2>6. data_section_size \in Nat
    BY SizeIsNat
  <2>7. ASSUME Readable(x) PROVE FALSE
    <3>1. Sound(NextAt(o), MembersAt(o), d - 1)
      BY <2>7 DEF Sound
    <3>2. MembersAt(o) # 0 => NextAt(o) + MembersAt(o) <= data_section_size
      BY <2>3, <2>4, <3>1, SoundRoom
    <3>3. MembersAt(o) = IF TypeAt(o) = MAP THEN 2 * SizeAt(o) ELSE SizeAt(o)
      BY <2>1 DEF MembersAt, Compound, MAP, ARRAY
    <3>4. CASE SizeAt(o) # 0
      <4>1. MembersAt(o) # 0
        BY <2>5, <3>3, <3>4
      <4>2. CASE TypeAt(o) = MAP
        <5>1. NextAt(o) + 2 * SizeAt(o) <= data_section_size
          BY <3>2, <3>3, <4>1, <4>2
        <5>2. SizeAt(o) > (data_section_size - NextAt(o)) \div 2
          BY <2>1, <2>4, <2>5, <2>6, <4>2, <5>1
        <5> QED BY <2>4, <2>5, <2>6, <5>1, <5>2
      <4>3. CASE TypeAt(o) # MAP
        <5>1. NextAt(o) + SizeAt(o) <= data_section_size
          BY <3>2, <3>3, <4>1, <4>3
        <5>2. SizeAt(o) > (data_section_size - NextAt(o)) \div 1
          BY <2>1, <2>4, <2>5, <2>6, <4>3, <5>1
        <5> QED BY <2>4, <2>5, <2>6, <5>1, <5>2
      <4> QED BY <4>2, <4>3
    <3>5. CASE SizeAt(o) = 0
      <4>1. SizeBytes(o) = 0
        <5>1. mem(HeadEnd(o)) \in Nat /\ get_uint16(HeadEnd(o)) \in Nat
              /\ get_uint24(HeadEnd(o)) \in Nat
          <6>1. mem(HeadEnd(o)) \in 0 .. 255
            BY <2>5, MemIsByte
          <6>2. get_uint16(HeadEnd(o)) \in Nat /\ get_uint24(HeadEnd(o)) \in Nat
            BY <2>5, UintTypes
          <6> QED BY <6>1, <6>2
        <5> QED BY <2>5, <3>5, <5>1 DEF SizeAt
      <4>2. NextAt(o) = HeadEnd(o)
        <5>1. TypeAt(o) # POINTER /\ ~HasBody(o)
          BY <2>1 DEF HasBody, Compound, MAP, ARRAY, POINTER
        <5> QED BY <2>5, <4>1, <5>1 DEF NextAt
      <4>3. HeadEnd(o) <= data_section_size
        <5>1. o < data_section_size /\ 1 <= data_section_size
          BY <2>1, <2>6, NextIsLater
        <5>2. CASE Extended(o)
          <6>1. ~Past(o + 1, 1)
            BY <2>1, <5>2 DEF Invalid, ExtendedPast
          <6>2. (o + 1) + 1 <= data_section_size
            BY <5>1, <6>1, PastIsSound
          <6> QED BY <5>2, <6>2 DEF HeadEnd
        <5>3. CASE ~Extended(o)
          BY <2>6, <5>1, <5>3 DEF HeadEnd
        <5> QED BY <5>2, <5>3
      <4>4. 0 > (data_section_size - NextAt(o)) \div (IF TypeAt(o) = MAP THEN 2 ELSE 1)
        BY <2>1, <2>4, <2>6, <3>5, <4>2, <4>3
      <4>5. data_section_size - NextAt(o) \in Nat
        BY <2>4, <2>6, <4>2, <4>3
      <4> QED BY <4>4, <4>5
    <3> QED BY <3>4, <3>5
  <2>8. x \in Seq(ListItem)
    BY <2>3, <2>4, PreorderType
  <2>9. <<i>> \in Seq(ListItem)
    <3>1. TypeAt(o) \in 1 .. (7 + 255)
      BY HeadFacts
    <3> QED BY <3>1 DEF ListItem
  <2> HIDE DEF i, x
  <2> QED BY <2>2, <2>7, <2>8, <2>9, ReadableConcat
<1> QED BY <1>2, <1>3

\* One step of the search for keys that are no strings.
KeyStep(f, s) ==
  IF s[2] = 0 \/ s[3] = 0 \/ Invalid(s[1]) THEN {}
  ELSE (IF Invalid(Resolved(s[1])) THEN {}
        ELSE {k \in KeysOf(Resolved(s[1])) : ~KeyIsString(k)}
               \cup f[<<NextAt(Resolved(s[1])), MembersAt(Resolved(s[1])), s[3] - 1>>])
         \cup f[<<EndAt(s[1]), s[2] - 1, s[3]>>]

\* A key is an offset.
LEMMA KeysType ==
  ASSUME SectionOK, NEW v \in Nat
  PROVE  KeysOf(v) \in SUBSET Nat
<1>1. NextAt(v) \in Nat /\ SizeAt(v) \in Nat
  BY MembersFacts, HeadFacts
<1>2. \A k \in 0 .. (SizeAt(v) - 1) : 2 * k \in Nat
  BY <1>1
<1>3. \A k \in 0 .. (SizeAt(v) - 1) : EndOf[<<NextAt(v), 2 * k>>] \in Nat
  BY <1>1, <1>2, EndOfType
<1> QED BY <1>3 DEF KeysOf

\* What comes before decides a step.
LEMMA KeySteps ==
  ASSUME SectionOK, NEW f, NEW s \in Spans,
         \A y \in Spans : Before(DepthAt, NumberAt, y, s) => f[y] \in SUBSET Nat
  PROVE  /\ KeyStep(f, s) \in SUBSET Nat
         /\ \A g : (\A y \in Spans : Before(DepthAt, NumberAt, y, s) => f[y] = g[y]) =>
              KeyStep(f, s) = KeyStep(g, s)
<1>1. CASE s[2] = 0 \/ s[3] = 0 \/ Invalid(s[1])
  <2>1. ASSUME NEW g PROVE KeyStep(g, s) = {}
    BY <1>1, Zenon DEF KeyStep
  <2>2. {} \in SUBSET Nat
    OBVIOUS
  <2> QED BY <2>1, <2>2, Zenon
<1>2. CASE ~(s[2] = 0 \/ s[3] = 0 \/ Invalid(s[1]))
  <2> DEFINE x == <<NextAt(Resolved(s[1])), MembersAt(Resolved(s[1])), s[3] - 1>>
             y == <<EndAt(s[1]), s[2] - 1, s[3]>>
             K == {k \in KeysOf(Resolved(s[1])) : ~KeyIsString(k)}
  <2>1. s[1] \in Nat /\ y \in Spans /\ Before(DepthAt, NumberAt, y, s)
    BY <1>2, SpanParts
  <2>2. s[3] \in Nat /\ s[3] >= 1 /\ 1 \in 1 .. 2
    BY <1>2 DEF Spans
  <2>3. x \in Spans /\ Before(DepthAt, NumberAt, x, s)
    BY <1>2, <2>2, SpanParts
  <2>4. f[x] \in SUBSET Nat /\ f[y] \in SUBSET Nat
    BY <2>1, <2>3
  <2>5. K \in SUBSET Nat
    <3>1. Resolved(s[1]) \in Nat
      BY <2>1, ResolvedFacts
    <3> QED BY <3>1, KeysType
  <2>6. ASSUME NEW g
        PROVE  KeyStep(g, s) = (IF Invalid(Resolved(s[1])) THEN {} ELSE K \cup g[x]) \cup g[y]
    BY <1>2, Zenon DEF KeyStep
  <2> HIDE DEF x, y, K
  <2>7. KeyStep(f, s) \in SUBSET Nat
    BY <2>4, <2>5, <2>6
  <2>8. ASSUME NEW g, \A z \in Spans : Before(DepthAt, NumberAt, z, s) => f[z] = g[z]
        PROVE  KeyStep(f, s) = KeyStep(g, s)
    <3>1. f[x] = g[x] /\ f[y] = g[y]
      BY <2>1, <2>3, <2>8
    <3>2. /\ KeyStep(f, s) = (IF Invalid(Resolved(s[1])) THEN {} ELSE K \cup f[x]) \cup f[y]
          /\ KeyStep(g, s) = (IF Invalid(Resolved(s[1])) THEN {} ELSE K \cup g[x]) \cup g[y]
      BY <2>6
    <3> QED BY <3>1, <3>2, Zenon
  <2> QED BY <2>7, <2>8, Zenon
<1> QED BY <1>1, <1>2

\* OtherKeys is defined: it obeys its recursion.
LEMMA OtherKeysRecurs ==
  ASSUME SectionOK
  PROVE  OtherKeys = [s \in Spans |-> KeyStep(OtherKeys, s)]
<1> DEFINE T == SUBSET Nat
           G == [f \in [Spans -> T] |-> [s \in Spans |-> KeyStep(f, s)]]
<1>1. \A f \in [Spans -> T], s \in Spans : KeyStep(f, s) \in T
  BY KeySteps
<1>2. G \in [[Spans -> T] -> [Spans -> T]]
      /\ \A f \in [Spans -> T] : G[f] = [s \in Spans |-> KeyStep(f, s)]
  <2> HIDE DEF T
  <2> QED BY <1>1
<1>3. ASSUME NEW f \in [Spans -> T], NEW g \in [Spans -> T], NEW s \in Spans,
             \A y \in Spans : Before(DepthAt, NumberAt, y, s) => f[y] = g[y]
      PROVE  KeyStep(f, s) = KeyStep(g, s)
  BY <1>3, KeySteps
<1>4. Recurses(DepthAt, NumberAt, Spans, T, G)
  <2> HIDE DEF G, T
  <2>1. \A f \in [Spans -> T], s \in Spans : G[f][s] = KeyStep(f, s)
    BY <1>2
  <2> QED BY <1>2, <1>3, <2>1 DEF Recurses
<1>5. {} \in T
  OBVIOUS
<1> HIDE DEF G, T
<1>6. PICK f \in [Spans -> T] : f = G[f]
  BY <1>4, <1>5, SpanMeasures, RecursionHasSolution
<1>7. f = [s \in Spans |-> KeyStep(f, s)]
  BY <1>2, <1>6
<1> QED BY <1>7, Zenon DEF OtherKeys, KeyStep, Spans

\* What it says.
LEMMA OtherKeysObeys ==
  SectionOK => /\ OtherKeys \in [Spans -> SUBSET Nat]
               /\ \A s \in Spans : OtherKeys[s] = KeyStep(OtherKeys, s)
<1> SUFFICES ASSUME SectionOK
             PROVE  /\ OtherKeys \in [Spans -> SUBSET Nat]
                    /\ \A s \in Spans : OtherKeys[s] = KeyStep(OtherKeys, s)
  OBVIOUS
<1> DEFINE P == OtherKeys
           L == SUBSET Nat
<1>1. P = [s \in Spans |-> KeyStep(P, s)]
  BY OtherKeysRecurs
<1> HIDE DEF P
<1>2. \A s \in Spans : P[s] = KeyStep(P, s)
  BY <1>1, Zenon
<1> DEFINE T == {s \in Spans : P[s] \notin L}
<1>3. T = {}
  <2> SUFFICES ASSUME T # {} PROVE FALSE
    OBVIOUS
  <2>1. T \in SUBSET Spans
    OBVIOUS
  <2>2. PICK s \in T : \A y \in T : ~Before(DepthAt, NumberAt, y, s)
    <3> HIDE DEF T
    <3> QED BY <2>1, SpanMeasures, LeastPair
  <2>3. s \in Spans /\ P[s] \notin L
        /\ \A y \in Spans : Before(DepthAt, NumberAt, y, s) => P[y] \in L
    BY <2>2
  <2> HIDE DEF T
  <2>4. KeyStep(P, s) \in L
    BY <2>3, KeySteps
  <2> QED BY <1>2, <2>3, <2>4
<1>4. DOMAIN P = Spans /\ P = [s \in Spans |-> P[s]]
  <2>1. \E D : P = [s \in Spans |-> D[s]]
    <3> DEFINE D == [s \in Spans |-> KeyStep(P, s)]
    <3>1. P = [s \in Spans |-> D[s]]
      BY <1>1
    <3> QED BY <3>1
  <2> QED BY <2>1
<1>5. P \in [Spans -> L]
  <2>1. \A s \in Spans : P[s] \in L
    BY <1>3
  <2> HIDE DEF L
  <2> QED BY <1>4, <2>1
<1> QED BY <1>2, <1>5 DEF P

\* No such keys in values: none in those after the first, in its members and its own.
LEMMA KeysClear ==
  ASSUME SectionOK, NEW o \in Nat, NEW n \in Nat, NEW d \in Nat, n # 0, d # 0, ~Invalid(o),
         OtherKeys[<<o, n, d>>] = {}
  PROVE  /\ OtherKeys[<<EndAt(o), n - 1, d>>] = {}
         /\ ~Invalid(Resolved(o)) =>
              /\ OtherKeys[<<NextAt(Resolved(o)), MembersAt(Resolved(o)), d - 1>>] = {}
              /\ \A k \in KeysOf(Resolved(o)) : KeyIsString(k)
<1> DEFINE s == <<o, n, d>>
           P == OtherKeys
           x == <<NextAt(Resolved(o)), MembersAt(Resolved(o)), d - 1>>
           y == <<EndAt(o), n - 1, d>>
           K == {k \in KeysOf(Resolved(o)) : ~KeyIsString(k)}
<1>1. s \in Spans /\ s[1] = o /\ s[2] = n /\ s[3] = d
  BY SpanMeasures
<1>2. P[s] = KeyStep(P, s)
  <2>1. \A r \in Spans : P[r] = KeyStep(P, r)
    BY OtherKeysObeys
  <2> HIDE DEF P, s
  <2> QED BY <1>1, <2>1
<1> HIDE DEF P, s
<1>3. KeyStep(P, s) = (IF Invalid(Resolved(o)) THEN {} ELSE K \cup P[x]) \cup P[y]
  BY <1>1 DEF KeyStep
<1>4. P[s] = {}
  BY DEF P, s
<1> HIDE DEF x, y, K
<1>5. P[y] = {} /\ (~Invalid(Resolved(o)) => K = {} /\ P[x] = {})
  BY <1>2, <1>3, <1>4
<1>6. ~Invalid(Resolved(o)) => \A k \in KeysOf(Resolved(o)) : KeyIsString(k)
  BY <1>5 DEF K
<1> QED BY <1>5, <1>6 DEF P, x, y

\* Nothing else obeys the recursion.
LEMMA OneOtherKeys ==
  ASSUME SectionOK, NEW f \in [Spans -> SUBSET Nat], NEW g \in [Spans -> SUBSET Nat],
         \A s \in Spans : f[s] = KeyStep(f, s), \A s \in Spans : g[s] = KeyStep(g, s)
  PROVE  f = g
<1> DEFINE T == {s \in Spans : f[s] # g[s]}
<1>1. T = {}
  <2> SUFFICES ASSUME T # {} PROVE FALSE
    OBVIOUS
  <2>1. T \in SUBSET Spans
    OBVIOUS
  <2>2. PICK s \in T : \A y \in T : ~Before(DepthAt, NumberAt, y, s)
    <3> HIDE DEF T
    <3> QED BY <2>1, SpanMeasures, LeastPair
  <2>3. s \in Spans /\ f[s] # g[s]
        /\ \A y \in Spans : Before(DepthAt, NumberAt, y, s) => f[y] = g[y]
    BY <2>2
  <2> HIDE DEF T
  <2>4. KeyStep(f, s) = KeyStep(g, s)
    BY <2>3, KeySteps
  <2> QED BY <2>3, <2>4
<1>2. \A s \in Spans : f[s] = g[s]
  BY <1>1
<1> QED BY <1>2

\* So it stays the same.
LEMMA KeysUnchanged ==
  ASSUME SectionOK, UNCHANGED memoryVars
  PROVE  OtherKeys' = OtherKeys /\ \A o : KeyIsString(o)' <=> KeyIsString(o)
<1>1. SectionOK'
  BY DEF SectionOK, memoryVars, data_section_size
<1>2. EndOf' = EndOf /\ \A o : EndAt(o)' = EndAt(o)
  BY EndsUnchanged
<1>3. \A o : /\ NextAt(o)' = NextAt(o) /\ MembersAt(o)' = MembersAt(o)
             /\ Resolved(o)' = Resolved(o) /\ (NoValue(o)' <=> NoValue(o))
             /\ (Invalid(o)' <=> Invalid(o))
  BY ValuesUnchanged
<1>4. \A o : TypeAt(o)' = TypeAt(o) /\ SizeAt(o)' = SizeAt(o)
  BY HeadsUnchanged
<1>5. \A o : KeyIsString(o)' <=> KeyIsString(o)
  BY <1>3, <1>4 DEF KeyIsString
<1>6. \A v : KeysOf(v)' = KeysOf(v)
  BY <1>2, <1>3, <1>4 DEF KeysOf
<1>7. /\ OtherKeys' \in [Spans -> SUBSET Nat]
      /\ \A s \in Spans : OtherKeys'[s] = KeyStep(OtherKeys, s)'
  <2>1. (/\ OtherKeys \in [Spans -> SUBSET Nat]
         /\ \A s \in Spans : OtherKeys[s] = KeyStep(OtherKeys, s))'
    BY <1>1, OtherKeysObeys, PTL
  <2> QED BY <2>1 DEF Spans
<1>8. PICK f \in [Spans -> SUBSET Nat] : f = OtherKeys'
  BY <1>7
<1>9. \A s \in Spans : f[s] = KeyStep(f, s)
  <2>1. TAKE s \in Spans
  <2>2. KeyStep(OtherKeys, s)' = KeyStep(f, s)
    BY <1>2, <1>3, <1>5, <1>6, <1>8 DEF KeyStep
  <2> QED BY <1>7, <1>8, <2>2
<1>10. OtherKeys' = OtherKeys
  BY <1>8, <1>9, OneOtherKeys, OtherKeysObeys
<1> QED BY <1>5, <1>10

===============================================================================
