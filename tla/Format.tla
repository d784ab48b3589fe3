-------------------------------- MODULE Format --------------------------------
(***************************************************************************)
(* The MaxMind DB format, read without regard to how the library goes      *)
(* about it: where the values from an offset on end, what they hold, and   *)
(* which of them can be read at all.  Path lookups and lists are compared  *)
(* with it.                                                                *)
(***************************************************************************)
EXTENDS Decoding

MaxDepth == MAXIMUM_DATA_STRUCTURE_DEPTH

\* The end of a value that is malformed.
Nowhere == U32

MembersAt(o) == IF TypeAt(o) = MAP THEN 2 * SizeAt(o)
                ELSE IF TypeAt(o) = ARRAY THEN SizeAt(o) ELSE 0

\* Where the s[2] values that start at s[1] end.  A value ends where its last
\* member ends; a pointer ends by itself.
EndOf[s \in Nat \X Nat] ==
  IF s[2] = 0 THEN s[1]
  ELSE IF Invalid(s[1]) THEN Nowhere
  ELSE EndOf[<<EndOf[<<NextAt(s[1]), MembersAt(s[1])>>], s[2] - 1>>]

EndAt(o) == EndOf[<<o, 1>>]

\* The value that stands at o, behind the pointer if there is one.
Resolved(o) ==
  IF PointsAway(o) THEN get_ptr_from(mem(o), HeadEnd(o), psize(o)) ELSE o

NoValue(o) == Invalid(o) \/ Invalid(Resolved(o)) \/ PointsAway(Resolved(o))

\* The nested calls that it takes to read the value at o, without its members.
Levels(o) == IF PointsAway(o) /\ TypeAt(Resolved(o)) \in Compound THEN 2 ELSE 1

\* What a list says of the value at o, and of one that cannot be read.
ItemAt(o) ==
  [offset |-> Resolved(o), type |-> TypeAt(Resolved(o)), offset_to_next |-> EndAt(o)]
Unreadable == [offset |-> Nowhere, type |-> EXTENDED, offset_to_next |-> Nowhere]

\* The s[2] values that start at s[1] with everything in them, pointers replaced,
\* in the file's order, as far as s[3] nested calls can read them.
Preorder[s \in Nat \X Nat \X Nat] ==
  LET o == s[1]
      v == Resolved(o)
  IN IF s[2] = 0 THEN << >>
     ELSE IF NoValue(o) \/ s[3] < Levels(o) THEN <<Unreadable>>
     ELSE <<ItemAt(o)>> \o Preorder[<<NextAt(v), MembersAt(v), s[3] - Levels(o)>>]
            \o Preorder[<<EndAt(o), s[2] - 1, s[3]>>]

\* All n values from o on can be read within d nested calls.
Readable(items) == \A k \in DOMAIN items : items[k] # Unreadable
Sound(o, n, d) == Readable(Preorder[<<o, n, d>>])

\* The key at o, if there is one, is a string.
KeyIsString(o) == NoValue(o) \/ TypeAt(Resolved(o)) = UTF8_STRING

\* The keys of the map at v.
KeysOf(v) == IF TypeAt(v) = MAP
             THEN {EndOf[<<NextAt(v), 2 * k>>] : k \in 0 .. (SizeAt(v) - 1)} ELSE {}

\* The keys that are no strings, of the maps among these values and in them, down
\* to s[3] levels.
OtherKeys[s \in Nat \X Nat \X Nat] ==
  LET o == s[1]
      v == Resolved(o)
  IN IF s[2] = 0 \/ s[3] = 0 \/ Invalid(o) THEN {}
     ELSE (IF Invalid(v) THEN {}
           ELSE {k \in KeysOf(v) : ~KeyIsString(k)}
                  \cup OtherKeys[<<NextAt(v), MembersAt(v), s[3] - 1>>])
            \cup OtherKeys[<<EndAt(o), s[2] - 1, s[3]>>]

===============================================================================
