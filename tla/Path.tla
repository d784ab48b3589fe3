--------------------------------- MODULE Path ---------------------------------
(***************************************************************************)
(* MMDB_get_value, MMDB_vget_value and MMDB_aget_value (src/maxminddb.c):  *)
(* a value is looked up by a path of map keys and array indexes.  One step *)
(* is one round of a loop or one call of skip_map_or_array.                *)
(*                                                                         *)
(* A path element is the sequence of its bytes.  `value' is the local      *)
(* struct the loops decode into; lookup_path_in_array decodes into the     *)
(* caller's struct instead, which it overwrites or zeroes before anybody   *)
(* sees it.                                                                *)
(***************************************************************************)
EXTENDS Decoding, SequencesExt

CONSTANTS Starts,               \* offsets of entries: MMDB_entry_s.offset
          Paths,                \* the paths asked for
          LONG_MAX,
          Uninitialised         \* what a local MMDB_entry_data_s holds at first

EntryType == [offset : Nat, type : Nat, pointer : Nat, bytes : Nat,
              data_size : Nat, offset_to_next : Nat]

ASSUME PathAssumption ==
  /\ Starts \subseteq Nat /\ Paths \subseteq Seq(Seq(Byte))
  /\ LONG_MAX \in Nat /\ Uninitialised \in EntryType

VARIABLES lookup,       \* where the call is: "idle" or one of its loops
          asked,        \* its arguments: start offset and path
          path,         \* the elements still to be looked up
          left,         \* rounds left of the array's or map's loop
          value,        \* the value decoded last
          skips,        \* skip_map_or_array's recursion, innermost last
          entry_data,   \* the caller's struct
          result        \* the status returned last

pathVars == <<lookup, asked, path, left, value, skips, entry_data, result>>
-------------------------------------------------------------------------------
Space == (9 .. 13) \cup {32}
Digit == 48 .. 57

\* strtol(s, &first_invalid, 10): `value' is the number, `junk' whether
\* *first_invalid is not the end of s, `erange' whether errno becomes ERANGE.
strtol(s) ==
  LET n == Len(s)
      After(S, b) == SelectInSubSeq(Append(s, 0), b, n + 1, LAMBDA c : c \notin S)
      sign == After(Space, 1)
      start == IF sign <= n /\ s[sign] \in {43, 45} THEN sign + 1 ELSE sign
      end == After(Digit, start)
      magnitude == FoldLeft(LAMBDA acc, c : IF acc > LONG_MAX + 1 THEN acc
                                            ELSE acc * 10 + (c - 48),
                            0, SubSeq(s, start, end - 1))
      negative == sign <= n /\ s[sign] = 45
  IN [value |-> IF negative THEN -magnitude ELSE magnitude,
      junk |-> IF start = end THEN n > 0 ELSE end <= n,
      erange |-> magnitude > LONG_MAX + (IF negative THEN 1 ELSE 0)]

\* The element of an array of `size' that path_elem names, or the error status.
ArrayIndex(path_elem, size) ==
  LET parsed == strtol(path_elem)
      index == IF parsed.value < 0 THEN parsed.value + size ELSE parsed.value
  IN IF parsed.erange THEN [status |-> "MMDB_INVALID_LOOKUP_PATH_ERROR", index |-> 0]
     ELSE IF parsed.junk \/ index \notin 0 .. (size - 1)
     THEN [status |-> "MMDB_LOOKUP_PATH_DOES_NOT_MATCH_DATA_ERROR", index |-> 0]
     ELSE [status |-> "MMDB_SUCCESS", index |-> index]

\* The string's bytes are the path element's.
Matches(key, path_elem) ==
  /\ key.data_size = Len(path_elem)
  /\ \A k \in 1 .. key.data_size : mem(key.bytes + k - 1) = path_elem[k]
-------------------------------------------------------------------------------
PathInit ==
  /\ lookup = "idle" /\ asked = [start |-> 0, path |-> << >>]
  /\ path = << >> /\ left = 0 /\ value = EmptyEntry /\ skips = << >>
  /\ entry_data = EmptyEntry /\ result = "none"

Return(status) ==
  /\ lookup' = "idle" /\ result' = status
  /\ path' = << >> /\ left' = 0 /\ value' = EmptyEntry /\ skips' = << >>
  /\ UNCHANGED asked

\* A loop's error: MMDB_aget_value zeroes the caller's struct and returns it.
Fail(status) == Return(status) /\ entry_data' = EmptyEntry

\* MMDB_vget_value has no memory for its copy of the path.  (Otherwise the
\* copy lives as long as the call of MMDB_aget_value, and no longer.)
PathOutOfMemory ==
  /\ lookup = "idle"
  /\ lookup' = "idle" /\ result' = "MMDB_OUT_OF_MEMORY_ERROR"
  /\ UNCHANGED <<asked, path, left, value, skips, entry_data>>

\* The top level value.  If it is invalid the caller's struct is left as
\* decode_one_follow left it.
MMDB_aget_value(o, p) ==
  /\ lookup = "idle"
  /\ asked' = [start |-> o, path |-> p]
  /\ entry_data' = Followed(EmptyEntry, o)
  /\ IF FollowFails(EmptyEntry, o)
     THEN /\ lookup' = "idle" /\ result' = "MMDB_INVALID_DATA_ERROR"
          /\ UNCHANGED <<path, left, value, skips>>
     ELSE /\ lookup' = "path" /\ path' = p /\ result' = "none"
          /\ UNCHANGED <<left, value, skips>>

MMDB_get_value(o, p) == PathOutOfMemory \/ MMDB_aget_value(o, p)

\* path is the only thing left of the call.
PathEnds ==
  /\ lookup = "path" /\ path = << >>
  /\ Return("MMDB_SUCCESS")
  /\ UNCHANGED entry_data

\* A path element for a value that has no members.
NoMembers ==
  /\ lookup = "path" /\ path # << >>
  /\ entry_data.type \notin Compound
  /\ Fail("MMDB_LOOKUP_PATH_DOES_NOT_MATCH_DATA_ERROR")

\* lookup_path_in_array and lookup_path_in_map start: `left' members are to be
\* passed over, or to be compared.
IntoArray ==
  LET index == ArrayIndex(Head(path), entry_data.data_size)
  IN /\ lookup = "path" /\ path # << >>
     /\ entry_data.type = ARRAY
     /\ IF index.status # "MMDB_SUCCESS" THEN Fail(index.status)
        ELSE /\ lookup' = "array" /\ left' = index.index /\ value' = entry_data
             /\ UNCHANGED <<asked, path, skips, entry_data, result>>

IntoMap ==
  /\ lookup = "path" /\ path # << >>
  /\ entry_data.type = MAP
  /\ lookup' = "map" /\ left' = entry_data.data_size /\ value' = entry_data
  /\ UNCHANGED <<asked, path, skips, entry_data, result>>

\* skip_map_or_array(v) called at depth Len(stack): its members, if v has any.
Entered(stack, v) ==
  IF v.type \in Compound
  THEN Append(stack, [left |-> v.data_size, map |-> v.type = MAP]) ELSE stack

\* The value at o is decoded into v and then passed over.
SkipValue(v, o) ==
  /\ value' = Decoded(v, o)
  /\ skips' = Entered(skips, value')
  /\ left' = left - 1
  /\ UNCHANGED <<lookup, asked, path, entry_data, result>>

\* Mutant: the path is not advanced.
FoundAgain(o) ==
  IF FollowFails(Uninitialised, o) THEN Fail("MMDB_INVALID_DATA_ERROR")
  ELSE /\ entry_data' = Followed(Uninitialised, o)
       /\ lookup' = "path"
       /\ left' = 0 /\ value' = EmptyEntry
       /\ UNCHANGED <<asked, path, skips, result>>

\* The element is reached: the value at o is the next to be looked into.
Found(o) ==
  IF FollowFails(Uninitialised, o) THEN Fail("MMDB_INVALID_DATA_ERROR")
  ELSE /\ entry_data' = Followed(Uninitialised, o)
       /\ lookup' = "path" /\ path' = Tail(path)
       /\ left' = 0 /\ value' = EmptyEntry
       /\ UNCHANGED <<asked, skips, result>>

PassElement ==
  /\ lookup = "array" /\ skips = << >> /\ left > 0
  /\ IF Invalid(value.offset_to_next) THEN Fail("MMDB_INVALID_DATA_ERROR")
     ELSE SkipValue(value, value.offset_to_next)

TakeElement ==
  /\ lookup = "array" /\ skips = << >> /\ left = 0
  /\ Found(value.offset_to_next)

\* One key of a map, at the place where the last value ended; offset_to_value
\* is where the key ends.
KeyIsInvalid ==
  /\ lookup = "map" /\ skips = << >> /\ left > 0
  /\ \/ FollowFails(Uninitialised, value.offset_to_next)
     \/ Followed(Uninitialised, value.offset_to_next).type # UTF8_STRING
  /\ Fail("MMDB_INVALID_DATA_ERROR")

CompareKey ==
  /\ lookup = "map" /\ skips = << >> /\ left > 0
  /\ ~FollowFails(Uninitialised, value.offset_to_next)
  /\ \E key \in {Followed(Uninitialised, value.offset_to_next)} :
       LET offset_to_value == key.offset_to_next
       IN /\ key.type = UTF8_STRING
          /\ IF Matches(key, Head(path)) THEN Found(offset_to_value)
             ELSE IF Invalid(offset_to_value) THEN Fail("MMDB_INVALID_DATA_ERROR")
             ELSE SkipValue(Uninitialised, offset_to_value)

NoKeyLeft ==
  /\ lookup = "map" /\ skips = << >> /\ left = 0
  /\ Fail("MMDB_LOOKUP_PATH_DOES_NOT_MATCH_DATA_ERROR")
-------------------------------------------------------------------------------
\* Mutant: the keys of a nested map are not passed over.
SkipMemberWithoutKey ==
  LET n == Len(skips)
      at == value.offset_to_next
  IN /\ skips # << >> /\ skips[n].left > 0
     /\ IF Invalid(at) \/ n >= MAXIMUM_DATA_STRUCTURE_DEPTH
        THEN Fail("MMDB_INVALID_DATA_ERROR")
        ELSE /\ value' = Decoded(value, at)
             /\ skips' = Entered([skips EXCEPT ![n].left = @ - 1], value')
             /\ UNCHANGED <<lookup, asked, path, left, entry_data, result>>

\* One member of the innermost map or array that is being passed over.
SkipMember ==
  LET n == Len(skips)
      key == value.offset_to_next
  IN /\ skips # << >> /\ skips[n].left > 0
     /\ \E keyed \in {IF skips[n].map THEN Decoded(value, key) ELSE value} :
          IF \/ skips[n].map /\ Invalid(key)
             \/ Invalid(keyed.offset_to_next)
             \/ n >= MAXIMUM_DATA_STRUCTURE_DEPTH
          THEN Fail("MMDB_INVALID_DATA_ERROR")
          ELSE /\ value' = Decoded(keyed, keyed.offset_to_next)
               /\ skips' = Entered([skips EXCEPT ![n].left = @ - 1], value')
               /\ UNCHANGED <<lookup, asked, path, left, entry_data, result>>

SkipReturns ==
  /\ skips # << >> /\ skips[Len(skips)].left = 0
  /\ skips' = Front(skips)
  /\ UNCHANGED <<lookup, asked, path, left, value, entry_data, result>>

PathStep == \/ PathEnds \/ NoMembers \/ IntoArray \/ IntoMap
            \/ PassElement \/ TakeElement \/ KeyIsInvalid \/ CompareKey \/ NoKeyLeft
            \/ SkipMember \/ SkipReturns

===============================================================================
